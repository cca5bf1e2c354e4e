------------------------------ MODULE Balancer ------------------------------
(***************************************************************************)
(* The balanced connection pool (src/lib.rs, struct Balancer): members and *)
(* their health, the idle connections, checkouts and returns, what         *)
(* connections report back, ejection and re-admission, member discovery    *)
(* and the background thread.                                              *)
(*                                                                         *)
(* All pool state sits behind one mutex.  One action is one critical       *)
(* section of that mutex, together with the local work of the same thread  *)
(* next to it; dials and statements happen between actions, unlocked, so   *)
(* every interleaving of the critical sections is a behaviour.             *)
(*                                                                         *)
(* Abstractions.  Durations: a deadline is "waiting" until an environment  *)
(* action lets it pass.  Latencies: any measured member may turn out slow, *)
(* and any usable member may score lowest.  Random choices: any choice.    *)
(* The server: any request may be answered, refused or lost.               *)
(***************************************************************************)
EXTENDS Integers, Sequences, FiniteSets

CONSTANTS
    Endpoint,           \* host:port strings; their order is the order of <
    Seeds,              \* the configured endpoints
    Task,               \* checkout slots: one connection handed out at a time
    Maintainer,         \* the background thread, itself a caller of checkout
    Key, SharedKey,     \* affinity keys; SharedKey is Option::None
    Name,               \* the name a server reached at an endpoint lists itself by
    Listings,           \* SHOW ENDPOINTS answers: functions from names to states
    Policy, IdleOrder,  \* LoadBalancing, IdleOrder
    MaxSize, EjectErrors, Discover, Database, ReadYourWrites, LatencyEjection,
    MinSamples,         \* EWMA_MIN_SAMPLES
    AffinityCap,        \* AFFINITY_CAP
    Attempts,           \* CHECKOUT_ATTEMPTS
    Usize,              \* how many values a usize has
    MaxReplay,          \* session statements a re-dial may replay
    SpawnMayFail        \* whether the OS may refuse to start a thread

Caller == Task \cup {Maintainer}
NoEndpoint == 0
NoEntry == [member |-> NoEndpoint, window |-> "over"]

ListedState == {"ready", "resyncing", "unreachable"}

ASSUME BalancerAssumption ==
    /\ Endpoint \subseteq Nat \ {NoEndpoint} /\ IsFiniteSet(Endpoint)
    /\ Seeds \subseteq Endpoint /\ Seeds # {}   \* PoolBuilder::build
    /\ MaxSize \in Nat \ {0} /\ EjectErrors \in Nat \ {0}
    /\ Maintainer \notin Task /\ IsFiniteSet(Task)
    /\ SharedKey \in Key
    /\ Policy \in {"random", "round_robin", "least_latency"}
    /\ IdleOrder \in {"fifo", "lifo"}
    /\ {Discover, Database, ReadYourWrites, LatencyEjection, SpawnMayFail}
          \subseteq BOOLEAN
    /\ {MinSamples, AffinityCap, Attempts, Usize, MaxReplay} \subseteq Nat
    /\ Attempts > 0 /\ Usize > 0
    \* A listed name is its own name: host names given as seeds are aliases.
    /\ Name \in [Endpoint -> Endpoint]
    /\ \A rows \in Listings :
          /\ DOMAIN rows \subseteq {n \in Endpoint : Name[n] = n}
          /\ rows \in [DOMAIN rows -> ListedState]

VARIABLES
    \* BalancerState
    known,          \* the endpoints in `members`
    member,         \* their Member records (a new one for endpoints not known)
    idle,           \* members of the idle connections, last returned last
    closed,
    maintainer,     \* `maintainer` holds a thread handle
    discoveryOff, refreshDue, rr, affinity,
    \* the background thread
    thread,         \* "none", "running" or "exited"
    due, refreshing,    \* tick's locals: members to probe, refresh afterwards
    \* each caller's locals
    pc,
    link,           \* the PoolLink of the connection it owns
    order,          \* endpoints still to dial
    tries, left, key    \* attempt number, statements to replay, affinity key

health == <<maintainer, thread>>
locals == <<order, tries, left, key>>
vars == <<known, member, idle, closed, maintainer, discoveryOff, refreshDue, rr,
          affinity, thread, due, refreshing, pc, link, order, tries, left, key>>

NewMember(seed) ==
    [seed |-> seed, canonical |-> NoEndpoint, listed |-> "ready", samples |-> 0,
     errors |-> 0, ejected |-> "no", inUse |-> 0, probing |-> FALSE]

NoLink == [member |-> NoEndpoint, out |-> FALSE, broken |-> FALSE]

Init ==
    /\ known = Seeds
    /\ member = [ep \in Endpoint |-> NewMember(ep \in Seeds)]
    /\ idle = <<>>
    /\ closed = FALSE
    /\ maintainer = FALSE
    /\ discoveryOff = FALSE
    /\ refreshDue = TRUE
    /\ rr = Usize - 1
    /\ affinity = [k \in Key |-> NoEntry]
    /\ thread = "none"
    /\ due = {}
    /\ refreshing = FALSE
    /\ pc = [p \in Caller |-> IF p = Maintainer THEN "park" ELSE "none"]
    /\ link = [p \in Caller |-> NoLink]
    /\ order = [p \in Caller |-> <<>>]
    /\ tries = [p \in Caller |-> 0]
    /\ left = [p \in Caller |-> 0]
    /\ key = [p \in Caller |-> SharedKey]

-----------------------------------------------------------------------------
(* Members *)

\* Member::usable
Admitted(m) == m.ejected = "no" /\ m.listed = "ready"

Usable == {ep \in known : Admitted(member[ep])}

Capped(n, cap) == IF n < cap THEN n ELSE cap

\* Mutant of Less: plain subtraction.
LessUnsaturated(n) == n - 1

Less(n) == IF n > 0 THEN n - 1 ELSE 0       \* saturating_sub(1)

\* Mutant of EnsureMaintainer: the handle of the new thread is not kept.
EnsureMaintainerUnkept ==
    \/ (maintainer \/ closed) /\ UNCHANGED health
    \/ ~(maintainer \/ closed) /\ thread' = "running" /\ UNCHANGED maintainer

EnsureMaintainer ==
    \/ (maintainer \/ closed) /\ UNCHANGED health
    \/ ~(maintainer \/ closed) /\ maintainer' = TRUE /\ thread' = "running"
    \/ SpawnMayFail /\ ~(maintainer \/ closed) /\ UNCHANGED health

\* Mutant of Eject: the last usable member is ejected too.
EjectLast(ep, m) ==
    /\ member' = [member EXCEPT ![ep] = [m EXCEPT !.ejected = "waiting"]]
    /\ EnsureMaintainer

\* Mutant of Eject: the member itself counts as another usable one.
EjectCountsItself(ep, m) ==
    IF Usable # {} THEN EjectLast(ep, m)
    ELSE member' = [member EXCEPT ![ep] = m] /\ UNCHANGED health

\* Take ep out of rotation, unless no other member is usable.  m is ep's
\* record as the caller has left it.
Eject(ep, m) ==
    \/ /\ Usable \ {ep} # {}
       /\ member' = [member EXCEPT ![ep] = [m EXCEPT !.ejected = "waiting"]]
       /\ EnsureMaintainer
    \/ /\ Usable \ {ep} = {}
       /\ member' = [member EXCEPT ![ep] = m]
       /\ UNCHANGED health

\* Mutant of Failed: a member already ejected is ejected again.
FailedAgain(ep) ==
    LET m == [member[ep] EXCEPT !.errors = Capped(@ + 1, EjectErrors)]
    IN  IF ep \notin known THEN UNCHANGED <<member, maintainer, thread>>
        ELSE IF m.errors >= EjectErrors THEN Eject(ep, m)
        ELSE member' = [member EXCEPT ![ep] = m] /\ UNCHANGED health

\* A transport failure on a connection to ep, or on a dial of it.
Failed(ep) ==
    LET m == [member[ep] EXCEPT !.errors = Capped(@ + 1, EjectErrors)]
    IN  \/ ep \notin known /\ UNCHANGED <<member, maintainer, thread>>
        \/ /\ ep \in known /\ m.errors >= EjectErrors /\ m.ejected = "no"
           /\ Eject(ep, m)
        \/ /\ ep \in known /\ ~(m.errors >= EjectErrors /\ m.ejected = "no")
           /\ member' = [member EXCEPT ![ep] = m]
           /\ UNCHANGED health

\* A request on a connection to ep was answered.  A member in rotation that
\* is measured, as another is, may prove too slow.
RoundTrip(ep) ==
    LET m == [member[ep] EXCEPT !.errors = 0,
                                !.samples = Capped(@ + 1, MinSamples)]
        measured(o) == o.samples >= MinSamples
    IN  \/ ep \notin known /\ UNCHANGED <<member, maintainer, thread>>
        \/ /\ ep \in known
           /\ member' = [member EXCEPT ![ep] = m]
           /\ UNCHANGED health
        \/ /\ ep \in known /\ LatencyEjection /\ Admitted(m) /\ measured(m)
           /\ \E o \in Usable \ {ep} : measured(member[o])
           /\ Eject(ep, m)

-----------------------------------------------------------------------------
(* Choosing a member *)

\* Mutant of Sticky: every key follows the pool-wide one.
StickyShared(k) ==
    /\ ReadYourWrites /\ affinity[SharedKey].window = "open"
    /\ affinity[SharedKey].member \in Usable

\* Read-your-writes: the key's last write is recent and its member usable.
Sticky(k) ==
    /\ ReadYourWrites /\ affinity[k].window = "open"
    /\ affinity[k].member \in Usable

\* pick: the targets a checkout under key k may go to (NoEndpoint: any), with
\* the round-robin position each leaves behind.
Pick(k) ==
    LET turn == ((rr + 1) % Usize) % Cardinality(Usable)
        nth(n) == {ep \in Usable : Cardinality({o \in Usable : o < ep}) = n}
    IN  IF Sticky(k) THEN {[target |-> affinity[k].member, rr |-> rr]}
        ELSE IF Policy = "random" \/ Usable = {}
        THEN {[target |-> NoEndpoint, rr |-> rr]}
        ELSE IF Policy = "round_robin"
        THEN {[target |-> ep, rr |-> turn] : ep \in nth(turn)}
        ELSE {[target |-> ep, rr |-> rr] : ep \in Usable}

\* pick forgets an entry whose window is over or whose member is gone.
Forget(k) ==
    IF ReadYourWrites /\ ~(affinity[k].window = "open" /\ affinity[k].member \in known)
    THEN [affinity EXCEPT ![k] = NoEntry]
    ELSE affinity

\* take_idle scans the idle connections from one end to the first that
\* reaches the target (or any usable member).
Earlier(i, j) == IF IdleOrder = "fifo" THEN i < j ELSE i > j

Fits(i, target) == idle[i] \in Usable /\ target \in {NoEndpoint, idle[i]}

FoundIdle(target) ==
    {i \in DOMAIN idle : /\ Fits(i, target)
                         /\ \A j \in DOMAIN idle : Earlier(j, i) => ~Fits(j, target)}

\* Connections passed on the way whose member is not usable are closed.
StaleIdle(target) ==
    {j \in DOMAIN idle : /\ idle[j] \notin Usable
                         /\ \A i \in FoundIdle(target) : Earlier(j, i)}

\* The one increasing enumeration of a finite set of numbers, in a set.
Ascending(I) ==
    {f \in [1..Cardinality(I) -> I] :
        \A a, b \in 1..Cardinality(I) : a < b => f[a] < f[b]}

IdleWithout(I) ==
    LET kept == DOMAIN idle \ I
    IN  {[n \in 1..Cardinality(kept) |-> idle[f[n]]] : f \in Ascending(kept)}

\* order: the dial orders for a first endpoint, or for one just lost.
Orders(first, lost) ==
    LET rank(ep) == CASE ep \in Usable -> 1
                      [] ep \notin Usable /\ member[ep].ejected = "no" -> 2
                      [] member[ep].ejected = "due" -> 3
                      [] member[ep].ejected = "waiting" -> 4
        place(ep) == IF ep = first THEN 0 ELSE IF ep = lost THEN 5 ELSE rank(ep)
        before(a, b) == \/ place(a) < place(b)
                        \/ place(a) = place(b) /\ (place(a) = 2 => a < b)
    IN  {s \in [1..Cardinality(known) -> known] :
            \A i, j \in 1..Cardinality(known) :
                i < j => s[i] # s[j] /\ before(s[i], s[j])}

-----------------------------------------------------------------------------
(* Checkout *)

\* What a critical section that only reports on a member leaves alone.
table == <<known, idle, closed, discoveryOff, refreshDue, rr, affinity, due, refreshing>>

Goto(p, step) == pc' = [pc EXCEPT ![p] = step]

\* checkout returns an error; a connection in hand is not `out` and is dropped.
CheckoutFails(p) ==
    /\ Goto(p, IF p = Maintainer THEN "unrefreshed" ELSE "none")
    /\ link' = [link EXCEPT ![p] = NoLink]
    /\ order' = [order EXCEPT ![p] = <<>>]
    /\ tries' = [tries EXCEPT ![p] = 0]
    /\ left' = [left EXCEPT ![p] = 0]
    /\ key' = [key EXCEPT ![p] = SharedKey]

CheckoutClosed(p) ==
    /\ pc[p] \in {"none", "again", "refresh"}
    /\ closed
    /\ CheckoutFails(p)
    /\ UNCHANGED <<table, member, health>>

\* The first critical section of attempt n: pick, take_idle, order.
Attempt(p, k, n) ==
    /\ ~closed
    /\ \E c \in Pick(k) :
        /\ rr' = c.rr
        /\ idle' \in IdleWithout(FoundIdle(c.target) \cup StaleIdle(c.target))
        /\ \/ \E i \in FoundIdle(c.target) :
                /\ link' = [link EXCEPT ![p] = [NoLink EXCEPT !.member = idle[i]]]
                /\ Goto(p, "count")
                /\ UNCHANGED order
           \/ /\ FoundIdle(c.target) = {}
              /\ \E o \in Orders(c.target, NoEndpoint) :
                    order' = [order EXCEPT ![p] = o]
              /\ Goto(p, "dial")
              /\ UNCHANGED link
    /\ affinity' = Forget(k)
    /\ tries' = [tries EXCEPT ![p] = n]
    /\ key' = [key EXCEPT ![p] = k]
    /\ UNCHANGED <<known, member, closed, health, discoveryOff, refreshDue, due,
                   refreshing, left>>

Acquire(t) == pc[t] = "none" /\ \E k \in Key : Attempt(t, k, 1)

\* Mutant of AttemptAgain: the attempts are not counted.
AttemptAgainUncounted(p) == pc[p] = "again" /\ Attempt(p, key[p], tries[p])

AttemptAgain(p) == pc[p] = "again" /\ Attempt(p, key[p], tries[p] + 1)

\* Client::open and reconnect dial one endpoint after another; a transport or
\* protocol failure counts against the member, a refused login does not.
DialFails(p) ==
    /\ pc[p] \in {"dial", "redialing"} /\ order[p] # <<>>
    /\ order' = [order EXCEPT ![p] = Tail(@)]
    /\ \/ Failed(Head(order[p]))
       \/ UNCHANGED <<member, health>>
    /\ UNCHANGED <<table, pc, link, tries, left, key>>

DialExhausted(p) ==
    /\ pc[p] = "dial" /\ order[p] = <<>>
    /\ CheckoutFails(p)
    /\ UNCHANGED <<table, member, health>>

DialAnswers(p) ==
    /\ pc[p] = "dial" /\ order[p] # <<>>
    /\ link' = [link EXCEPT ![p] = [NoLink EXCEPT !.member = Head(order[p])]]
    /\ order' = [order EXCEPT ![p] = <<>>]
    /\ Goto(p, IF Database THEN "bind" ELSE "fresh")
    /\ UNCHANGED <<table, member, health, tries, left, key>>

\* Balancer::dial binds the pool's database: bound, refused, or lost.
Bind(p) ==
    /\ pc[p] = "bind"
    /\ \/ RoundTrip(link[p].member) /\ Goto(p, "fresh") /\ UNCHANGED <<link, locals>>
       \/ RoundTrip(link[p].member) /\ CheckoutFails(p)
       \/ Failed(link[p].member) /\ CheckoutFails(p)
    /\ UNCHANGED table

\* discover_through: list the members through a connection to one that has not
\* named itself.
DiscoverThrough(p) ==
    /\ pc[p] = "fresh"
    /\ LET ep == link[p].member
           unnamed == /\ Discover /\ ~discoveryOff
                      /\ ep \in known /\ member[ep].canonical = NoEndpoint
       IN  \/ unnamed /\ EnsureMaintainer /\ Goto(p, "list")
           \/ ~unnamed /\ UNCHANGED health /\ Goto(p, "count")
    /\ UNCHANGED <<table, member, link, locals>>

\* The second critical section: the connection is counted and handed out.
\* `closed` is not read again.
Count(p) ==
    /\ pc[p] = "count"
    /\ member' = IF link[p].member \in known
                 THEN [member EXCEPT ![link[p].member].inUse = @ + 1]
                 ELSE member
    /\ link' = [link EXCEPT ![p].out = TRUE]
    /\ Goto(p, IF p = Maintainer THEN "list" ELSE "out")
    /\ tries' = [tries EXCEPT ![p] = 0]
    /\ UNCHANGED <<table, health, order, left, key>>

-----------------------------------------------------------------------------
(* Statements on a connection: SHOW ENDPOINTS by discovery ("list"), or the
   user's on a connection handed out ("out"); each fails over once. *)

Listing(p) == p = Maintainer \/ ~link[p].out

\* Where a statement that fails for good leaves its caller.
Lost(p) == IF Listing(p) THEN "unanswered" ELSE "out"

\* The answers to a listing are rows, none or an error, or undecodable; a
\* user's write is remembered for read-your-writes.
StatementAnswered(p) ==
    /\ pc[p] \in {"list", "out", "retry"}
    /\ RoundTrip(link[p].member)
    /\ link' = [link EXCEPT ![p].broken = FALSE]
    /\ \E step \in IF Listing(p) THEN {"rows", "norows", "unanswered"}
                   ELSE {"out"} \cup (IF ReadYourWrites THEN {"wrote"} ELSE {}) :
          Goto(p, step)
    /\ UNCHANGED <<table, locals>>

\* A first attempt re-dials; a retry, and a failure in the middle of a user's
\* result stream, does not.
StatementLost(p) ==
    /\ pc[p] \in {"list", "out", "retry"}
    /\ Failed(link[p].member)
    /\ link' = [link EXCEPT ![p].broken = TRUE]
    /\ \/ pc[p] # "retry" /\ Goto(p, "redial")
       \/ pc[p] # "list" /\ Goto(p, Lost(p))
    /\ UNCHANGED <<table, locals>>

\* Client::reconnect called by the user.
Reconnect(t) ==
    /\ pc[t] = "out"
    /\ Goto(t, "redial")
    /\ UNCHANGED <<table, member, health, link, locals>>

\* dial_order
Redial(p) ==
    /\ pc[p] = "redial"
    /\ \E o \in Orders(NoEndpoint, link[p].member) : order' = [order EXCEPT ![p] = o]
    /\ Goto(p, "redialing")
    /\ UNCHANGED <<table, member, health, link, tries, left, key>>

RedialExhausted(p) ==
    /\ pc[p] = "redialing" /\ order[p] = <<>>
    /\ Goto(p, Lost(p))
    /\ UNCHANGED <<table, member, health, link, locals>>

\* Mutant of Reattributed: the member left behind keeps its count.
ReattributedTwice(p, ep) ==
    IF link[p].out /\ link[p].member # ep /\ ep \in known
    THEN [member EXCEPT ![ep].inUse = @ + 1]
    ELSE member

\* reattribute: a connection that is out moves its count to the member it reached.
Reattributed(p, ep) ==
    LET old == link[p].member
        dec == IF old \in known THEN [member EXCEPT ![old].inUse = Less(@)] ELSE member
    IN  IF ~link[p].out \/ old = ep THEN member
        ELSE IF ep \in known THEN [dec EXCEPT ![ep].inUse = @ + 1]
        ELSE dec

\* After the replay the statement runs again, unless the user only reconnected.
Replayed(p) == IF Listing(p) THEN {"retry"} ELSE {"retry", "out"}

RedialAnswers(p) ==
    /\ pc[p] = "redialing" /\ order[p] # <<>>
    /\ LET ep == Head(order[p])
           bound == IF Database THEN 1 ELSE 0
       IN  /\ link' = [link EXCEPT ![p].member = ep, ![p].broken = FALSE]
           /\ member' = Reattributed(p, ep)
           /\ \E n \in bound..(IF link[p].out THEN MaxReplay ELSE bound) :
                /\ left' = [left EXCEPT ![p] = n]
                /\ \E step \in IF n = 0 THEN Replayed(p) ELSE {"replay"} : Goto(p, step)
    /\ order' = [order EXCEPT ![p] = <<>>]
    /\ UNCHANGED <<table, health, tries, key>>

\* apply_database and apply_scan_budget on the new connection: answered,
\* refused (the statement fails with that error), undecodable, or lost.
Replay(p) ==
    /\ pc[p] = "replay"
    /\ \/ /\ RoundTrip(link[p].member)
          /\ left' = [left EXCEPT ![p] = @ - 1]
          /\ \E step \in IF left[p] = 1 THEN Replayed(p) ELSE {"replay"} : Goto(p, step)
          /\ UNCHANGED link
       \/ /\ RoundTrip(link[p].member)
          /\ left' = [left EXCEPT ![p] = 0]
          /\ \E step \in IF Listing(p) THEN {"norows", "unanswered"} ELSE {"out"} :
                Goto(p, step)
          /\ UNCHANGED link
       \/ /\ Failed(link[p].member)
          /\ left' = [left EXCEPT ![p] = 0]
          /\ Goto(p, Lost(p))
          /\ link' = [link EXCEPT ![p].broken = TRUE]
    /\ UNCHANGED <<table, order, tries, key>>

MapFull == Cardinality({k \in Key : affinity[k] # NoEntry}) >= AffinityCap

\* Mutant of Swept: a full map is emptied.
SweptAll == [k \in Key |-> IF MapFull THEN NoEntry ELSE affinity[k]]

\* Once the map is full, the entries whose window is over are dropped.
Swept == [k \in Key |-> IF MapFull /\ affinity[k].window = "over"
                        THEN NoEntry ELSE affinity[k]]

\* wrote: remember which member took the key's write.
Wrote(t) ==
    /\ pc[t] = "wrote"
    /\ affinity' = [Swept EXCEPT ![key[t]] = [member |-> link[t].member,
                                              window |-> "open"]]
    /\ Goto(t, "out")
    /\ UNCHANGED <<known, member, idle, closed, health, discoveryOff, refreshDue, rr,
                   due, refreshing, link, locals>>

-----------------------------------------------------------------------------
(* Discovery *)

\* Mutant of Configured: a seed that is not listed is dropped like any other.
ConfiguredForgotten(m) == m.seed /\ m.canonical = NoEndpoint

\* A seed stays a member, listed or not.
Configured(m) == m.seed

\* apply_listing.  The server reached at `dialed` marks its own row.
Named(dialed, rows) ==
    [member EXCEPT ![dialed].canonical =
        IF dialed \in known /\ Name[dialed] \in DOMAIN rows THEN Name[dialed] ELSE @]

\* by_name, as a set: the last seed that holds the name n, else its first holder.
ByName(named, n) ==
    LET holders == {ep \in known : named[ep].canonical = n}
        seeds == {ep \in holders : named[ep].seed}
    IN  {ep \in holders : IF seeds # {} THEN ep \in seeds /\ \A o \in seeds : o <= ep
                          ELSE \A o \in holders : ep <= o}

\* The members that are no duplicate of another.
Kept(named) ==
    {ep \in known : \/ named[ep].canonical = NoEndpoint
                    \/ ep \in ByName(named, named[ep].canonical)}

\* The rows about ep: those under its name, or else under its endpoint.
RowsOf(named, rows, ep) ==
    {n \in DOMAIN rows : \/ ep \in ByName(named, n)
                         \/ ByName(named, n) = {} /\ ep = n}

\* A member's record after its row; back in rotation it is measured afresh.
Listed(m, n, state) ==
    LET back == state = "ready" /\ m.listed # "ready"
    IN  [m EXCEPT !.canonical = n, !.listed = state,
                  !.samples = IF back THEN 0 ELSE @, !.errors = IF back THEN 0 ELSE @]

\* A seed no row is about.
Unlisted(m) == IF m.canonical = NoEndpoint THEN m ELSE [m EXCEPT !.listed = "unlisted"]

\* The endpoints and records after a listing.
Applied(dialed, rows) ==
    LET named == Named(dialed, rows)
        old(ep) == IF ep \in Kept(named) THEN named[ep] ELSE NewMember(FALSE)
        seen == {ep \in Endpoint : RowsOf(named, rows, ep) # {}}
        remaining == seen \cup {ep \in Kept(named) : Configured(named[ep])}
        row(ep) == CHOOSE n \in RowsOf(named, rows, ep) : TRUE
    IN  [known |-> remaining,
         member |-> [ep \in Endpoint |->
                       IF ep \in seen THEN Listed(old(ep), row(ep), rows[row(ep)])
                       ELSE IF ep \in remaining THEN Unlisted(named[ep])
                       ELSE NewMember(FALSE)]]

\* list_through, after the statement: fold the rows and schedule the next
\* refresh, give discovery up, or leave it to the next refresh.
FoldListing(p) ==
    \/ /\ pc[p] = "rows"
       /\ \E rows \in Listings :
            /\ known' = Applied(link[p].member, rows).known
            /\ member' = Applied(link[p].member, rows).member
       /\ refreshDue' = FALSE
       /\ UNCHANGED discoveryOff
    \/ /\ pc[p] = "norows"
       /\ discoveryOff' = TRUE
       /\ UNCHANGED <<known, member, refreshDue>>
    \/ /\ pc[p] = "unanswered"
       /\ UNCHANGED <<known, member, refreshDue, discoveryOff>>

\* list_through returns to refresh, which checks the connection in, or to
\* checkout, which starts over when the connection broke meanwhile.
ListThrough(p) ==
    /\ FoldListing(p)
    /\ \/ /\ link[p].out /\ Goto(p, "checkin")
          /\ UNCHANGED <<link, locals>>
       \/ /\ ~link[p].out /\ ~link[p].broken /\ Goto(p, "count")
          /\ UNCHANGED <<link, locals>>
       \/ /\ ~link[p].out /\ link[p].broken /\ tries[p] < Attempts
          /\ Goto(p, "again")
          /\ link' = [link EXCEPT ![p] = NoLink]
          /\ UNCHANGED locals
       \/ /\ ~link[p].out /\ link[p].broken /\ tries[p] = Attempts
          /\ CheckoutFails(p)
    /\ UNCHANGED <<idle, closed, health, rr, affinity, due, refreshing>>

-----------------------------------------------------------------------------
(* Returning a connection, closing the pool *)

\* Mutant of Uncounted: the count is left as it is.
UncountedNever(p) == member

\* A connection that is out and goes away: its member, if known, counts one less.
Uncounted(p) ==
    IF link[p].member \in known
    THEN [member EXCEPT ![link[p].member].inUse = Less(@)]
    ELSE member

Returned(p) ==
    /\ member' = Uncounted(p)
    /\ link' = [link EXCEPT ![p] = NoLink]
    /\ key' = [key EXCEPT ![p] = SharedKey]
    /\ Goto(p, IF p = Maintainer THEN "park" ELSE "none")
    /\ UNCHANGED <<known, closed, health, discoveryOff, refreshDue, rr, affinity, due,
                   refreshing, order, tries, left>>

\* Mutant of Checkin: the link is reset before the connection is kept.
CheckinResetFirst(p) ==
    /\ pc[p] = IF p = Maintainer THEN "checkin" ELSE "out"
    /\ Returned(p)
    /\ idle' = IF ~closed /\ link[p].member \in Usable /\ Len(idle) < MaxSize
               THEN Append(idle, link'[p].member)
               ELSE idle

\* Mutant of Checkin: `closed` is not looked at.
CheckinClosed(p) ==
    /\ pc[p] = IF p = Maintainer THEN "checkin" ELSE "out"
    /\ Returned(p)
    /\ idle' = IF ~link[p].broken /\ link[p].member \in Usable /\ Len(idle) < MaxSize
               THEN Append(idle, link[p].member)
               ELSE idle

Checkin(p) ==
    /\ pc[p] = IF p = Maintainer THEN "checkin" ELSE "out"
    /\ Returned(p)
    /\ idle' = IF /\ ~closed /\ ~link[p].broken /\ link[p].member \in Usable
                  /\ Len(idle) < MaxSize
               THEN Append(idle, link[p].member)
               ELSE idle

\* Drop for PoolLink while out: the user drops the connection, or returns it to
\* another pool, which never keeps it.
Discard(t) ==
    /\ pc[t] = "out"
    /\ Returned(t)
    /\ UNCHANGED idle

Close ==
    /\ closed' = TRUE
    /\ idle' = <<>>
    /\ maintainer' = FALSE
    /\ UNCHANGED <<known, member, discoveryOff, refreshDue, rr, affinity, thread, due,
                   refreshing, pc, link, locals>>

-----------------------------------------------------------------------------
(* The background thread *)

Ticks == thread = "running" /\ pc[Maintainer] = "park"

Tick ==
    /\ Ticks /\ ~closed
    /\ due' = {ep \in known : member[ep].ejected = "due" /\ ~member[ep].probing}
    /\ member' = [ep \in Endpoint |-> IF ep \in due'
                                      THEN [member[ep] EXCEPT !.probing = TRUE]
                                      ELSE member[ep]]
    /\ refreshing' = (Discover /\ ~discoveryOff /\ refreshDue)
    /\ Goto(Maintainer, "probe")
    /\ UNCHANGED <<known, idle, closed, health, discoveryOff, refreshDue, rr, affinity,
                   link, locals>>

TickClosed ==
    /\ Ticks /\ closed
    /\ thread' = "exited"
    /\ UNCHANGED <<table, member, maintainer, pc, link, locals>>

\* tick after its probes.
ProbesDone ==
    /\ pc[Maintainer] = "probe" /\ due = {}
    /\ Goto(Maintainer, IF refreshing THEN "refresh" ELSE "park")
    /\ refreshing' = FALSE
    /\ UNCHANGED <<known, member, idle, closed, health, discoveryOff, refreshDue, rr,
                   affinity, due, link, locals>>

\* The critical section of probe(ep), after its dial and statement; the members
\* due are probed in endpoint order.
Probing(ep) ==
    /\ pc[Maintainer] = "probe" /\ ep \in due /\ \A o \in due : ep <= o
    /\ due' = due \ {ep}
    /\ UNCHANGED <<known, closed, health, discoveryOff, refreshDue, rr, affinity,
                   refreshing, pc, link, locals>>

\* Mutant of ProbeAnswered: the probe connection is kept without room for it.
ProbeAnsweredUnbounded(ep) ==
    /\ Probing(ep) /\ ep \in known /\ ~closed
    /\ member' = [member EXCEPT ![ep] = [@ EXCEPT !.probing = FALSE, !.ejected = "no",
                                                  !.errors = 0, !.samples = 0]]
    /\ idle' = Append(idle, ep)

\* Mutant of ProbeAnswered: `closed` is not looked at after the probe.
ProbeAnsweredClosed(ep) ==
    /\ Probing(ep) /\ ep \in known
    /\ member' = [member EXCEPT ![ep] = [@ EXCEPT !.probing = FALSE, !.ejected = "no",
                                                  !.errors = 0, !.samples = 0]]
    /\ idle' = IF Len(idle) < MaxSize THEN Append(idle, ep) ELSE idle

ProbeAnswered(ep) ==
    /\ Probing(ep) /\ ep \in known /\ ~closed
    /\ member' = [member EXCEPT ![ep] = [@ EXCEPT !.probing = FALSE, !.ejected = "no",
                                                  !.errors = 0, !.samples = 0]]
    /\ idle' = IF Len(idle) < MaxSize THEN Append(idle, ep) ELSE idle

\* Mutant of ProbeFailed: `probing` stays set.
ProbeFailedStuck(ep) ==
    /\ Probing(ep) /\ ep \in known
    /\ member' = [member EXCEPT ![ep].ejected = "waiting"]
    /\ UNCHANGED idle

\* A probe that failed, or that answered a closed pool.
ProbeFailed(ep) ==
    /\ Probing(ep) /\ ep \in known
    /\ member' = [member EXCEPT ![ep] = [@ EXCEPT !.probing = FALSE,
                                                  !.ejected = "waiting"]]
    /\ UNCHANGED idle

\* The member was dropped by discovery meanwhile.
ProbeGone(ep) ==
    /\ Probing(ep) /\ ep \notin known
    /\ UNCHANGED <<member, idle>>

\* refresh: a checkout, list_through, a checkin.
Refresh == pc[Maintainer] = "refresh" /\ Attempt(Maintainer, SharedKey, 1)

RefreshFails ==
    /\ pc[Maintainer] = "unrefreshed"
    /\ refreshDue' = FALSE
    /\ Goto(Maintainer, "park")
    /\ UNCHANGED <<known, member, idle, closed, health, discoveryOff, rr, affinity, due,
                   refreshing, link, locals>>

-----------------------------------------------------------------------------
(* Time *)

BackoffElapses(ep) ==
    /\ ep \in known /\ member[ep].ejected = "waiting"
    /\ member' = [member EXCEPT ![ep].ejected = "due"]
    /\ UNCHANGED <<table, health, pc, link, locals>>

RefreshElapses ==
    /\ Discover /\ ~refreshDue
    /\ refreshDue' = TRUE
    /\ UNCHANGED <<known, member, idle, closed, health, discoveryOff, rr, affinity, due,
                   refreshing, pc, link, locals>>

WindowElapses(k) ==
    /\ affinity[k].window = "open"
    /\ affinity' = [affinity EXCEPT ![k].window = "over"]
    /\ UNCHANGED <<known, member, idle, closed, health, discoveryOff, refreshDue, rr,
                   due, refreshing, pc, link, locals>>

-----------------------------------------------------------------------------
CallStep(p) ==
    \/ CheckoutClosed(p)
    \/ AttemptAgain(p)
    \/ DialFails(p)
    \/ DialExhausted(p)
    \/ DialAnswers(p)
    \/ Bind(p)
    \/ DiscoverThrough(p)
    \/ Count(p)
    \/ StatementAnswered(p)
    \/ StatementLost(p)
    \/ Redial(p)
    \/ RedialExhausted(p)
    \/ RedialAnswers(p)
    \/ Replay(p)
    \/ ListThrough(p)

UserStep(t) ==
    \/ Acquire(t)
    \/ Reconnect(t)
    \/ Wrote(t)
    \/ Checkin(t)
    \/ Discard(t)

MaintainerStep ==
    \/ Tick
    \/ TickClosed
    \/ ProbesDone
    \/ \E ep \in Endpoint : ProbeAnswered(ep) \/ ProbeFailed(ep) \/ ProbeGone(ep)
    \/ Refresh
    \/ RefreshFails
    \/ Checkin(Maintainer)

Time ==
    \/ \E ep \in Endpoint : BackoffElapses(ep)
    \/ RefreshElapses
    \/ \E k \in Key : WindowElapses(k)

Next ==
    \/ \E p \in Caller : CallStep(p)
    \/ \E t \in Task : UserStep(t)
    \/ Close
    \/ MaintainerStep
    \/ Time

Spec == Init /\ [][Next]_vars

\* A step of a call in progress.  A user who is in no call owes nothing.
InCall(p) == pc[p] \notin {"none", "out"} /\ CallStep(p)

-----------------------------------------------------------------------------
(* Properties *)

Step == {"none", "park", "again", "dial", "bind", "fresh", "list", "out", "count",
         "redial", "redialing", "replay", "retry", "rows", "norows", "unanswered",
         "wrote", "checkin", "refresh", "unrefreshed", "probe"}

MemberType ==
    [seed : BOOLEAN, canonical : Endpoint \cup {NoEndpoint},
     listed : ListedState \cup {"unlisted"}, samples : Nat, errors : Nat,
     ejected : {"no", "waiting", "due"}, inUse : Nat, probing : BOOLEAN]

LinkType == [member : Endpoint \cup {NoEndpoint}, out : BOOLEAN, broken : BOOLEAN]

\* Every variable has its type.
TypeOK ==
    /\ known \subseteq Endpoint
    /\ member \in [Endpoint -> MemberType]
    /\ idle \in Seq(Endpoint)
    /\ {closed, maintainer, discoveryOff, refreshDue, refreshing} \subseteq BOOLEAN
    /\ rr \in Nat
    /\ affinity \in [Key -> [member : Endpoint \cup {NoEndpoint},
                             window : {"open", "over"}]]
    /\ thread \in {"none", "running", "exited"}
    /\ due \subseteq Endpoint
    /\ pc \in [Caller -> Step]
    /\ link \in [Caller -> LinkType]
    /\ order \in [Caller -> Seq(Endpoint)]
    /\ tries \in [Caller -> Nat]
    /\ left \in [Caller -> Nat]
    /\ key \in [Caller -> Key]

\* Balancer::close empties the idle set and neither a checkin nor a probe that
\* was under way puts a connection back into a closed pool.
ClosedKeepsNone == closed => idle = <<>>

\* `maxsize` bounds the idle connections, although checkins and probes of
\* several threads add to them.
IdleBounded == Len(idle) <= MaxSize

OutOf(ep) == {p \in Caller : link[p].out /\ link[p].member = ep}

\* A member never counts more connections than are checked out of it, even
\* when discovery drops it and lists it again while connections are out.
InUseBounded == \A ep \in known : member[ep].inUse <= Cardinality(OutOf(ep))

\* PoolMember::in_use, "Connections checked out.": the count is exact through
\* checkout, failover to another member, return and drop.
InUseExact == \A ep \in known : member[ep].inUse = Cardinality(OutOf(ep))

\* "unless it is the last usable member: a slow or flaky member beats none"
\* (doc of Balancer::eject): without discovery the pool never runs out of
\* members to send connections to, whatever fails and however reports, probes
\* and re-admissions interleave.
SomeUsable == Usable # {}

\* A member being probed is one the background thread still has to answer for,
\* so `probing` is never left set and the member never skipped for good.
ProbingIsDue == \A ep \in known : member[ep].probing => ep \in due

\* While the pool is open there is at most one background thread: a new one is
\* only started when none runs.
OneMaintainer == ~maintainer /\ ~closed => thread = "none"

\* What holds of every pool, held together under discovery as well: types, an
\* idle list that stays empty once closed, no member left marked as being probed
\* without a probe, and one maintainer at most.
PoolKept == TypeOK /\ ClosedKeepsNone /\ ProbingIsDue /\ OneMaintainer

\* A member waiting to be probed goes back to waiting only through a failed
\* probe: round trips and failures on connections checked out before it was
\* ejected do not eject it again.
OnlyProbesReEject ==
    [][\A ep \in known :
          member[ep].ejected = "due" /\ member'[ep].ejected = "waiting"
             => ep \in due /\ ep \notin due']_vars

\* Some configured endpoint always remains a member, so a dial always has an
\* endpoint to try ("a dial never has nowhere to go", doc of Balancer::order).
SeedRemains == \E ep \in known : member[ep].seed

\* Read-your-writes: while the window of a key's last write is open and its
\* member usable, a checkout under the key takes an idle connection to that
\* member or dials it first.
ReadsFollowWrites ==
    [][\A t \in Task :
          (pc[t] = "none" /\ pc'[t] \in {"count", "dial"} /\ ReadYourWrites)
             => LET w == affinity[key'[t]]
                IN  w.window = "open" /\ w.member \in Usable
                       => IF pc'[t] = "count" THEN link'[t].member = w.member
                          ELSE Head(order'[t]) = w.member]_vars

\* A remembered write is forgotten only when its window ends, when its member is
\* gone, or for a newer write under the same key: sweeping a full map never
\* costs a caller its own writes.
OpenWindowsKept ==
    [][\A k \in DOMAIN affinity :
          affinity[k].window = "open" /\ affinity[k].member \in known
             => \/ affinity'[k] = affinity[k]
                \/ affinity'[k] = [affinity[k] EXCEPT !.window = "over"]
                \/ \E t \in Task : pc[t] = "wrote" /\ key[t] = k
                                  /\ affinity'[k].member = link[t].member]_vars
=============================================================================
