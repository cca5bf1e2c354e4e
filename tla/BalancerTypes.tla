---------------------------- MODULE BalancerTypes ----------------------------
(***************************************************************************)
(* The balanced pool's types, for every set of endpoints and callers and   *)
(* every option, and what the operations that several actions share change *)
(* of a member: a report, a listing, a count.  Then where a caller can be  *)
(* while its connection counts.                                            *)
(***************************************************************************)
EXTENDS Balancer, FiniteSetTheorems, TLAPS

-----------------------------------------------------------------------------
(* What the reports of connections change *)

MembersOK == known \subseteq Endpoint /\ member \in [Endpoint -> MemberType]

HealthOK == maintainer \in BOOLEAN /\ thread \in {"none", "running", "exited"}

\* A report changes the health of a member and nothing else of it.
SameTies(ep) ==
    /\ member'[ep].inUse = member[ep].inUse
    /\ member'[ep].listed = member[ep].listed
    /\ member'[ep].probing = member[ep].probing
    /\ member'[ep].seed = member[ep].seed

\* A report ejects ep alone, only from rotation, and only beside a usable member.
EjectsOnly(ep) ==
    \A e \in Endpoint :
        \/ member'[e].ejected = member[e].ejected
        \/ e = ep /\ member[e].ejected = "no" /\ Usable \ {ep} # {}

\* Balancer::ensure_maintainer keeps the thread's state well typed.
LEMMA EnsureMaintainerEffect ==
    ASSUME HealthOK, EnsureMaintainer \/ UNCHANGED health
    PROVE  HealthOK'
  BY DEF HealthOK, EnsureMaintainer, health

\* Balancer::eject replaces one record by the given one, ejected only when
\* another member is usable.
LEMMA EjectEffect ==
    ASSUME MembersOK, HealthOK, NEW ep \in known, NEW m \in MemberType, Eject(ep, m)
    PROVE  /\ member' \in [Endpoint -> MemberType]
           /\ HealthOK'
           /\ \A e \in Endpoint \ {ep} : member'[e] = member[e]
           /\ member'[ep].inUse = m.inUse
           /\ member'[ep].listed = m.listed
           /\ member'[ep].probing = m.probing
           /\ member'[ep].seed = m.seed
           /\ member'[ep].ejected = m.ejected \/ Usable \ {ep} # {}
  <1>1. [m EXCEPT !.ejected = "waiting"] \in MemberType
    BY DEF MemberType
  <1>2. ep \in Endpoint
    BY DEF MembersOK
  <1>3. HealthOK'
    BY EnsureMaintainerEffect DEF Eject
  <1>4. member' \in [Endpoint -> MemberType]
    BY <1>1 DEF Eject, MembersOK
  <1>5. CASE member' = [member EXCEPT ![ep] = [m EXCEPT !.ejected = "waiting"]]
             /\ Usable \ {ep} # {}
    BY <1>2, <1>3, <1>4, <1>5 DEF MembersOK, MemberType
  <1>6. CASE member' = [member EXCEPT ![ep] = m]
    BY <1>2, <1>3, <1>4, <1>6 DEF MembersOK, MemberType
  <1> QED BY <1>5, <1>6 DEF Eject

\* Balancer::failed reports a failure of a connection to ep, or of a dial.
LEMMA FailedEffect ==
    ASSUME MembersOK, HealthOK, NEW ep, Failed(ep)
    PROVE  /\ member' \in [Endpoint -> MemberType]
           /\ HealthOK'
           /\ \A e \in Endpoint : SameTies(e)
           /\ EjectsOnly(ep)
  <1> DEFINE m == [member[ep] EXCEPT !.errors = Capped(@ + 1, EjectErrors)]
  <1>1. CASE ep \notin known
    BY <1>1 DEF Failed, HealthOK, MembersOK, SameTies, EjectsOnly
  <1>2. CASE ep \in known
    <2>1. /\ m \in MemberType
          /\ m.inUse = member[ep].inUse /\ m.listed = member[ep].listed
          /\ m.probing = member[ep].probing /\ m.ejected = member[ep].ejected
          /\ m.seed = member[ep].seed
      BY <1>2, BalancerAssumption DEF MembersOK, MemberType, Capped
    <2> HIDE DEF m
    <2>2. CASE m.ejected = "no" /\ Eject(ep, m)
      BY <1>2, <2>1, <2>2, EjectEffect, ZenonT(60) DEF SameTies, EjectsOnly, MembersOK
    <2>3. CASE member' = [member EXCEPT ![ep] = m] /\ UNCHANGED health
      BY <1>2, <2>1, <2>3 DEF SameTies, EjectsOnly, MembersOK, HealthOK, health
    <2> QED BY <1>2, <2>2, <2>3 DEF Failed, m
  <1> QED BY <1>1, <1>2

\* Balancer::round_trip reports an answered request.
LEMMA RoundTripEffect ==
    ASSUME MembersOK, HealthOK, NEW ep, RoundTrip(ep)
    PROVE  /\ member' \in [Endpoint -> MemberType]
           /\ HealthOK'
           /\ \A e \in Endpoint : SameTies(e)
           /\ EjectsOnly(ep)
  <1> DEFINE m == [member[ep] EXCEPT !.errors = 0,
                                     !.samples = Capped(@ + 1, MinSamples)]
  <1>1. CASE ep \notin known
    BY <1>1 DEF RoundTrip, HealthOK, MembersOK, SameTies, EjectsOnly
  <1>2. CASE ep \in known
    <2>1. /\ m \in MemberType
          /\ m.inUse = member[ep].inUse /\ m.listed = member[ep].listed
          /\ m.probing = member[ep].probing /\ m.ejected = member[ep].ejected
          /\ m.seed = member[ep].seed
      <3>1. Capped(member[ep].samples + 1, MinSamples) \in Nat /\ member[ep] \in MemberType
        BY <1>2, BalancerAssumption DEF MembersOK, MemberType, Capped
      <3>2. \A n \in Nat : LET r == [member[ep] EXCEPT !.errors = 0, !.samples = n]
                           IN  /\ r \in MemberType
                               /\ r.inUse = member[ep].inUse /\ r.listed = member[ep].listed
                               /\ r.probing = member[ep].probing
                               /\ r.ejected = member[ep].ejected /\ r.seed = member[ep].seed
        BY <3>1 DEF MemberType
      <3> QED BY <3>1, <3>2
    <2> HIDE DEF m
    <2>2. CASE Admitted(m) /\ Eject(ep, m)
      <3>1. m.ejected = "no"
        BY <2>2 DEF Admitted
      <3> QED BY <1>2, <2>1, <2>2, <3>1, EjectEffect, ZenonT(60) DEF SameTies, EjectsOnly, MembersOK
    <2>3. CASE member' = [member EXCEPT ![ep] = m] /\ UNCHANGED health
      BY <1>2, <2>1, <2>3 DEF SameTies, EjectsOnly, MembersOK, HealthOK, health
    <2> QED BY <1>2, <2>2, <2>3 DEF RoundTrip, m
  <1> QED BY <1>1, <1>2

-----------------------------------------------------------------------------
(* Types *)

AffinityType == [member : Endpoint \cup {NoEndpoint}, window : {"open", "over"}]

PoolOK ==
    /\ idle \in Seq(Endpoint)
    /\ closed \in BOOLEAN /\ discoveryOff \in BOOLEAN
    /\ refreshDue \in BOOLEAN /\ refreshing \in BOOLEAN
    /\ rr \in Nat
    /\ affinity \in [Key -> AffinityType]
    /\ due \subseteq Endpoint

\* A caller in the middle of a replay has a statement left to replay, which
\* keeps the number of statements left a natural number.
CallersOK ==
    /\ pc \in [Caller -> Step]
    /\ link \in [Caller -> LinkType]
    /\ order \in [Caller -> Seq(Endpoint)]
    /\ tries \in [Caller -> Nat]
    /\ left \in [Caller -> Nat]
    /\ key \in [Caller -> Key]
    /\ \A p \in Caller : pc[p] = "replay" => left[p] > 0

Types == MembersOK /\ HealthOK /\ PoolOK /\ CallersOK

\* An element of a sequence over S is in S.
LEMMA ElementType ==
    ASSUME NEW S, NEW s \in Seq(S), NEW i \in DOMAIN s
    PROVE  s[i] \in S
  OBVIOUS

\* A connection taken from the idle set or just dialed.
LEMMA FreshLink ==
    ASSUME NEW ep \in Endpoint
    PROVE  LET l == [NoLink EXCEPT !.member = ep]
           IN  l \in LinkType /\ l.member = ep /\ l.out = FALSE
  <1>1. [NoLink EXCEPT !.member = ep] \in LinkType
    BY DEF NoLink, LinkType
  <1> QED BY <1>1 DEF NoLink

\* The order of a caller with nothing to dial is a sequence of endpoints.
LEMMA EmptyType == <<>> \in Seq(Endpoint)
  OBVIOUS

\* The link of a caller without a connection is a link.
LEMMA NoLinkType == NoLink \in LinkType
  BY DEF NoLink, LinkType

\* Any dial order is a sequence of endpoints.
LEMMA OrdersType ==
    ASSUME MembersOK, NEW a, NEW b, NEW o \in Orders(a, b)
    PROVE  o \in Seq(Endpoint)
  <1>1. Cardinality(known) \in Nat
    BY BalancerAssumption, FS_Subset, FS_CardinalityType DEF MembersOK
  <1>2. o \in [1..Cardinality(known) -> known]
    BY DEF Orders
  <1> QED BY <1>1, <1>2 DEF MembersOK

\* take_idle leaves a sequence of endpoints no longer than before.
LEMMA IdleWithoutType ==
    ASSUME PoolOK, NEW I, NEW rest \in IdleWithout(I)
    PROVE  rest \in Seq(Endpoint) /\ Len(rest) <= Len(idle)
  <1> DEFINE kept == DOMAIN idle \ I
             n == Cardinality(kept)
  <1>1. DOMAIN idle = 1..Len(idle) /\ Len(idle) \in Nat
    BY DEF PoolOK
  <1>2. IsFiniteSet(1..Len(idle)) /\ Cardinality(1..Len(idle)) = Len(idle)
    <2>1. /\ IsFiniteSet(1..Len(idle))
          /\ Cardinality(1..Len(idle)) = IF 1 > Len(idle) THEN 0 ELSE Len(idle) - 1 + 1
      BY <1>1, FS_Interval
    <2> QED BY <1>1, <2>1
  <1>3. n \in Nat /\ n <= Len(idle)
    BY <1>1, <1>2, FS_Subset, FS_CardinalityType
  <1>4. PICK f \in [1..n -> kept] : rest = [i \in 1..n |-> idle[f[i]]]
    BY DEF IdleWithout, Ascending
  <1>5. \A i \in 1..n : idle[f[i]] \in Endpoint
    <2> HIDE DEF n
    <2> QED BY <1>4, ElementType DEF PoolOK
  <1> HIDE DEF n
  <1> QED BY <1>3, <1>4, <1>5

\* pick leaves a natural number as the round-robin position.
LEMMA PickType ==
    ASSUME MembersOK, PoolOK, NEW k, NEW c \in Pick(k)
    PROVE  c.rr \in Nat
  <1> DEFINE turn == ((rr + 1) % Usize) % Cardinality(Usable)
  <1>1. Usable # {} => turn \in Nat
    <2>1. IsFiniteSet(Usable)
      BY BalancerAssumption, FS_Subset DEF MembersOK, Usable
    <2>2. Cardinality(Usable) \in Nat /\ (Usable # {} => Cardinality(Usable) > 0)
      BY <2>1, FS_CardinalityType, FS_EmptySet
    <2>3. (rr + 1) % Usize \in Nat
      BY BalancerAssumption DEF PoolOK
    <2> QED BY <2>2, <2>3
  <1>2. \/ c \in {[target |-> affinity[k].member, rr |-> rr], [target |-> NoEndpoint, rr |-> rr]}
        \/ \E ep \in Usable : c = [target |-> ep, rr |-> turn]
        \/ \E ep \in Usable : c = [target |-> ep, rr |-> rr]
    BY Zenon DEF Pick
  <1> HIDE DEF turn
  <1> QED BY <1>1, <1>2 DEF PoolOK

\* The first critical section of a checkout keeps every type.
LEMMA AttemptTypes ==
    ASSUME Types, NEW p \in Caller, NEW k \in Key, NEW n \in Nat, Attempt(p, k, n)
    PROVE  Types'
  <1> USE DEF Types
  <1>1. MembersOK' /\ HealthOK'
    BY DEF Attempt, MembersOK, HealthOK, health
  <1>2. PICK c \in Pick(k) :
           /\ rr' = c.rr
           /\ idle' \in IdleWithout(FoundIdle(c.target) \cup StaleIdle(c.target))
           /\ \/ \E i \in FoundIdle(c.target) :
                    /\ link' = [link EXCEPT ![p] = [NoLink EXCEPT !.member = idle[i]]]
                    /\ Goto(p, "count")
                    /\ UNCHANGED order
              \/ /\ FoundIdle(c.target) = {}
                 /\ \E o \in Orders(c.target, NoEndpoint) :
                       order' = [order EXCEPT ![p] = o]
                 /\ Goto(p, "dial")
                 /\ UNCHANGED link
    BY DEF Attempt
  <1>3. affinity' \in [Key -> AffinityType]
    BY DEF Attempt, Forget, PoolOK, AffinityType, NoEntry
  <1>4. PoolOK'
    BY <1>2, <1>3, PickType, IdleWithoutType DEF PoolOK, Attempt
  <1>5. CallersOK'
    <2>1. CASE \E i \in FoundIdle(c.target) :
                    /\ link' = [link EXCEPT ![p] = [NoLink EXCEPT !.member = idle[i]]]
                    /\ Goto(p, "count")
                    /\ UNCHANGED order
      <3>1. PICK i \in DOMAIN idle :
                    /\ link' = [link EXCEPT ![p] = [NoLink EXCEPT !.member = idle[i]]]
                    /\ Goto(p, "count")
                    /\ UNCHANGED order
        BY <2>1 DEF FoundIdle
      <3>2. [NoLink EXCEPT !.member = idle[i]] \in LinkType
        BY ElementType, FreshLink DEF PoolOK
      <3> QED BY <3>1, <3>2 DEF CallersOK, Attempt, Goto, Step
    <2>2. CASE /\ \E o \in Orders(c.target, NoEndpoint) :
                     order' = [order EXCEPT ![p] = o]
               /\ Goto(p, "dial")
               /\ UNCHANGED link
      BY <2>2, OrdersType DEF CallersOK, Attempt, Goto, Step
    <2> QED BY <1>2, <2>1, <2>2
  <1> QED BY <1>1, <1>4, <1>5

\* What a listing leaves alone of a member it keeps.
SameStanding(m, o) ==
    m.seed = o.seed /\ m.inUse = o.inUse /\ m.ejected = o.ejected /\ m.probing = o.probing

\* A listing keeps the member records well typed.  A member it keeps keeps its
\* standing, any other starts from nothing, and a seed that is no duplicate stays.
LEMMA AppliedEffect ==
    ASSUME MembersOK, NEW dialed, NEW rows \in Listings
    PROVE  LET a == Applied(dialed, rows)
           IN  /\ a.known \subseteq Endpoint
               /\ a.member \in [Endpoint -> MemberType]
               /\ \A ep \in Endpoint :
                     \/ /\ a.member[ep].inUse = 0 /\ ~a.member[ep].probing
                        /\ a.member[ep].ejected = "no"
                     \/ ep \in known /\ SameStanding(a.member[ep], member[ep])
               /\ \A ep \in Kept(Named(dialed, rows)) :
                     member[ep].seed => ep \in a.known /\ a.member[ep].seed
  <1> DEFINE named == Named(dialed, rows)
             old(ep) == IF ep \in Kept(named) THEN named[ep] ELSE NewMember(FALSE)
             seen == {ep \in Endpoint : RowsOf(named, rows, ep) # {}}
             remaining == seen \cup {ep \in Kept(named) : Configured(named[ep])}
             row(ep) == CHOOSE n \in RowsOf(named, rows, ep) : TRUE
             new(ep) == IF ep \in seen THEN Listed(old(ep), row(ep), rows[row(ep)])
                        ELSE IF ep \in remaining THEN Unlisted(named[ep])
                        ELSE NewMember(FALSE)
             Fresh(m) == m.inUse = 0 /\ ~m.probing /\ m.ejected = "no"
             Ties(m, ep) == \/ ep \notin Kept(named) /\ Fresh(m)
                            \/ ep \in known /\ SameStanding(m, member[ep])
  <1>1. /\ named \in [Endpoint -> MemberType]
        /\ \A ep \in Endpoint : SameStanding(named[ep], member[ep])
    <2> DEFINE c == IF dialed \in known /\ Name[dialed] \in DOMAIN rows
                    THEN Name[dialed] ELSE member[dialed].canonical
    <2>1. CASE dialed \notin Endpoint
      BY <2>1 DEF Named, MembersOK, SameStanding
    <2>2. CASE dialed \in Endpoint
      <3>1. c \in Endpoint \cup {NoEndpoint} /\ member[dialed] \in MemberType
        BY <2>2, BalancerAssumption DEF MembersOK, MemberType
      <3>2. named = [member EXCEPT ![dialed] = [member[dialed] EXCEPT !.canonical = c]]
        BY DEF Named
      <3> HIDE DEF c, named
      <3>3. LET m == [member[dialed] EXCEPT !.canonical = c]
            IN  m \in MemberType /\ SameStanding(m, member[dialed])
        BY <3>1 DEF MemberType, SameStanding
      <3>4. \A ep \in Endpoint : SameStanding(member[ep], member[ep])
        BY DEF SameStanding
      <3> QED BY <2>2, <3>2, <3>3, <3>4 DEF MembersOK
    <2> QED BY <2>1, <2>2
  <1>2. NewMember(FALSE) \in MemberType /\ Fresh(NewMember(FALSE))
    BY DEF NewMember, MemberType, ListedState
  <1>3. Kept(named) \subseteq known /\ known \subseteq Endpoint
    BY DEF Kept, MembersOK
  <1>4. \A ep \in Endpoint : old(ep) \in MemberType /\ Ties(old(ep), ep)
    <2> HIDE DEF named, Fresh
    <2> QED BY <1>1, <1>2, <1>3
  <1>5. \A m \in MemberType, n \in Endpoint, st \in ListedState :
           Listed(m, n, st) \in MemberType /\ SameStanding(Listed(m, n, st), m)
    <2>1. SUFFICES ASSUME NEW m \in MemberType, NEW n \in Endpoint, NEW st \in ListedState
                   PROVE  Listed(m, n, st) \in MemberType /\ SameStanding(Listed(m, n, st), m)
      OBVIOUS
    <2>2. \A a, b \in Nat :
             LET r == [m EXCEPT !.canonical = n, !.listed = st, !.samples = a, !.errors = b]
             IN  r \in MemberType /\ SameStanding(r, m)
      BY DEF MemberType, SameStanding
    <2>3. m.samples \in Nat /\ m.errors \in Nat /\ 0 \in Nat
      BY DEF MemberType
    <2> DEFINE a == IF st = "ready" /\ m.listed # "ready" THEN 0 ELSE m.samples
               b == IF st = "ready" /\ m.listed # "ready" THEN 0 ELSE m.errors
    <2>4. a \in Nat /\ b \in Nat
      BY <2>3
    <2>5. Listed(m, n, st) = [m EXCEPT !.canonical = n, !.listed = st,
                                       !.samples = a, !.errors = b]
      BY DEF Listed
    <2> HIDE DEF a, b
    <2>6. LET r == [m EXCEPT !.canonical = n, !.listed = st, !.samples = a, !.errors = b]
          IN  r \in MemberType /\ SameStanding(r, m)
      BY <2>2, <2>4, Zenon
    <2> QED BY <2>5, <2>6, Zenon
  <1>6. \A m \in MemberType : Unlisted(m) \in MemberType /\ SameStanding(Unlisted(m), m)
    BY DEF Unlisted, MemberType, SameStanding
  <1>7. \A ep \in seen : row(ep) \in Endpoint /\ rows[row(ep)] \in ListedState
    <2>1. \A ep \in seen : row(ep) \in DOMAIN rows
      BY DEF RowsOf
    <2> QED BY <2>1, BalancerAssumption
  <1>8. \A m, o, ep : SameStanding(m, o) /\ Ties(o, ep) => Ties(m, ep)
    <2> HIDE DEF named
    <2> QED BY DEF SameStanding
  <1>9. \A ep \in Endpoint : /\ new(ep) \in MemberType
                             /\ \/ Fresh(new(ep))
                                \/ ep \in known /\ SameStanding(new(ep), member[ep])
                             /\ ep \in Kept(named) /\ ep \in remaining => Ties(new(ep), ep)
    <2> TAKE ep \in Endpoint
    <2> HIDE DEF named, old, row, Fresh
    <2>1. CASE ep \in seen
      <3> DEFINE r == Listed(old(ep), row(ep), rows[row(ep)])
      <3>1. row(ep) \in Endpoint /\ rows[row(ep)] \in ListedState
        BY <2>1, <1>7, Zenon
      <3>2. old(ep) \in MemberType /\ Ties(old(ep), ep)
        BY <1>4, Zenon
      <3>3. r \in MemberType /\ SameStanding(r, old(ep))
        BY <3>1, <3>2, <1>5, Zenon
      <3>4. new(ep) = r
        BY <2>1
      <3>5. Ties(r, ep)
        BY <3>2, <3>3, <1>8, Zenon
      <3> HIDE DEF r, new
      <3> QED BY <3>3, <3>4, <3>5
    <2>2. CASE ep \notin seen /\ ep \in remaining
      <3>1. ep \in known /\ new(ep) = Unlisted(named[ep]) /\ named[ep] \in MemberType
        BY <2>2, <1>1, <1>3
      <3>2. new(ep) \in MemberType /\ SameStanding(new(ep), named[ep])
        BY <3>1, <1>6, Zenon
      <3>3. SameStanding(new(ep), member[ep])
        BY <3>2, <1>1 DEF SameStanding
      <3> HIDE DEF new
      <3> QED BY <3>1, <3>2, <3>3
    <2>3. CASE ep \notin seen /\ ep \notin remaining
      BY <2>3, <1>2
    <2> QED BY <2>1, <2>2, <2>3
  <1>10. remaining \subseteq Endpoint
    BY <1>3
  <1>11. \A ep \in Kept(named) : member[ep].seed => ep \in remaining
    BY <1>1, <1>3 DEF Configured, SameStanding
  <1>12. Applied(dialed, rows) = [known |-> remaining, member |-> [ep \in Endpoint |-> new(ep)]]
    BY DEF Applied
  <1> HIDE DEF remaining, new
  <1>13. \A ep \in Kept(named) : member[ep].seed => ep \in remaining /\ new(ep).seed
    <2> HIDE DEF named
    <2> QED BY <1>3, <1>9, <1>11 DEF SameStanding
  <1> HIDE DEF named
  <1>14. \A ep \in Kept(named) : ep \in Endpoint
    BY <1>3
  <1>15. LET a == Applied(dialed, rows)
         IN  /\ a.known \subseteq Endpoint
             /\ a.member \in [Endpoint -> MemberType]
             /\ \A ep \in Endpoint : \/ Fresh(a.member[ep])
                                     \/ ep \in known /\ SameStanding(a.member[ep], member[ep])
    <2> HIDE DEF Fresh
    <2> QED BY <1>9, <1>10, <1>12
  <1>16. LET a == Applied(dialed, rows)
         IN  \A ep \in Kept(named) : member[ep].seed => ep \in a.known /\ a.member[ep].seed
    BY <1>12, <1>13, <1>14
  <1> QED BY <1>15, <1>16 DEF named

\* Changing a member's count leaves its health alone.
LEMMA CountEffect ==
    ASSUME NEW f \in [Endpoint -> MemberType], NEW ep \in Endpoint, NEW n \in Nat
    PROVE  LET g == [f EXCEPT ![ep].inUse = n]
           IN  /\ g \in [Endpoint -> MemberType]
               /\ \A e \in Endpoint : /\ g[e].inUse = IF e = ep THEN n ELSE f[e].inUse
                                      /\ g[e].listed = f[e].listed
                                      /\ g[e].probing = f[e].probing
                                      /\ g[e].ejected = f[e].ejected
                                      /\ g[e].seed = f[e].seed
  BY DEF MemberType

\* reattribute moves a count from the member lost to the member reached.
LEMMA ReattributedEffect ==
    ASSUME MembersOK, NEW p \in Caller, NEW ep \in Endpoint
    PROVE  LET g == Reattributed(p, ep)
               old == link[p].member
           IN  /\ g \in [Endpoint -> MemberType]
               /\ \A e \in Endpoint :
                     /\ g[e].listed = member[e].listed
                     /\ g[e].probing = member[e].probing
                     /\ g[e].ejected = member[e].ejected
                     /\ g[e].seed = member[e].seed
                     /\ g[e].inUse = IF e \notin known \/ ~link[p].out \/ old = ep
                                     THEN member[e].inUse
                                     ELSE IF e = ep THEN member[e].inUse + 1
                                     ELSE IF e = old THEN Less(member[e].inUse)
                                     ELSE member[e].inUse
  <1> DEFINE old == link[p].member
             dec == IF old \in known THEN [member EXCEPT ![old].inUse = Less(@)] ELSE member
  <1>1. \A e \in Endpoint : member[e].inUse \in Nat /\ Less(member[e].inUse) \in Nat
    BY DEF MembersOK, MemberType, Less
  <1>2. /\ dec \in [Endpoint -> MemberType]
        /\ \A e \in Endpoint :
              /\ dec[e].listed = member[e].listed
              /\ dec[e].probing = member[e].probing
              /\ dec[e].ejected = member[e].ejected
              /\ dec[e].seed = member[e].seed
              /\ dec[e].inUse = IF e = old /\ old \in known THEN Less(member[e].inUse)
                                ELSE member[e].inUse
    BY <1>1, CountEffect DEF MembersOK
  <1> HIDE DEF dec
  <1>3. CASE ~link[p].out \/ old = ep
    BY <1>3 DEF Reattributed, MembersOK
  <1>4. CASE link[p].out /\ old # ep /\ ep \notin known
    <2>1. Reattributed(p, ep) = dec
      BY <1>4 DEF Reattributed, dec
    <2> QED BY <1>2, <1>4, <2>1
  <1>5. CASE link[p].out /\ old # ep /\ ep \in known
    <2>1. Reattributed(p, ep) = [dec EXCEPT ![ep].inUse = dec[ep].inUse + 1]
      BY <1>5 DEF Reattributed, dec
    <2>2. dec[ep].inUse = member[ep].inUse /\ dec[ep].inUse + 1 \in Nat
      BY <1>1, <1>2, <1>5
    <2>3. LET g == [dec EXCEPT ![ep].inUse = dec[ep].inUse + 1]
          IN  /\ g \in [Endpoint -> MemberType]
              /\ \A e \in Endpoint :
                    /\ g[e].inUse = IF e = ep THEN dec[ep].inUse + 1 ELSE dec[e].inUse
                    /\ g[e].listed = dec[e].listed
                    /\ g[e].probing = dec[e].probing
                    /\ g[e].ejected = dec[e].ejected
                    /\ g[e].seed = dec[e].seed
      BY <1>2, <2>2, CountEffect
    <2> QED BY <1>2, <1>5, <2>1, <2>2, <2>3
  <1> QED BY <1>3, <1>4, <1>5

\* The members as g has them are listed, probed and ejected as they were.
SameRoles(g) ==
    \A e \in Endpoint : /\ g[e].listed = member[e].listed
                        /\ g[e].probing = member[e].probing
                        /\ g[e].ejected = member[e].ejected
                        /\ g[e].seed = member[e].seed

\* reattribute moves a count, and nothing else.
LEMMA ReattributedRoles ==
    ASSUME MembersOK, NEW p \in Caller, NEW ep \in Endpoint
    PROVE  SameRoles(Reattributed(p, ep))
  BY ReattributedEffect DEF SameRoles

\* A checkout that fails, and a report, keep the callers well typed.
LEMMA CheckoutFailsTypes ==
    ASSUME CallersOK, NEW p \in Caller, CheckoutFails(p)
    PROVE  CallersOK'
  <1>1. NoLink \in LinkType /\ SharedKey \in Key
    BY BalancerAssumption, NoLinkType
  <1> QED BY <1>1, EmptyType DEF CheckoutFails, CallersOK, Goto, Step

\* A step that leaves the pool's table alone keeps the pool well typed.
LEMMA TableTypes ==
    ASSUME PoolOK, UNCHANGED table
    PROVE  PoolOK' /\ UNCHANGED known
  BY DEF PoolOK, table

\* A caller that only moves on to another step stays well typed.
LEMMA GotoTypes ==
    ASSUME CallersOK, NEW p \in Caller, NEW step \in Step \ {"replay"}, Goto(p, step),
           UNCHANGED <<order, tries, left, key>>,
           link' \in [Caller -> LinkType]
    PROVE  CallersOK'
  BY DEF CallersOK, Goto

\* Marking a connection broken, or sound again, leaves it a link.
LEMMA BrokenType ==
    ASSUME CallersOK, NEW p \in Caller, NEW b \in BOOLEAN,
           link' = [link EXCEPT ![p].broken = b]
    PROVE  link' \in [Caller -> LinkType]
  BY DEF CallersOK, LinkType

\* Every step of a checkout, a statement or a failover keeps every type.
LEMMA CallStepTypes ==
    ASSUME Types, NEW p \in Caller, CallStep(p)
    PROVE  Types'
  <1> USE DEF Types
  <1>1. CASE CheckoutClosed(p)
    BY <1>1, CheckoutFailsTypes, TableTypes DEF CheckoutClosed, MembersOK, HealthOK, health
  <1>2. CASE AttemptAgain(p)
    BY <1>2, AttemptTypes DEF AttemptAgain, CallersOK
  <1>3. CASE DialFails(p)
    <2>1. MembersOK' /\ HealthOK'
      BY <1>3, FailedEffect, TableTypes DEF DialFails, MembersOK, HealthOK, health
    <2>2. CallersOK'
      BY <1>3 DEF DialFails, CallersOK
    <2> QED BY <1>3, <2>1, <2>2, TableTypes DEF DialFails
  <1>4. CASE DialExhausted(p)
    BY <1>4, CheckoutFailsTypes, TableTypes DEF DialExhausted, MembersOK, HealthOK, health
  <1>5. CASE DialAnswers(p)
    <2>1. Head(order[p]) \in Endpoint
      BY <1>5 DEF DialAnswers, CallersOK
    <2>2. [NoLink EXCEPT !.member = Head(order[p])] \in LinkType
      BY <2>1, FreshLink
    <2>3. CallersOK'
      BY <1>5, <2>2 DEF DialAnswers, CallersOK, Goto, Step
    <2> QED BY <1>5, <2>3, TableTypes DEF DialAnswers, MembersOK, HealthOK, health
  <1>6. CASE Bind(p)
    <2>1. MembersOK' /\ HealthOK'
      BY <1>6, FailedEffect, RoundTripEffect, TableTypes DEF Bind, MembersOK
    <2>2. CallersOK'
      <3>1. CASE CheckoutFails(p)
        BY <3>1, CheckoutFailsTypes
      <3>2. CASE Goto(p, "fresh") /\ UNCHANGED <<link, locals>>
        BY <3>2, GotoTypes DEF locals, Step, CallersOK
      <3> QED BY <1>6, <3>1, <3>2 DEF Bind
    <2> QED BY <1>6, <2>1, <2>2, TableTypes DEF Bind
  <1>7. CASE DiscoverThrough(p)
    <2>1. HealthOK'
      BY <1>7, EnsureMaintainerEffect DEF DiscoverThrough
    <2>2. CallersOK'
      <3>1. \E step \in {"list", "count"} : Goto(p, step)
        BY <1>7 DEF DiscoverThrough
      <3> QED BY <1>7, <3>1, GotoTypes DEF DiscoverThrough, locals, Step, CallersOK
    <2> QED BY <1>7, <2>1, <2>2, TableTypes DEF DiscoverThrough, MembersOK
  <1>8. CASE Count(p)
    <2>1. member' \in [Endpoint -> MemberType]
      BY <1>8 DEF Count, MembersOK, MemberType
    <2>2. CallersOK'
      BY <1>8 DEF Count, CallersOK, Goto, Step, LinkType
    <2> QED BY <1>8, <2>1, <2>2, TableTypes DEF Count, MembersOK, HealthOK, health
  <1>9. CASE StatementAnswered(p)
    <2>1. MembersOK' /\ HealthOK'
      BY <1>9, RoundTripEffect, TableTypes DEF StatementAnswered, MembersOK
    <2>2. CallersOK'
      <3>1. \E step \in Step \ {"replay"} : Goto(p, step)
        BY <1>9 DEF StatementAnswered, Step
      <3>2. link' \in [Caller -> LinkType]
        BY <1>9, BrokenType DEF StatementAnswered
      <3> QED BY <1>9, <3>1, <3>2, GotoTypes DEF StatementAnswered, locals
    <2> QED BY <1>9, <2>1, <2>2, TableTypes DEF StatementAnswered
  <1>10. CASE StatementLost(p)
    <2>1. MembersOK' /\ HealthOK'
      BY <1>10, FailedEffect, TableTypes DEF StatementLost, MembersOK
    <2>2. CallersOK'
      <3>1. \E step \in Step \ {"replay"} : Goto(p, step)
        BY <1>10 DEF StatementLost, Step, Lost
      <3>2. link' \in [Caller -> LinkType]
        BY <1>10, BrokenType DEF StatementLost
      <3> QED BY <1>10, <3>1, <3>2, GotoTypes DEF StatementLost, locals
    <2> QED BY <1>10, <2>1, <2>2, TableTypes DEF StatementLost
  <1>11. CASE Redial(p)
    <2>1. CallersOK'
      BY <1>11, OrdersType DEF Redial, CallersOK, Goto, Step
    <2> QED BY <1>11, <2>1, TableTypes DEF Redial, MembersOK, HealthOK, health
  <1>12. CASE RedialExhausted(p)
    <2>1. CallersOK'
      <3>1. \E step \in Step \ {"replay"} : Goto(p, step)
        BY <1>12 DEF RedialExhausted, Step, Lost
      <3> QED BY <1>12, <3>1, GotoTypes DEF RedialExhausted, locals, CallersOK
    <2> QED BY <1>12, <2>1, TableTypes DEF RedialExhausted, MembersOK, HealthOK, health
  <1>13. CASE RedialAnswers(p)
    <2>1. Head(order[p]) \in Endpoint
      BY <1>13 DEF RedialAnswers, CallersOK
    <2>2. member' \in [Endpoint -> MemberType]
      BY <1>13, <2>1, ReattributedEffect DEF RedialAnswers
    <2>3. CallersOK'
      <3>1. link' \in [Caller -> LinkType]
        BY <1>13, <2>1, ZenonT(60) DEF RedialAnswers, CallersOK, LinkType
      <3>2. PICK n \in Nat, step \in Step :
               /\ left' = [left EXCEPT ![p] = n]
               /\ Goto(p, step)
               /\ step = "replay" => n > 0
        <4>1. PICK n \in Nat :
                 /\ left' = [left EXCEPT ![p] = n]
                 /\ \E step \in IF n = 0 THEN Replayed(p) ELSE {"replay"} : Goto(p, step)
          <5> DEFINE bound == IF Database THEN 1 ELSE 0
                     range == bound..(IF link[p].out THEN MaxReplay ELSE bound)
          <5>1. range \subseteq Nat
            BY BalancerAssumption
          <5>2. \E n \in range :
                   /\ left' = [left EXCEPT ![p] = n]
                   /\ \E step \in IF n = 0 THEN Replayed(p) ELSE {"replay"} : Goto(p, step)
            BY <1>13, Zenon DEF RedialAnswers
          <5> HIDE DEF range
          <5> QED BY <5>1, <5>2, Zenon
        <4>2. CASE n = 0
          <5>1. PICK step \in Replayed(p) : Goto(p, step)
            BY <4>1, <4>2
          <5>2. step \in Step /\ step # "replay"
            BY DEF Replayed, Step
          <5> QED BY <4>1, <5>1, <5>2
        <4>3. CASE n # 0
          <5>1. n > 0 /\ Goto(p, "replay") /\ "replay" \in Step
            BY <4>1, <4>3 DEF Step
          <5> QED BY <4>1, <5>1
        <4> QED BY <4>2, <4>3
      <3> QED BY <1>13, <3>1, <3>2 DEF RedialAnswers, CallersOK, Goto
    <2> QED BY <1>13, <2>2, <2>3, TableTypes DEF RedialAnswers, MembersOK, HealthOK, health
  <1>14. CASE Replay(p)
    <2>1. MembersOK' /\ HealthOK'
      BY <1>14, FailedEffect, RoundTripEffect, TableTypes DEF Replay, MembersOK
    <2>2. CallersOK'
      <3>1. link' \in [Caller -> LinkType]
        BY <1>14, BrokenType DEF Replay, CallersOK
      <3>2. PICK n \in Nat, step \in Step :
               /\ left' = [left EXCEPT ![p] = n]
               /\ Goto(p, step)
               /\ step = "replay" => n > 0
        <4>1. left[p] \in Nat /\ left[p] > 0
          BY <1>14 DEF Replay, CallersOK
        <4>2. CASE /\ left' = [left EXCEPT ![p] = @ - 1]
                   /\ \E step \in IF left[p] = 1 THEN Replayed(p) ELSE {"replay"} :
                         Goto(p, step)
          <5>1. CASE left[p] = 1
            <6>1. PICK step \in Replayed(p) : Goto(p, step)
              BY <4>2, <5>1
            <6>2. step \in Step /\ step # "replay"
              BY DEF Replayed, Step
            <6>3. left[p] - 1 \in Nat
              BY <5>1
            <6> QED BY <4>2, <6>1, <6>2, <6>3
          <5>2. CASE left[p] # 1
            <6>1. left[p] - 1 \in Nat /\ left[p] - 1 > 0 /\ Goto(p, "replay") /\ "replay" \in Step
              BY <4>1, <4>2, <5>2 DEF Step
            <6> QED BY <4>2, <6>1
          <5> QED BY <5>1, <5>2
        <4>3. CASE /\ left' = [left EXCEPT ![p] = 0]
                   /\ \E step \in {"norows", "unanswered", "out"} : Goto(p, step)
          BY <4>3 DEF Step
        <4> QED BY <1>14, <4>2, <4>3 DEF Replay, Lost
      <3> QED BY <1>14, <3>1, <3>2 DEF Replay, CallersOK, Goto
    <2> QED BY <1>14, <2>1, <2>2, TableTypes DEF Replay
  <1>15. CASE ListThrough(p)
    <2>1. MembersOK'
      <3>1. FoldListing(p) /\ MembersOK
        BY <1>15 DEF ListThrough
      <3>2. CASE UNCHANGED <<known, member>>
        BY <3>1, <3>2 DEF MembersOK
      <3>3. ASSUME NEW rows \in Listings,
                   known' = Applied(link[p].member, rows).known,
                   member' = Applied(link[p].member, rows).member
            PROVE  MembersOK'
        <4>1. known' \subseteq Endpoint /\ member' \in [Endpoint -> MemberType]
          BY <3>1, <3>3, AppliedEffect
        <4> QED BY <4>1 DEF MembersOK
      <3> QED BY <3>1, <3>2, <3>3 DEF FoldListing
    <2>2. PoolOK' /\ HealthOK'
      BY <1>15 DEF ListThrough, FoldListing, PoolOK, HealthOK, health
    <2>3. CallersOK'
      <3>1. CASE CheckoutFails(p)
        BY <3>1, CheckoutFailsTypes
      <3>2. CASE /\ \E step \in {"checkin", "count", "again"} : Goto(p, step)
                 /\ link' = link \/ link' = [link EXCEPT ![p] = NoLink]
                 /\ UNCHANGED locals
        <4>1. link' \in [Caller -> LinkType]
          BY <3>2, NoLinkType DEF CallersOK
        <4> QED BY <3>2, <4>1, GotoTypes DEF locals, Step
      <3> QED BY <1>15, <3>1, <3>2 DEF ListThrough
    <2> QED BY <2>1, <2>2, <2>3
  <1> QED BY <1>1, <1>2, <1>3, <1>4, <1>5, <1>6, <1>7, <1>8, <1>9, <1>10, <1>11,
             <1>12, <1>13, <1>14, <1>15 DEF CallStep

\* A connection that goes away changes only its member's count.
LEMMA UncountedEffect ==
    ASSUME MembersOK, NEW p \in Caller
    PROVE  LET g == Uncounted(p)
           IN  /\ g \in [Endpoint -> MemberType]
               /\ \A e \in Endpoint :
                     /\ g[e].listed = member[e].listed
                     /\ g[e].probing = member[e].probing
                     /\ g[e].ejected = member[e].ejected
                     /\ g[e].seed = member[e].seed
                     /\ g[e].inUse = IF e \in known /\ e = link[p].member
                                     THEN Less(member[e].inUse) ELSE member[e].inUse
  <1>1. \A e \in Endpoint : Less(member[e].inUse) \in Nat
    BY DEF MembersOK, MemberType, Less
  <1>2. CASE link[p].member \notin known
    BY <1>2 DEF Uncounted, MembersOK
  <1>3. CASE link[p].member \in known
    <2> DEFINE old == link[p].member
    <2>1. Uncounted(p) = [member EXCEPT ![old].inUse = Less(member[old].inUse)]
      BY <1>3 DEF Uncounted
    <2> QED BY <1>1, <1>3, <2>1, CountEffect DEF MembersOK
  <1> QED BY <1>2, <1>3

\* Returning or dropping a connection (checkin, Drop for PoolLink)
\* preserves the types.
LEMMA ReturnedTypes ==
    ASSUME Types, NEW p \in Caller, Returned(p), idle' \in Seq(Endpoint)
    PROVE  Types'
  <1> USE DEF Types
  <1>1. MembersOK' /\ HealthOK'
    BY UncountedEffect DEF Returned, MembersOK, HealthOK, health
  <1>2. PoolOK'
    BY DEF Returned, PoolOK
  <1>3. CallersOK'
    <2>1. SharedKey \in Key
      BY BalancerAssumption
    <2>2. PICK step \in {"park", "none"} : Goto(p, step)
      BY DEF Returned
    <2>3. key' \in [Caller -> Key] /\ link' \in [Caller -> LinkType]
      BY <2>1, NoLinkType DEF Returned, CallersOK
    <2> QED BY <2>2, <2>3 DEF Returned, CallersOK, Goto, Step
  <1> QED BY <1>1, <1>2, <1>3

\* checkin keeps every type: a connection it keeps has an endpoint for a member.
LEMMA CheckinTypes ==
    ASSUME Types, NEW p \in Caller, Checkin(p)
    PROVE  Types'
  <1>1. Usable \subseteq Endpoint
    BY DEF Types, MembersOK, Usable
  <1>2. \/ idle' = idle
        \/ link[p].member \in Endpoint /\ idle' = Append(idle, link[p].member)
    BY <1>1 DEF Checkin
  <1>3. idle' \in Seq(Endpoint)
    BY <1>2 DEF Types, PoolOK
  <1> QED BY <1>3, ReturnedTypes DEF Checkin

\* Every step of a user outside a call keeps every type.
LEMMA UserStepTypes ==
    ASSUME Types, NEW t \in Task, UserStep(t)
    PROVE  Types'
  <1> USE DEF Types
  <1>1. t \in Caller
    BY DEF Caller
  <1>2. CASE Acquire(t)
    BY <1>1, <1>2, AttemptTypes DEF Acquire
  <1>3. CASE Reconnect(t)
    <2>1. CallersOK'
      BY <1>1, <1>3, GotoTypes DEF Reconnect, locals, Step, CallersOK
    <2> QED BY <1>3, <2>1, TableTypes DEF Reconnect, MembersOK, HealthOK, health
  <1>4. CASE Wrote(t)
    <2>1. link[t].member \in Endpoint \cup {NoEndpoint} /\ key[t] \in Key
      BY <1>1 DEF CallersOK, LinkType
    <2>2. Swept \in [Key -> AffinityType]
      BY DEF Swept, PoolOK, AffinityType, NoEntry
    <2>3. affinity' \in [Key -> AffinityType]
      BY <1>4, <2>1, <2>2 DEF Wrote, AffinityType
    <2>4. CallersOK'
      BY <1>1, <1>4, GotoTypes DEF Wrote, locals, Step, CallersOK
    <2> QED BY <1>4, <2>3, <2>4 DEF Wrote, PoolOK, MembersOK, HealthOK, health
  <1>5. CASE Checkin(t)
    BY <1>1, <1>5, CheckinTypes
  <1>6. CASE Discard(t)
    BY <1>1, <1>6, ReturnedTypes DEF Discard, PoolOK
  <1> QED BY <1>2, <1>3, <1>4, <1>5, <1>6 DEF UserStep

\* Every step of the background thread keeps every type.
LEMMA MaintainerStepTypes ==
    ASSUME Types, MaintainerStep
    PROVE  Types'
  <1> USE DEF Types
  <1>1. Maintainer \in Caller
    BY DEF Caller
  <1>2. CASE Tick
    <2>1. due' \subseteq Endpoint
      BY <1>2 DEF Tick, MembersOK
    <2>2. member' \in [Endpoint -> MemberType]
      <3>1. \A m \in MemberType : [m EXCEPT !.probing = TRUE] \in MemberType
        BY DEF MemberType
      <3> QED BY <1>2, <3>1 DEF Tick, MembersOK
    <2>3. CallersOK'
      BY <1>1, <1>2, GotoTypes DEF Tick, locals, Step, CallersOK
    <2>4. refreshing' \in BOOLEAN
      BY <1>2 DEF Tick
    <2> QED BY <1>2, <2>1, <2>2, <2>3, <2>4 DEF Tick, PoolOK, MembersOK, HealthOK, health
  <1>3. CASE TickClosed
    BY <1>3, TableTypes DEF TickClosed, MembersOK, HealthOK, CallersOK, locals
  <1>4. CASE ProbesDone
    <2>1. CallersOK'
      <3>1. \E step \in {"refresh", "park"} : Goto(Maintainer, step)
        BY <1>4 DEF ProbesDone
      <3> QED BY <1>1, <1>4, <3>1, GotoTypes DEF ProbesDone, locals, Step, CallersOK
    <2> QED BY <1>4, <2>1 DEF ProbesDone, PoolOK, MembersOK, HealthOK, health
  <1>5. ASSUME NEW ep \in Endpoint, ProbeAnswered(ep) \/ ProbeFailed(ep) \/ ProbeGone(ep)
        PROVE  Types'
    <2>1. /\ Probing(ep)
          /\ idle' \in {idle, Append(idle, ep)}
      BY <1>5 DEF ProbeAnswered, ProbeFailed, ProbeGone
    <2>2. member' \in [Endpoint -> MemberType]
      <3>1. \A m \in MemberType :
               /\ [m EXCEPT !.probing = FALSE, !.ejected = "no",
                            !.errors = 0, !.samples = 0] \in MemberType
               /\ [m EXCEPT !.probing = FALSE, !.ejected = "waiting"] \in MemberType
        BY DEF MemberType
      <3>2. member[ep] \in MemberType
        BY DEF MembersOK
      <3>3. CASE ProbeAnswered(ep)
        BY <3>1, <3>2, <3>3 DEF ProbeAnswered, MembersOK
      <3>4. CASE ProbeFailed(ep)
        BY <3>1, <3>2, <3>4 DEF ProbeFailed, MembersOK
      <3>5. CASE ProbeGone(ep)
        BY <3>5 DEF ProbeGone, MembersOK
      <3> QED BY <1>5, <3>3, <3>4, <3>5
    <2>3. PoolOK'
      BY <2>1 DEF Probing, PoolOK
    <2> QED BY <2>1, <2>2, <2>3 DEF Probing, MembersOK, HealthOK, CallersOK, health, locals
  <1>6. CASE Refresh
    BY <1>1, <1>6, AttemptTypes, BalancerAssumption DEF Refresh
  <1>7. CASE RefreshFails
    <2>1. CallersOK'
      BY <1>1, <1>7, GotoTypes DEF RefreshFails, locals, Step, CallersOK
    <2> QED BY <1>7, <2>1 DEF RefreshFails, PoolOK, MembersOK, HealthOK, health
  <1>8. CASE Checkin(Maintainer)
    BY <1>1, <1>8, CheckinTypes
  <1> QED BY <1>2, <1>3, <1>4, <1>5, <1>6, <1>7, <1>8 DEF MaintainerStep

\* Closing the pool and the passing of time keep every type.
LEMMA OtherStepTypes ==
    ASSUME Types, Close \/ Time
    PROVE  Types'
  <1> USE DEF Types
  <1>1. CASE Close
    <2>1. PoolOK'
      BY <1>1, EmptyType DEF Close, PoolOK
    <2> QED BY <1>1, <2>1 DEF Close, MembersOK, HealthOK, CallersOK, locals
  <1>2. ASSUME NEW ep \in Endpoint, BackoffElapses(ep)
        PROVE  Types'
    <2>1. member' \in [Endpoint -> MemberType]
      BY <1>2 DEF BackoffElapses, MembersOK, MemberType
    <2> QED BY <1>2, <2>1, TableTypes
            DEF BackoffElapses, MembersOK, HealthOK, CallersOK, health, locals
  <1>3. CASE RefreshElapses
    BY <1>3 DEF RefreshElapses, PoolOK, MembersOK, HealthOK, CallersOK, health, locals
  <1>4. ASSUME NEW k \in Key, WindowElapses(k)
        PROVE  Types'
    <2>1. affinity' \in [Key -> AffinityType]
      BY <1>4 DEF WindowElapses, PoolOK, AffinityType
    <2> QED BY <1>4, <2>1
            DEF WindowElapses, PoolOK, MembersOK, HealthOK, CallersOK, health, locals
  <1> QED BY <1>1, <1>2, <1>3, <1>4 DEF Time

\* A pool as PoolBuilder::build makes it is well typed.
LEMMA InitTypes == Init => Types
  <1> SUFFICES ASSUME Init PROVE Types
    OBVIOUS
  <1>1. \A b \in BOOLEAN : NewMember(b) \in MemberType
    BY DEF NewMember, MemberType, ListedState
  <1>2. MembersOK
    <2>1. \A ep \in Endpoint : (ep \in Seeds) \in BOOLEAN
      OBVIOUS
    <2>2. \A ep \in Endpoint : NewMember(ep \in Seeds) \in MemberType
      BY <1>1, <2>1, Zenon
    <2> QED BY <2>2, BalancerAssumption DEF Init, MembersOK
  <1>3. rr \in Nat
    BY BalancerAssumption DEF Init
  <1>4. affinity \in [Key -> AffinityType]
    BY DEF Init, AffinityType, NoEntry
  <1>5. PoolOK
    BY <1>3, <1>4, EmptyType DEF Init, PoolOK
  <1>6. CallersOK
    BY NoLinkType, EmptyType, BalancerAssumption DEF Init, CallersOK, Step
  <1> QED BY <1>2, <1>5, <1>6 DEF Init, Types, HealthOK

\* Every step preserves the types.
LEMMA StepTypes == Types /\ [Next]_vars => Types'
  <1> SUFFICES ASSUME Types, [Next]_vars PROVE Types'
    OBVIOUS
  <1>1. CASE UNCHANGED vars
    BY <1>1 DEF vars, Types, MembersOK, HealthOK, PoolOK, CallersOK
  <1> QED BY <1>1, CallStepTypes, UserStepTypes, MaintainerStepTypes, OtherStepTypes DEF Next

\* The conjuncts of Types are those of the type invariant.
LEMMA TypesOK == Types => TypeOK
  BY DEF Types, MembersOK, HealthOK, PoolOK, CallersOK, TypeOK, AffinityType

\* Every variable of the pool has its type, whatever the endpoints, callers,
\* listings and options are.
THEOREM TypeCorrect == Spec => []TypeOK
  <1>1. Spec => []Types
    BY InitTypes, StepTypes, PTL DEF Spec
  <1> QED BY <1>1, TypesOK, PTL

-----------------------------------------------------------------------------
(* Where a caller can be while its connection counts *)

FailoverStep == {"redial", "redialing", "replay", "retry"}
ListStep == {"list", "rows", "norows", "unanswered"}

\* PoolLink::out is set exactly from the second critical section of a checkout
\* to the return; a statement of discovery runs with it set or not.
OutOK ==
    \A p \in Caller :
        /\ link[p].out => pc[p] \in FailoverStep \cup ListStep \cup {"out", "wrote", "checkin"}
        /\ pc[p] \in {"out", "wrote", "checkin"} => link[p].out

\* Without discovery nothing is ever listed, and only connections that are out
\* fail over.
Undiscovered ==
    ~Discover =>
        /\ refreshing = FALSE
        /\ pc[Maintainer] \in {"park", "probe"}
        /\ \A p \in Caller : /\ pc[p] \notin ListStep
                             /\ pc[p] \in FailoverStep => link[p].out

Control == OutOK /\ Undiscovered

\* No caller of a new pool holds a connection.
LEMMA ControlInit == Init => Control
  BY DEF Init, Control, OutOK, Undiscovered, Caller, NoLink, FailoverStep, ListStep

\* A step of p from one place to another, with its link.
LEMMA ControlMove ==
    ASSUME Types, Control, NEW p \in Caller, NEW step, Goto(p, step),
           NEW l, link' = [link EXCEPT ![p] = l],
           UNCHANGED refreshing,
           l.out => step \in FailoverStep \cup ListStep \cup {"out", "wrote", "checkin"},
           step \in {"out", "wrote", "checkin"} => l.out,
           ~Discover => /\ p # Maintainer
                        /\ step \notin ListStep
                        /\ step \in FailoverStep => l.out
    PROVE  Control'
  <1> USE DEF Types, CallersOK
  <1>1. OutOK'
    BY DEF Control, OutOK, Goto
  <1>2. Undiscovered'
    BY DEF Control, Undiscovered, Goto, Caller
  <1> QED BY <1>1, <1>2 DEF Control

\* The same, for a step that leaves the link as it is or changes only `broken`
\* and `member`.
LEMMA ControlGoto ==
    ASSUME Types, Control, NEW p \in Caller, NEW step, Goto(p, step),
           link' \in [Caller -> LinkType],
           \A q \in Caller : link'[q].out = link[q].out,
           UNCHANGED refreshing,
           link[p].out => step \in FailoverStep \cup ListStep \cup {"out", "wrote", "checkin"},
           step \in {"out", "wrote", "checkin"} => link[p].out,
           ~Discover => /\ p # Maintainer
                        /\ step \notin ListStep
                        /\ step \in FailoverStep => link[p].out
    PROVE  Control'
  <1> USE DEF Types, CallersOK
  <1>1. OutOK'
    BY DEF Control, OutOK, Goto
  <1>2. Undiscovered'
    BY DEF Control, Undiscovered, Goto, Caller
  <1> QED BY <1>1, <1>2 DEF Control

\* The broken flag of a link says nothing about where it is counted.
LEMMA BrokenKeepsOut ==
    ASSUME Types, NEW p \in Caller, NEW b \in BOOLEAN,
           link' = [link EXCEPT ![p].broken = b]
    PROVE  /\ link' \in [Caller -> LinkType]
           /\ \A q \in Caller : link'[q].out = link[q].out
                             /\ link'[q].member = link[q].member
  BY DEF Types, CallersOK, LinkType

\* Without discovery the background thread makes no call.
LEMMA NoCalls ==
    ASSUME Types, Control, ~Discover, NEW p \in Caller, CallStep(p)
    PROVE  p # Maintainer
  BY Zenon DEF Control, Undiscovered, CallStep, CheckoutClosed, AttemptAgain, DialFails,
         DialExhausted, DialAnswers, Bind, DiscoverThrough, Count, StatementAnswered,
         StatementLost, Redial, RedialExhausted, RedialAnswers, Replay, ListThrough,
         FoldListing

\* A checkout that gives up holds no connection afterwards.
LEMMA CheckoutFailsControl ==
    ASSUME Types, Control, NEW p \in Caller, CheckoutFails(p), UNCHANGED refreshing,
           ~Discover => p # Maintainer
    PROVE  Control'
  <1>1. \E step \in {"unrefreshed", "none"} : Goto(p, step)
    BY DEF CheckoutFails
  <1>2. link' = [link EXCEPT ![p] = NoLink] /\ NoLink.out = FALSE
    BY DEF CheckoutFails, NoLink
  <1> QED BY <1>1, <1>2, ControlMove DEF FailoverStep, ListStep

\* checkout's first lock starts from a caller that holds no counted
\* connection.
LEMMA AttemptControl ==
    ASSUME Types, Control, NEW p \in Caller, NEW k, NEW n, Attempt(p, k, n),
           pc[p] \in {"none", "again", "refresh"}, ~Discover => p # Maintainer
    PROVE  Control'
  <1>1. ~link[p].out
    BY DEF Control, OutOK, FailoverStep, ListStep
  <1>2. UNCHANGED refreshing
    BY DEF Attempt
  <1>3. CASE \E ep \in Endpoint : /\ link' = [link EXCEPT ![p] = [NoLink EXCEPT !.member = ep]]
                                  /\ Goto(p, "count")
    <2>1. PICK ep \in Endpoint : /\ link' = [link EXCEPT ![p] = [NoLink EXCEPT !.member = ep]]
                                 /\ Goto(p, "count")
      BY <1>3
    <2> DEFINE l == [NoLink EXCEPT !.member = ep]
    <2>2. link' = [link EXCEPT ![p] = l] /\ l.out = FALSE
      BY <2>1, FreshLink
    <2> HIDE DEF l
    <2>3. \E step \in {"count"} : Goto(p, step)
      BY <2>1
    <2> QED BY <1>2, <2>2, <2>3, ControlMove DEF FailoverStep, ListStep
  <1>4. CASE Goto(p, "dial") /\ UNCHANGED link
    BY <1>1, <1>2, <1>4, ControlGoto DEF FailoverStep, ListStep, Types, CallersOK
  <1> QED BY <1>3, <1>4, ElementType DEF Attempt, FoundIdle, Types, PoolOK

\* Every step inside a call moves between steps that agree on whether the
\* connection is counted.
LEMMA CallStepControl ==
    ASSUME Types, Control, NEW p \in Caller, CallStep(p)
    PROVE  Control'
  <1>1. ~Discover => p # Maintainer
    BY NoCalls
  <1>2. link \in [Caller -> LinkType] /\ pc \in [Caller -> Step]
    BY DEF Types, CallersOK
  <1> USE DEF FailoverStep, ListStep
  <1>3. CASE CheckoutClosed(p)
    BY <1>1, <1>3, CheckoutFailsControl DEF CheckoutClosed, table
  <1>4. CASE AttemptAgain(p)
    BY <1>1, <1>4, AttemptControl DEF AttemptAgain
  <1>5. CASE DialFails(p)
    BY <1>5 DEF DialFails, table, Control, OutOK, Undiscovered
  <1>6. CASE DialExhausted(p)
    BY <1>1, <1>6, CheckoutFailsControl DEF DialExhausted, table
  <1>7. CASE DialAnswers(p)
    <2>1. Head(order[p]) \in Endpoint
      BY <1>7 DEF DialAnswers, Types, CallersOK
    <2> DEFINE l == [NoLink EXCEPT !.member = Head(order[p])]
    <2>2. link' = [link EXCEPT ![p] = l] /\ l.out = FALSE
      BY <1>7, <2>1, FreshLink DEF DialAnswers
    <2> HIDE DEF l
    <2>3. \E step \in {"bind", "fresh"} : Goto(p, step)
      BY <1>7 DEF DialAnswers
    <2> QED BY <1>1, <1>7, <2>2, <2>3, ControlMove DEF DialAnswers, table
  <1>8. CASE Bind(p)
    <2>1. ~link[p].out
      BY <1>8 DEF Bind, Control, OutOK
    <2>2. CASE CheckoutFails(p)
      BY <1>1, <1>8, <2>2, CheckoutFailsControl DEF Bind, table
    <2>3. CASE Goto(p, "fresh") /\ UNCHANGED link
      BY <1>1, <1>2, <1>8, <2>1, <2>3, ControlGoto DEF Bind, table
    <2> QED BY <1>8, <2>2, <2>3 DEF Bind
  <1>9. CASE DiscoverThrough(p)
    <2>1. ~link[p].out
      BY <1>9 DEF DiscoverThrough, Control, OutOK
    <2>2. \E step \in {"list", "count"} : Goto(p, step) /\ (step = "list" => Discover)
      BY <1>9 DEF DiscoverThrough
    <2> QED BY <1>1, <1>2, <1>9, <2>1, <2>2, ControlGoto DEF DiscoverThrough, table
  <1>10. CASE Count(p)
    <2> DEFINE l == [link[p] EXCEPT !.out = TRUE]
    <2>1. link' = [link EXCEPT ![p] = l] /\ l.out = TRUE
      BY <1>2, <1>10 DEF Count, LinkType
    <2> HIDE DEF l
    <2>2. \E step \in {"list", "out"} : Goto(p, step) /\ (step = "list" => p = Maintainer)
      BY <1>10 DEF Count
    <2> QED BY <1>1, <1>10, <2>1, <2>2, ControlMove DEF Count, table
  <1>11. CASE StatementAnswered(p)
    <2>1. PICK step \in IF Listing(p) THEN {"rows", "norows", "unanswered"}
                        ELSE {"out"} \cup (IF ReadYourWrites THEN {"wrote"} ELSE {}) :
             Goto(p, step)
      BY <1>11 DEF StatementAnswered
    <2>2. step \in {"rows", "norows", "unanswered"} \/ step \in {"out", "wrote"}
      BY <2>1
    <2>3. ~Listing(p) => link[p].out
      BY <1>2 DEF Listing, LinkType
    <2>4. step \in {"out", "wrote"} => ~Listing(p)
      BY <2>1
    <2>5. ~Discover => link[p].out /\ ~Listing(p)
      BY <1>1, <1>11 DEF StatementAnswered, Control, OutOK, Undiscovered, Listing
    <2>6. ~Listing(p) => step \in {"out", "wrote"}
      BY <2>1
    <2> QED BY <1>1, <1>11, <2>1, <2>2, <2>3, <2>4, <2>5, <2>6, BrokenKeepsOut, ControlGoto
            DEF StatementAnswered, table
  <1>12. CASE StatementLost(p)
    <2>1. PICK step \in {"redial", "unanswered", "out"} :
             Goto(p, step) /\ step \in {"redial", Lost(p)}
      BY <1>12 DEF StatementLost, Lost
    <2>2. step = "out" => ~Listing(p)
      BY <2>1 DEF Lost
    <2>3. ~Listing(p) => link[p].out
      BY <1>2 DEF Listing, LinkType
    <2>4. ~Discover => link[p].out /\ ~Listing(p)
      BY <1>1, <1>12 DEF StatementLost, Control, OutOK, Undiscovered, Listing
    <2>5. ~Listing(p) => step # "unanswered"
      BY <2>1 DEF Lost
    <2> QED BY <1>1, <1>12, <2>1, <2>2, <2>3, <2>4, <2>5, BrokenKeepsOut, ControlGoto
            DEF StatementLost, table
  <1>13. CASE Redial(p)
    <2>1. ~Discover => link[p].out
      BY <1>13 DEF Redial, Control, Undiscovered
    <2> QED BY <1>1, <1>2, <1>13, <2>1, ControlGoto DEF Redial, table
  <1>14. CASE RedialExhausted(p)
    <2>1. ~Discover => link[p].out /\ ~Listing(p)
      BY <1>1, <1>14 DEF RedialExhausted, Control, Undiscovered, Listing
    <2>2. ~Listing(p) => link[p].out
      BY <1>2 DEF Listing, LinkType
    <2> QED BY <1>1, <1>2, <1>14, <2>1, <2>2, ControlGoto DEF RedialExhausted, table, Lost
  <1>15. CASE RedialAnswers(p)
    <2>1. ~Discover => link[p].out /\ ~Listing(p)
      BY <1>1, <1>15 DEF RedialAnswers, Control, Undiscovered, Listing
    <2>2. ~Listing(p) => link[p].out
      BY <1>2 DEF Listing, LinkType
    <2>3. Head(order[p]) \in Endpoint
      BY <1>15 DEF RedialAnswers, Types, CallersOK
    <2>4. link' \in [Caller -> LinkType] /\ \A q \in Caller : link'[q].out = link[q].out
      BY <1>2, <1>15, <2>3 DEF RedialAnswers, LinkType
    <2>5. PICK step \in {"replay", "retry", "out"} : Goto(p, step) /\ (step = "out" => ~Listing(p))
      BY <1>15, Zenon DEF RedialAnswers, Replayed
    <2> QED BY <1>1, <1>15, <2>1, <2>2, <2>4, <2>5, ControlGoto DEF RedialAnswers, table
  <1>16. CASE Replay(p)
    <2>1. ~Discover => link[p].out /\ ~Listing(p)
      BY <1>1, <1>16 DEF Replay, Control, Undiscovered, Listing
    <2>2. ~Listing(p) => link[p].out
      BY <1>2 DEF Listing, LinkType
    <2>3. link' \in [Caller -> LinkType] /\ \A q \in Caller : link'[q].out = link[q].out
      BY <1>2, <1>16, BrokenKeepsOut DEF Replay
    <2>4. PICK step \in {"replay", "retry", "norows", "unanswered", "out"} :
             /\ Goto(p, step)
             /\ step = "out" => ~Listing(p)
             /\ step \in {"norows", "unanswered"} => Listing(p)
      BY <1>16, Zenon DEF Replay, Replayed, Lost
    <2> QED BY <1>1, <1>16, <2>1, <2>2, <2>3, <2>4, ControlGoto DEF Replay, table
  <1>17. CASE ListThrough(p)
    <2>1. Discover
      BY <1>17, BalancerAssumption DEF ListThrough, FoldListing, Control, Undiscovered
    <2>2. UNCHANGED refreshing
      BY <1>17 DEF ListThrough
    <2>3. CASE link[p].out /\ Goto(p, "checkin") /\ UNCHANGED link
      BY <1>2, <2>1, <2>2, <2>3, ControlGoto
    <2>4. CASE ~link[p].out /\ Goto(p, "count") /\ UNCHANGED link
      BY <1>2, <2>1, <2>2, <2>4, ControlGoto
    <2>5. CASE Goto(p, "again") /\ link' = [link EXCEPT ![p] = NoLink]
      <3>1. NoLink.out = FALSE
        BY DEF NoLink
      <3>2. \E step \in {"again"} : Goto(p, step)
        BY <2>5
      <3> QED BY <2>1, <2>2, <2>5, <3>1, <3>2, ControlMove
    <2>6. CASE CheckoutFails(p)
      BY <1>1, <2>2, <2>6, CheckoutFailsControl
    <2> QED BY <1>17, <2>3, <2>4, <2>5, <2>6 DEF ListThrough
  <1> QED BY <1>3, <1>4, <1>5, <1>6, <1>7, <1>8, <1>9, <1>10, <1>11, <1>12, <1>13,
             <1>14, <1>15, <1>16, <1>17 DEF CallStep

\* After a return the caller holds no connection.
LEMMA ReturnedControl ==
    ASSUME Types, Control, NEW p \in Caller, Returned(p), ~Discover => p # Maintainer
    PROVE  Control'
  <1>1. \E step \in {"park", "none"} : Goto(p, step)
    BY DEF Returned
  <1>2. link' = [link EXCEPT ![p] = NoLink] /\ NoLink.out = FALSE /\ UNCHANGED refreshing
    BY DEF Returned, NoLink
  <1> QED BY <1>1, <1>2, ControlMove DEF FailoverStep, ListStep

\* Steps that move only the background thread, inside its loop.
LEMMA LoopControl ==
    ASSUME Types, Control, NEW step \in {"park", "probe", "refresh"}, Goto(Maintainer, step),
           UNCHANGED link, ~link[Maintainer].out,
           ~Discover => step # "refresh" /\ refreshing' = FALSE
    PROVE  Control'
  <1>1. Maintainer \in Caller /\ pc \in [Caller -> Step]
    BY DEF Types, CallersOK, Caller
  <1>2. OutOK'
    BY <1>1 DEF Control, OutOK, Goto
  <1>3. Undiscovered'
    BY <1>1 DEF Control, Undiscovered, Goto, ListStep, FailoverStep
  <1> QED BY <1>2, <1>3 DEF Control

\* Every step preserves Control.
LEMMA ControlStep ==
    ASSUME Types, Control, [Next]_vars
    PROVE  Control'
  <1>1. CASE UNCHANGED <<pc, link, refreshing>>
    BY <1>1 DEF Control, OutOK, Undiscovered
  <1>2. ASSUME NEW t \in Task, UserStep(t)
        PROVE  Control'
    <2>1. t \in Caller /\ t # Maintainer
      BY BalancerAssumption DEF Caller
    <2>2. CASE Acquire(t)
      BY <2>1, <2>2, AttemptControl DEF Acquire
    <2>3. CASE Reconnect(t) \/ Wrote(t)
      <3>1. link[t].out
        BY <2>1, <2>3 DEF Reconnect, Wrote, Control, OutOK
      <3>2. \E step \in {"redial", "out"} : Goto(t, step)
        BY <2>3 DEF Reconnect, Wrote
      <3>3. UNCHANGED <<link, refreshing>>
        BY <2>3 DEF Reconnect, Wrote, table
      <3> QED BY <2>1, <3>1, <3>2, <3>3, ControlGoto
              DEF Types, CallersOK, FailoverStep, ListStep
    <2>4. CASE Checkin(t) \/ Discard(t)
      BY <2>1, <2>4, ReturnedControl DEF Checkin, Discard
    <2> QED BY <1>2, <2>2, <2>3, <2>4 DEF UserStep
  <1>3. CASE Close \/ Time
    BY <1>1, <1>3 DEF Close, Time, BackoffElapses, RefreshElapses, WindowElapses, table
  <1>4. CASE MaintainerStep
    <2>1. Maintainer \in Caller
      BY DEF Caller
    <2>2. pc[Maintainer] \in {"park", "probe", "refresh", "unrefreshed"}
             => ~link[Maintainer].out
      BY <2>1 DEF Control, OutOK, FailoverStep, ListStep
    <2>3. CASE Tick
      <3>1. ~Discover => refreshing' = FALSE
        BY <2>3 DEF Tick
      <3> QED BY <2>2, <2>3, <3>1, LoopControl DEF Tick, Ticks
    <2>4. CASE TickClosed
      BY <1>1, <2>4 DEF TickClosed, table
    <2>5. CASE ProbesDone
      <3>1. PICK step \in {"refresh", "park"} :
               Goto(Maintainer, step) /\ (step = "refresh" => refreshing = TRUE)
        BY <2>5 DEF ProbesDone, Types, PoolOK
      <3> QED BY <2>2, <2>5, <3>1, LoopControl DEF ProbesDone, Control, Undiscovered
    <2>6. CASE \E ep \in Endpoint : Probing(ep)
      BY <1>1, <2>6 DEF Probing
    <2>7. CASE Refresh
      BY <2>1, <2>7, AttemptControl DEF Refresh, Control, Undiscovered
    <2>8. CASE RefreshFails
      BY <2>2, <2>8, LoopControl DEF RefreshFails, Control, Undiscovered
    <2>9. CASE Checkin(Maintainer)
      BY <2>1, <2>9, ReturnedControl DEF Checkin, Control, Undiscovered
    <2> QED BY <1>4, <2>3, <2>4, <2>5, <2>6, <2>7, <2>8, <2>9
            DEF MaintainerStep, ProbeAnswered, ProbeFailed, ProbeGone
  <1>5. CASE UNCHANGED vars
    BY <1>1, <1>5 DEF vars
  <1> QED BY <1>2, <1>3, <1>4, <1>5, CallStepControl DEF Next
=============================================================================
