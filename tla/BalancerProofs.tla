--------------------------- MODULE BalancerProofs ---------------------------
(***************************************************************************)
(* Safety of the balanced pool, for every set of endpoints and callers and *)
(* every option: the idle set, the in_use counts, the last usable member,  *)
(* the background thread and its probes, the seeds, read-your-writes.      *)
(***************************************************************************)
EXTENDS BalancerTypes

-----------------------------------------------------------------------------
(* The idle set *)

\* The first critical section of a checkout only takes connections.
LEMMA AttemptIdle ==
    ASSUME Types, NEW p, NEW k, NEW n, Attempt(p, k, n)
    PROVE  ~closed /\ UNCHANGED closed /\ Len(idle') <= Len(idle)
  BY IdleWithoutType DEF Attempt, Types

\* No other step of a call touches the idle set or closes the pool.
LEMMA CallStepIdle ==
    ASSUME Types, NEW p, CallStep(p)
    PROVE  AttemptAgain(p) \/ UNCHANGED <<idle, closed>>
  BY Zenon DEF CallStep, CheckoutClosed, DialFails, DialExhausted, DialAnswers, Bind, DiscoverThrough,
         Count, StatementAnswered, StatementLost, Redial, RedialExhausted,
         RedialAnswers, Replay, ListThrough, table

\* A return keeps a connection only in an open pool with room for it.
LEMMA CheckinIdle ==
    ASSUME Types, NEW p, Checkin(p), IdleBounded, ClosedKeepsNone
    PROVE  IdleBounded' /\ ClosedKeepsNone'
  BY BalancerAssumption DEF Checkin, Returned, IdleBounded, ClosedKeepsNone, Types, PoolOK

\* A new pool is open and keeps no connection.
LEMMA IdleInit == Init => IdleBounded /\ ClosedKeepsNone
  BY BalancerAssumption DEF Init, IdleBounded, ClosedKeepsNone

\* Only checkin and a successful probe add to the idle list, each within
\* the bound and only while the pool is open; close empties it.
LEMMA IdleStep ==
    ASSUME Types, IdleBounded, ClosedKeepsNone, [Next]_vars
    PROVE  IdleBounded' /\ ClosedKeepsNone'
  <1>1. CASE UNCHANGED <<idle, closed>>
    BY <1>1 DEF IdleBounded, ClosedKeepsNone
  <1>2. CASE ~closed /\ UNCHANGED closed /\ Len(idle') <= Len(idle)
    <2>1. Types'
      BY StepTypes
    <2> QED BY <1>2, <2>1, BalancerAssumption
            DEF IdleBounded, ClosedKeepsNone, Types, PoolOK
  <1>3. ASSUME NEW p \in Caller, CallStep(p)
        PROVE  IdleBounded' /\ ClosedKeepsNone'
    BY <1>1, <1>2, <1>3, CallStepIdle, AttemptIdle DEF AttemptAgain
  <1>4. ASSUME NEW t \in Task, UserStep(t)
        PROVE  IdleBounded' /\ ClosedKeepsNone'
    <2>1. CASE Acquire(t)
      BY <1>2, <2>1, AttemptIdle DEF Acquire
    <2>2. CASE Reconnect(t) \/ Wrote(t) \/ Discard(t)
      BY <1>1, <2>2 DEF Reconnect, Wrote, Discard, Returned, table
    <2> QED BY <1>4, <2>1, <2>2, CheckinIdle DEF UserStep
  <1>5. CASE Close
    BY <1>5, BalancerAssumption DEF Close, IdleBounded, ClosedKeepsNone
  <1>6. CASE MaintainerStep
    <2>1. CASE Tick \/ TickClosed \/ ProbesDone \/ RefreshFails
      BY <1>1, <2>1 DEF Tick, TickClosed, ProbesDone, RefreshFails, table
    <2>2. ASSUME NEW ep \in Endpoint, ProbeAnswered(ep)
          PROVE  IdleBounded' /\ ClosedKeepsNone'
      BY <2>2, BalancerAssumption
         DEF ProbeAnswered, Probing, IdleBounded, ClosedKeepsNone, Types, PoolOK
    <2>3. ASSUME NEW ep \in Endpoint, ProbeFailed(ep) \/ ProbeGone(ep)
          PROVE  IdleBounded' /\ ClosedKeepsNone'
      BY <1>1, <2>3 DEF ProbeFailed, ProbeGone, Probing
    <2>4. CASE Refresh
      BY <1>2, <2>4, AttemptIdle DEF Refresh
    <2> QED BY <1>6, <2>1, <2>2, <2>3, <2>4, CheckinIdle DEF MaintainerStep
  <1>7. CASE Time
    BY <1>1, <1>7 DEF Time, BackoffElapses, RefreshElapses, WindowElapses, table
  <1>8. CASE UNCHANGED vars
    BY <1>1, <1>8 DEF vars
  <1> QED BY <1>3, <1>4, <1>5, <1>6, <1>7, <1>8 DEF Next

\* The two facts together are an invariant.
LEMMA IdleInvariant == Spec => [](IdleBounded /\ ClosedKeepsNone)
  <1>1. Spec => [](Types /\ IdleBounded /\ ClosedKeepsNone)
    BY InitTypes, StepTypes, IdleInit, IdleStep, PTL DEF Spec
  <1> QED BY <1>1, PTL

\* The idle set never exceeds maxsize, although checkins and probes of any
\* number of threads add to it.
THEOREM IdleNeverOverflows == Spec => []IdleBounded
  BY IdleInvariant, PTL

\* Balancer::close: a closed pool holds no connection, then or ever after,
\* whatever checkins and probes were under way.
THEOREM CloseIsFinal == Spec => []ClosedKeepsNone
  BY IdleInvariant, PTL

-----------------------------------------------------------------------------
(* The in_use counts *)

\* Never too high; and exact when no listing can drop a member.
Counted ==
    \A ep \in known :
        /\ member[ep].inUse <= Cardinality(OutOf(ep))
        /\ ~Discover => member[ep].inUse = Cardinality(OutOf(ep))

\* Sets of callers can be counted, one caller at a time.
LEMMA CallersFinite ==
    ASSUME NEW S, S \subseteq Caller
    PROVE  /\ IsFiniteSet(S) /\ Cardinality(S) \in Nat
           /\ \A p \in Caller :
                 /\ p \notin S => Cardinality(S \cup {p}) = Cardinality(S) + 1
                 /\ p \in S => /\ Cardinality(S \ {p}) = Cardinality(S) - 1
                               /\ Cardinality(S) > 0
  <1>1. IsFiniteSet(Caller)
    BY BalancerAssumption, FS_AddElement DEF Caller
  <1>2. IsFiniteSet(S) /\ Cardinality(S) \in Nat
    BY <1>1, FS_Subset, FS_CardinalityType
  <1>3. ASSUME NEW p \in Caller
        PROVE  /\ p \notin S => Cardinality(S \cup {p}) = Cardinality(S) + 1
               /\ p \in S => Cardinality(S \ {p}) = Cardinality(S) - 1
    BY <1>2, FS_AddElement, FS_RemoveElement
  <1>4. S # {} => Cardinality(S) > 0
    BY <1>2, FS_EmptySet
  <1> QED BY <1>2, <1>3, <1>4

\* A step that moves no connection in or out and changes no count.
LEMMA CountedSame ==
    ASSUME Types, Counted,
           \A q \in Caller : /\ link'[q].out = link[q].out
                             /\ link[q].out => link'[q].member = link[q].member,
           \A ep \in known' : \/ ep \in known /\ member'[ep].inUse = member[ep].inUse
                              \/ Discover /\ member'[ep].inUse = 0
    PROVE  Counted'
  <1> SUFFICES ASSUME NEW ep \in known'
               PROVE  /\ member'[ep].inUse <= Cardinality(OutOf(ep)')
                      /\ ~Discover => member'[ep].inUse = Cardinality(OutOf(ep)')
    BY DEF Counted
  <1>1. OutOf(ep)' = OutOf(ep) /\ OutOf(ep) \subseteq Caller
    BY DEF OutOf
  <1>2. Cardinality(OutOf(ep)) \in Nat
    BY <1>1, CallersFinite
  <1>3. CASE ep \in known /\ member'[ep].inUse = member[ep].inUse
    BY <1>1, <1>3 DEF Counted
  <1>4. CASE Discover /\ member'[ep].inUse = 0
    BY <1>1, <1>2, <1>4
  <1> QED BY <1>3, <1>4

\* The second critical section of a checkout counts the connection it hands out.
LEMMA CountCounted ==
    ASSUME Types, Control, Counted, NEW p \in Caller, Count(p)
    PROVE  Counted'
  <1> DEFINE e == link[p].member
  <1>1. ~link[p].out
    BY DEF Count, Control, OutOK, FailoverStep, ListStep
  <1>2. /\ \A q \in Caller \ {p} : link'[q] = link[q]
        /\ link'[p].out /\ link'[p].member = e
    BY DEF Count, Types, CallersOK, LinkType
  <1>3. known' = known
    BY DEF Count, table
  <1>4. \A ep \in known : member'[ep].inUse = IF ep = e THEN member[ep].inUse + 1
                                              ELSE member[ep].inUse
    <2>1. CASE e \notin known
      BY <2>1 DEF Count
    <2>2. CASE e \in known
      <3>1. member[e].inUse + 1 \in Nat /\ e \in Endpoint /\ known \subseteq Endpoint
        BY <2>2 DEF Types, MembersOK, MemberType
      <3>2. member' = [member EXCEPT ![e].inUse = member[e].inUse + 1]
        BY <2>2 DEF Count
      <3> QED BY <3>1, <3>2, CountEffect DEF Types, MembersOK
    <2> QED BY <2>1, <2>2
  <1> SUFFICES ASSUME NEW ep \in known
               PROVE  /\ member'[ep].inUse <= Cardinality(OutOf(ep)')
                      /\ ~Discover => member'[ep].inUse = Cardinality(OutOf(ep)')
    BY <1>3 DEF Counted
  <1>5. OutOf(ep) \subseteq Caller /\ p \notin OutOf(ep)
    BY <1>1 DEF OutOf
  <1>6. OutOf(ep)' = IF ep = e THEN OutOf(ep) \cup {p} ELSE OutOf(ep)
    BY <1>1, <1>2 DEF OutOf
  <1>7. /\ Cardinality(OutOf(ep)) \in Nat
        /\ Cardinality(OutOf(ep) \cup {p}) = Cardinality(OutOf(ep)) + 1
    BY <1>5, CallersFinite
  <1>8. member[ep].inUse \in Nat
    BY DEF Types, MembersOK, MemberType
  <1> HIDE DEF e
  <1> QED BY <1>4, <1>6, <1>7, <1>8 DEF Counted

\* A return and a drop uncount the connection.
LEMMA ReturnedCounted ==
    ASSUME Types, Counted, NEW p \in Caller, link[p].out, Returned(p)
    PROVE  Counted'
  <1> DEFINE e == link[p].member
  <1>1. /\ \A q \in Caller \ {p} : link'[q] = link[q]
        /\ ~link'[p].out
    BY DEF Returned, Types, CallersOK, NoLink
  <1>2. known' = known /\ known \subseteq Endpoint
    BY DEF Returned, Types, MembersOK
  <1>3. \A ep \in known : member'[ep].inUse = IF ep = e THEN Less(member[ep].inUse)
                                              ELSE member[ep].inUse
    BY <1>2, UncountedEffect, SMTT(40) DEF Returned, Types
  <1> SUFFICES ASSUME NEW ep \in known
               PROVE  /\ member'[ep].inUse <= Cardinality(OutOf(ep)')
                      /\ ~Discover => member'[ep].inUse = Cardinality(OutOf(ep)')
    BY <1>2 DEF Counted
  <1>4. OutOf(ep) \subseteq Caller /\ (ep = e => p \in OutOf(ep))
    BY DEF OutOf
  <1>5. OutOf(ep)' = IF ep = e THEN OutOf(ep) \ {p} ELSE OutOf(ep)
    BY <1>1 DEF OutOf
  <1>6. /\ Cardinality(OutOf(ep)) \in Nat
        /\ ep = e => /\ Cardinality(OutOf(ep) \ {p}) = Cardinality(OutOf(ep)) - 1
                     /\ Cardinality(OutOf(ep)) > 0
    BY <1>4, CallersFinite
  <1>7. member[ep].inUse \in Nat
    BY DEF Types, MembersOK, MemberType
  <1> HIDE DEF e
  <1> QED BY <1>3, <1>5, <1>6, <1>7 DEF Counted, Less

\* A failover moves the count with the connection.
LEMMA RedialCounted ==
    ASSUME Types, Counted, NEW p \in Caller, RedialAnswers(p)
    PROVE  Counted'
  <1> DEFINE e == link[p].member
             to == Head(order[p])
  <1>1. to \in Endpoint
    BY DEF RedialAnswers, Types, CallersOK
  <1>2. /\ \A q \in Caller \ {p} : link'[q] = link[q]
        /\ link'[p].out = link[p].out /\ link'[p].member = to
    BY DEF RedialAnswers, Types, CallersOK, LinkType
  <1>3. known' = known /\ known \subseteq Endpoint
    BY DEF RedialAnswers, table, Types, MembersOK
  <1>4. \A ep \in known :
           member'[ep].inUse = IF ~link[p].out \/ e = to THEN member[ep].inUse
                               ELSE IF ep = to THEN member[ep].inUse + 1
                               ELSE IF ep = e THEN Less(member[ep].inUse)
                               ELSE member[ep].inUse
    <2>1. member' = Reattributed(p, to)
      BY DEF RedialAnswers
    <2> HIDE DEF to
    <2> QED BY <1>1, <1>3, <2>1, ReattributedEffect, SMTT(40) DEF Types
  <1> HIDE DEF to
  <1> SUFFICES ASSUME NEW ep \in known
               PROVE  /\ member'[ep].inUse <= Cardinality(OutOf(ep)')
                      /\ ~Discover => member'[ep].inUse = Cardinality(OutOf(ep)')
    BY <1>3 DEF Counted
  <1>5. OutOf(ep) \subseteq Caller /\ (p \in OutOf(ep) <=> link[p].out /\ ep = e)
    BY DEF OutOf
  <1>6. OutOf(ep)' = IF ~link[p].out \/ e = to THEN OutOf(ep)
                     ELSE IF ep = to THEN OutOf(ep) \cup {p}
                     ELSE IF ep = e THEN OutOf(ep) \ {p}
                     ELSE OutOf(ep)
    BY <1>2 DEF OutOf
  <1>7. /\ Cardinality(OutOf(ep)) \in Nat
        /\ p \notin OutOf(ep) =>
              Cardinality(OutOf(ep) \cup {p}) = Cardinality(OutOf(ep)) + 1
        /\ p \in OutOf(ep) => /\ Cardinality(OutOf(ep) \ {p}) = Cardinality(OutOf(ep)) - 1
                              /\ Cardinality(OutOf(ep)) > 0
    BY <1>5, CallersFinite
  <1>8. member[ep].inUse \in Nat
    BY DEF Types, MembersOK, MemberType
  <1> HIDE DEF e
  <1>9. /\ member[ep].inUse <= Cardinality(OutOf(ep))
        /\ ~Discover => member[ep].inUse = Cardinality(OutOf(ep))
    BY DEF Counted
  <1>10. CASE ~link[p].out \/ e = to
    BY <1>4, <1>6, <1>9, <1>10
  <1>11. CASE link[p].out /\ e # to /\ ep = to
    <2>1. p \notin OutOf(ep)
      BY <1>5, <1>11
    <2> QED BY <1>4, <1>6, <1>7, <1>8, <1>9, <1>11, <2>1
  <1>12. CASE link[p].out /\ e # to /\ ep = e
    <2>1. p \in OutOf(ep)
      BY <1>5, <1>12
    <2>2. /\ member'[ep].inUse = Less(member[ep].inUse)
          /\ Cardinality(OutOf(ep)') = Cardinality(OutOf(ep)) - 1
      BY <1>4, <1>6, <1>7, <1>12, <2>1
    <2> QED BY <1>7, <1>8, <1>9, <2>1, <2>2 DEF Less
  <1>13. CASE link[p].out /\ e # to /\ ep # to /\ ep # e
    BY <1>4, <1>6, <1>9, <1>13
  <1> QED BY <1>10, <1>11, <1>12, <1>13

\* A report on a member changes no count.
LEMMA ReportCounted ==
    ASSUME Types, Counted, NEW ep, Failed(ep) \/ RoundTrip(ep), UNCHANGED known,
           \A q \in Caller : /\ link'[q].out = link[q].out
                             /\ link[q].out => link'[q].member = link[q].member
    PROVE  Counted'
  <1>1. \A e \in Endpoint : SameTies(e)
    BY FailedEffect, RoundTripEffect DEF Types
  <1> QED BY <1>1, CountedSame DEF SameTies, Types, MembersOK

\* A checkout that gives up changes no link that is counted.
LEMMA CheckoutFailsOut ==
    ASSUME Types, NEW p \in Caller, ~link[p].out, CheckoutFails(p)
    PROVE  \A q \in Caller : /\ link'[q].out = link[q].out
                             /\ link[q].out => link'[q].member = link[q].member
  BY DEF CheckoutFails, NoLink, Types, CallersOK, LinkType

\* checkout's first lock changes no count.
LEMMA AttemptCounted ==
    ASSUME Types, Counted, NEW p \in Caller, NEW k, NEW n, Attempt(p, k, n), ~link[p].out
    PROVE  Counted'
  <1>1. UNCHANGED <<known, member>>
    BY DEF Attempt
  <1>2. link' = link \/ \E ep \in Endpoint : link' = [link EXCEPT ![p] = [NoLink EXCEPT !.member = ep]]
    BY ElementType DEF Attempt, FoundIdle, Types, PoolOK
  <1>3. \A q \in Caller : /\ link'[q].out = link[q].out
                          /\ link[q].out => link'[q].member = link[q].member
    <2>1. CASE \E ep \in Endpoint : link' = [link EXCEPT ![p] = [NoLink EXCEPT !.member = ep]]
      <3>1. PICK ep \in Endpoint : link' = [link EXCEPT ![p] = [NoLink EXCEPT !.member = ep]]
        BY <2>1
      <3> DEFINE l == [NoLink EXCEPT !.member = ep]
      <3>2. l.out = FALSE /\ link' = [link EXCEPT ![p] = l]
        BY <3>1, FreshLink
      <3> HIDE DEF l
      <3> QED BY <3>2 DEF Types, CallersOK, LinkType
    <2> QED BY <1>2, <2>1
  <1> QED BY <1>1, <1>3, CountedSame

\* Every step inside a call keeps the members' counts in step with the
\* links that are out.
LEMMA CallStepCounted ==
    ASSUME Types, Control, Counted, NEW p \in Caller, CallStep(p)
    PROVE  Counted'
  <1> DEFINE SameOut == \A q \in Caller : /\ link'[q].out = link[q].out
                                          /\ link[q].out => link'[q].member = link[q].member
  <1>1. pc[p] \in {"none", "again", "refresh", "dial", "bind"} => ~link[p].out
    BY DEF Control, OutOK, FailoverStep, ListStep
  <1>2. CASE CheckoutClosed(p) \/ DialExhausted(p)
    <2>1. SameOut
      BY <1>1, <1>2, CheckoutFailsOut DEF CheckoutClosed, DialExhausted
    <2> QED BY <1>2, <2>1, CountedSame DEF CheckoutClosed, DialExhausted, table
  <1>3. CASE AttemptAgain(p)
    BY <1>1, <1>3, AttemptCounted DEF AttemptAgain
  <1>4. CASE DialFails(p)
    <2>1. SameOut /\ UNCHANGED known
      BY <1>4 DEF DialFails, table
    <2> QED BY <1>4, <2>1, ReportCounted, CountedSame DEF DialFails
  <1>5. CASE DialAnswers(p)
    <2> DEFINE l == [NoLink EXCEPT !.member = Head(order[p])]
    <2>1. Head(order[p]) \in Endpoint
      BY <1>5 DEF DialAnswers, Types, CallersOK
    <2>2. l.out = FALSE /\ link' = [link EXCEPT ![p] = l]
      BY <1>5, <2>1, FreshLink DEF DialAnswers
    <2> HIDE DEF l
    <2>3. SameOut
      BY <1>1, <1>5, <2>2 DEF DialAnswers, Types, CallersOK, LinkType
    <2> QED BY <1>5, <2>3, CountedSame DEF DialAnswers, table
  <1>6. CASE Bind(p)
    <2>1. SameOut
      BY <1>1, <1>6, CheckoutFailsOut DEF Bind
    <2>2. UNCHANGED known
      BY <1>6 DEF Bind, table
    <2> QED BY <1>6, <2>1, <2>2, ReportCounted DEF Bind
  <1>7. CASE DiscoverThrough(p) \/ Redial(p) \/ RedialExhausted(p)
    BY <1>7, CountedSame DEF DiscoverThrough, Redial, RedialExhausted, table
  <1>8. CASE Count(p)
    BY <1>8, CountCounted
  <1>9. CASE StatementAnswered(p) \/ StatementLost(p) \/ Replay(p)
    <2>1. SameOut
      BY <1>9, BrokenKeepsOut DEF StatementAnswered, StatementLost, Replay
    <2>2. UNCHANGED known
      BY <1>9 DEF StatementAnswered, StatementLost, Replay, table
    <2>3. \E ep : Failed(ep) \/ RoundTrip(ep)
      BY <1>9 DEF StatementAnswered, StatementLost, Replay
    <2> QED BY <2>1, <2>2, <2>3, ReportCounted
  <1>10. CASE RedialAnswers(p)
    BY <1>10, RedialCounted
  <1>11. CASE ListThrough(p)
    <2>1. Discover
      BY <1>11, BalancerAssumption DEF ListThrough, FoldListing, Control, Undiscovered, ListStep
    <2>2. SameOut
      <3>1. CASE ~link[p].out /\ CheckoutFails(p)
        BY <3>1, CheckoutFailsOut
      <3>2. CASE ~link[p].out /\ link' = [link EXCEPT ![p] = NoLink]
        BY <3>2 DEF NoLink, Types, CallersOK, LinkType
      <3> QED BY <1>11, <3>1, <3>2 DEF ListThrough
    <2>3. \A ep \in known' : \/ ep \in known /\ member'[ep].inUse = member[ep].inUse
                             \/ member'[ep].inUse = 0
      <3>1. FoldListing(p) /\ MembersOK
        BY <1>11 DEF ListThrough, Types
      <3>2. CASE UNCHANGED <<known, member>>
        BY <3>2
      <3>3. ASSUME NEW rows \in Listings,
                   known' = Applied(link[p].member, rows).known,
                   member' = Applied(link[p].member, rows).member
            PROVE  \A ep \in known' :
                      \/ ep \in known /\ member'[ep].inUse = member[ep].inUse
                      \/ member'[ep].inUse = 0
        <4>1. /\ known' \subseteq Endpoint
              /\ \A ep \in Endpoint :
                    \/ member'[ep].inUse = 0
                    \/ ep \in known /\ member'[ep].inUse = member[ep].inUse
          BY <3>1, <3>3, AppliedEffect DEF SameStanding
        <4> QED BY <4>1
      <3> QED BY <3>1, <3>2, <3>3 DEF FoldListing
    <2> QED BY <2>1, <2>2, <2>3, CountedSame
  <1> QED BY <1>2, <1>3, <1>4, <1>5, <1>6, <1>7, <1>8, <1>9, <1>10, <1>11 DEF CallStep

\* Every step keeps the counts in step with the links.
LEMMA CountedStep ==
    ASSUME Types, Control, Counted, [Next]_vars
    PROVE  Counted'
  <1>1. known \subseteq Endpoint /\ member \in [Endpoint -> MemberType]
    BY DEF Types, MembersOK
  <1>2. CASE UNCHANGED <<known, member, link>>
    BY <1>2, CountedSame
  <1>3. ASSUME NEW t \in Task, UserStep(t)
        PROVE  Counted'
    <2>1. t \in Caller /\ t # Maintainer
      BY BalancerAssumption DEF Caller
    <2>2. CASE Acquire(t)
      <3>1. ~link[t].out
        BY <2>1, <2>2 DEF Acquire, Control, OutOK, FailoverStep, ListStep
      <3> QED BY <2>1, <2>2, <3>1, AttemptCounted DEF Acquire
    <2>3. CASE Reconnect(t) \/ Wrote(t)
      BY <1>2, <2>3 DEF Reconnect, Wrote, table
    <2>4. CASE Checkin(t) \/ Discard(t)
      <3>1. link[t].out
        BY <2>1, <2>4 DEF Checkin, Discard, Control, OutOK
      <3> QED BY <2>1, <2>4, <3>1, ReturnedCounted DEF Checkin, Discard
    <2> QED BY <1>3, <2>2, <2>3, <2>4 DEF UserStep
  <1>4. CASE Close \/ RefreshElapses \/ \E k \in Key : WindowElapses(k)
    BY <1>2, <1>4 DEF Close, RefreshElapses, WindowElapses
  <1>5. ASSUME NEW ep \in Endpoint, BackoffElapses(ep)
        PROVE  Counted'
    <2>1. UNCHANGED <<known, link>> /\ \A e \in Endpoint : member'[e].inUse = member[e].inUse
      BY <1>1, <1>5 DEF BackoffElapses, table, MemberType
    <2> QED BY <1>1, <2>1, CountedSame
  <1>6. CASE MaintainerStep
    <2>1. Maintainer \in Caller
      BY DEF Caller
    <2>2. CASE TickClosed \/ ProbesDone \/ RefreshFails
      BY <1>2, <2>2 DEF TickClosed, ProbesDone, RefreshFails, table
    <2>3. CASE Tick
      <3>1. UNCHANGED <<known, link>> /\ \A e \in Endpoint : member'[e].inUse = member[e].inUse
        BY <1>1, <2>3 DEF Tick, MemberType
      <3> QED BY <1>1, <3>1, CountedSame
    <2>4. ASSUME NEW ep \in Endpoint, ProbeAnswered(ep) \/ ProbeFailed(ep) \/ ProbeGone(ep)
          PROVE  Counted'
      <3>1. UNCHANGED <<known, link>>
        BY <2>4 DEF ProbeAnswered, ProbeFailed, ProbeGone, Probing
      <3>2. \A e \in Endpoint : member'[e].inUse = member[e].inUse
        <4>1. \A m \in MemberType :
                 /\ [m EXCEPT !.probing = FALSE, !.ejected = "no",
                              !.errors = 0, !.samples = 0].inUse = m.inUse
                 /\ [m EXCEPT !.probing = FALSE, !.ejected = "waiting"].inUse = m.inUse
          BY DEF MemberType
        <4>2. CASE ProbeAnswered(ep)
          BY <1>1, <4>1, <4>2 DEF ProbeAnswered
        <4>3. CASE ProbeFailed(ep)
          BY <1>1, <4>1, <4>3 DEF ProbeFailed
        <4>4. CASE ProbeGone(ep)
          BY <4>4 DEF ProbeGone
        <4> QED BY <2>4, <4>2, <4>3, <4>4
      <3> QED BY <1>1, <3>1, <3>2, CountedSame
    <2>5. CASE Refresh
      <3>1. ~link[Maintainer].out
        BY <2>1, <2>5 DEF Refresh, Control, OutOK, FailoverStep, ListStep
      <3> QED BY <2>1, <2>5, <3>1, AttemptCounted DEF Refresh
    <2>6. CASE Checkin(Maintainer)
      <3>1. link[Maintainer].out
        BY <2>1, <2>6 DEF Checkin, Control, OutOK
      <3> QED BY <2>1, <2>6, <3>1, ReturnedCounted DEF Checkin
    <2> QED BY <1>6, <2>2, <2>3, <2>4, <2>5, <2>6 DEF MaintainerStep
  <1>7. CASE UNCHANGED vars
    BY <1>2, <1>7 DEF vars
  <1> QED BY <1>3, <1>4, <1>5, <1>6, <1>7, CallStepCounted DEF Next, Time

\* A new pool counts nothing and nothing is out.
LEMMA CountedInit == Init => Counted
  <1> SUFFICES ASSUME Init, NEW ep \in known
               PROVE  member[ep].inUse = 0 /\ Cardinality(OutOf(ep)) = 0
    BY DEF Counted
  <1>1. member[ep].inUse = 0
    BY BalancerAssumption DEF Init, NewMember
  <1>2. OutOf(ep) = {}
    BY DEF Init, OutOf, NoLink
  <1> QED BY <1>1, <1>2, FS_EmptySet

\* The counts follow the links in every reachable state.
LEMMA CountedInvariant == Spec => []Counted
  <1>1. Spec => [](Types /\ Control /\ Counted)
    BY InitTypes, ControlInit, CountedInit, StepTypes, ControlStep, CountedStep, PTL DEF Spec
  <1> QED BY <1>1, PTL

\* No member ever counts more connections than are checked out of it, through
\* any interleaving of checkouts, failovers, returns, drops and listings.
THEOREM InUseNeverHigh == Spec => []InUseBounded
  <1>1. Counted => InUseBounded
    BY DEF Counted, InUseBounded
  <1> QED BY <1>1, CountedInvariant, PTL

\* Without discovery the count of every member is exact.
THEOREM InUseIsExact == ASSUME ~Discover PROVE Spec => []InUseExact
  <1>1. Counted => InUseExact
    BY DEF Counted, InUseExact
  <1> QED BY <1>1, CountedInvariant, PTL

-----------------------------------------------------------------------------
(* The last usable member *)

\* Without discovery every member is listed as ready, one of them is usable, and
\* a member under probe is out of rotation, so that a failed probe takes nothing
\* from it.
Rotation ==
    ~Discover =>
        /\ \A ep \in known : member[ep].listed = "ready"
        /\ \A ep \in due : member[ep].ejected = "due"
        /\ Usable # {}

\* A report leaves the rotation with a member in it.
LEMMA ReportRotation ==
    ASSUME Types, Rotation, NEW ep, Failed(ep) \/ RoundTrip(ep), UNCHANGED <<known, due>>
    PROVE  Rotation'
  <1> SUFFICES ASSUME ~Discover
               PROVE  /\ \A e \in known : member'[e].listed = "ready"
                      /\ \A e \in due : member'[e].ejected = "due"
                      /\ \E e \in known : Admitted(member'[e])
    BY DEF Rotation, Usable
  <1>1. (\A e \in Endpoint : SameTies(e)) /\ EjectsOnly(ep)
    BY FailedEffect, RoundTripEffect DEF Types
  <1>2. known \subseteq Endpoint /\ due \subseteq Endpoint
    BY DEF Types, MembersOK, PoolOK
  <1>3. \A e \in known : member'[e].listed = "ready"
    BY <1>1, <1>2 DEF Rotation, SameTies
  <1>4. \A e \in due : member'[e].ejected = "due"
    BY <1>1, <1>2 DEF Rotation, EjectsOnly
  <1>5. \E e \in known : member'[e].ejected = "no"
    <2>1. PICK u \in known : member[u].ejected = "no"
      BY DEF Rotation, Usable, Admitted
    <2>2. CASE member'[u].ejected = member[u].ejected
      BY <2>1, <2>2
    <2>3. CASE u = ep /\ Usable \ {ep} # {}
      <3>1. PICK v \in known : v # ep /\ member[v].ejected = "no"
        BY <2>3 DEF Usable, Admitted
      <3> QED BY <1>1, <1>2, <3>1 DEF EjectsOnly
    <2> QED BY <1>1, <1>2, <2>1, <2>2, <2>3 DEF EjectsOnly
  <1> QED BY <1>3, <1>4, <1>5 DEF Admitted

\* A step that changes no member's health and no listing.
LEMMA RotationSame ==
    ASSUME Types, Rotation, ~Discover => UNCHANGED <<known, due>>,
           ~Discover => \A e \in Endpoint : /\ member'[e].listed = member[e].listed
                                            /\ member'[e].ejected = member[e].ejected
    PROVE  Rotation'
  BY DEF Rotation, Usable, Admitted, Types, MembersOK, PoolOK

\* Without discovery every step leaves a usable member: eject asks for
\* another one, and a failed probe only meets a member already ejected.
LEMMA RotationStep ==
    ASSUME Types, Control, Rotation, [Next]_vars
    PROVE  Rotation'
  <1>1. known \subseteq Endpoint /\ due \subseteq Endpoint /\ member \in [Endpoint -> MemberType]
    BY DEF Types, MembersOK, PoolOK
  <1>2. CASE UNCHANGED <<known, due, member>>
    BY <1>2, RotationSame
  <1>3. ASSUME NEW p, NEW k, NEW n, Attempt(p, k, n)
        PROVE  Rotation'
    BY <1>2, <1>3 DEF Attempt
  <1>4. ASSUME NEW p \in Caller, Returned(p)
        PROVE  Rotation'
    <2>1. UNCHANGED <<known, due>> /\ member' = Uncounted(p)
      BY <1>4 DEF Returned
    <2> QED BY <1>4, <2>1, UncountedEffect, RotationSame DEF Types
  <1>5. ASSUME NEW p \in Caller, CallStep(p)
        PROVE  Rotation'
    <2>1. CASE \/ CheckoutClosed(p) \/ DialExhausted(p) \/ DialAnswers(p)
               \/ DiscoverThrough(p) \/ Redial(p) \/ RedialExhausted(p)
      BY <1>2, <2>1 DEF CheckoutClosed, DialExhausted, DialAnswers, DiscoverThrough,
                        Redial, RedialExhausted, table
    <2>2. CASE AttemptAgain(p)
      BY <1>3, <2>2 DEF AttemptAgain
    <2>3. CASE DialFails(p) \/ Bind(p) \/ StatementAnswered(p) \/ StatementLost(p) \/ Replay(p)
      <3>1. UNCHANGED <<known, due>>
        BY <2>3 DEF DialFails, Bind, StatementAnswered, StatementLost, Replay, table
      <3>2. UNCHANGED member \/ \E ep : Failed(ep) \/ RoundTrip(ep)
        BY <2>3 DEF DialFails, Bind, StatementAnswered, StatementLost, Replay
      <3> QED BY <1>2, <3>1, <3>2, ReportRotation
    <2>4. CASE Count(p)
      <3>1. UNCHANGED <<known, due>>
        BY <2>4 DEF Count, table
      <3>2. \A e \in Endpoint : /\ member'[e].listed = member[e].listed
                                /\ member'[e].ejected = member[e].ejected
        BY <1>1, <2>4 DEF Count, MemberType
      <3> QED BY <3>1, <3>2, RotationSame
    <2>5. CASE RedialAnswers(p)
      <3>1. UNCHANGED <<known, due>> /\ member' = Reattributed(p, Head(order[p]))
        BY <2>5 DEF RedialAnswers, table
      <3>2. Head(order[p]) \in Endpoint
        BY <2>5 DEF RedialAnswers, Types, CallersOK
      <3>3. MembersOK
        BY DEF Types
      <3> DEFINE to == Head(order[p])
      <3> HIDE DEF to
      <3>4. SameRoles(Reattributed(p, to))
        BY <3>2, <3>3, ReattributedRoles DEF to
      <3>5. \A e \in Endpoint : /\ member'[e].listed = member[e].listed
                                /\ member'[e].ejected = member[e].ejected
        BY <3>1, <3>4 DEF to, SameRoles
      <3> QED BY <3>1, <3>5, RotationSame
    <2>6. CASE ListThrough(p)
      <3>1. Discover
        BY <2>6, BalancerAssumption DEF ListThrough, FoldListing, Control, Undiscovered, ListStep
      <3> QED BY <3>1 DEF Rotation
    <2> QED BY <1>5, <2>1, <2>2, <2>3, <2>4, <2>5, <2>6 DEF CallStep
  <1>6. ASSUME NEW t \in Task, UserStep(t)
        PROVE  Rotation'
    <2>1. CASE Acquire(t)
      BY <1>3, <2>1 DEF Acquire
    <2>2. CASE Reconnect(t) \/ Wrote(t)
      BY <1>2, <2>2 DEF Reconnect, Wrote, table
    <2> QED BY <1>4, <1>6, <2>1, <2>2 DEF UserStep, Checkin, Discard, Caller
  <1>7. CASE Close \/ RefreshElapses \/ \E k \in Key : WindowElapses(k)
    BY <1>2, <1>7 DEF Close, RefreshElapses, WindowElapses
  <1>8. ASSUME NEW ep \in Endpoint, BackoffElapses(ep)
        PROVE  Rotation'
    <2>1. /\ UNCHANGED <<known, due>> /\ member[ep].ejected = "waiting"
          /\ \A e \in Endpoint : /\ member'[e].listed = member[e].listed
                                 /\ e # ep => member'[e].ejected = member[e].ejected
      BY <1>1, <1>8 DEF BackoffElapses, table, MemberType
    <2> QED BY <1>1, <2>1 DEF Rotation, Usable, Admitted
  <1>9. ASSUME NEW ep \in Endpoint, ProbeAnswered(ep) \/ ProbeFailed(ep) \/ ProbeGone(ep)
        PROVE  Rotation'
    <2>1. UNCHANGED known /\ ep \in due /\ due' = due \ {ep}
      BY <1>9 DEF ProbeAnswered, ProbeFailed, ProbeGone, Probing
    <2>2. /\ member'[ep].listed = member[ep].listed
          /\ \A e \in Endpoint \ {ep} : member'[e] = member[e]
      <3>1. \A m \in MemberType :
               /\ [m EXCEPT !.probing = FALSE, !.ejected = "no",
                            !.errors = 0, !.samples = 0].listed = m.listed
               /\ [m EXCEPT !.probing = FALSE, !.ejected = "waiting"].listed = m.listed
        BY DEF MemberType
      <3>2. CASE ProbeAnswered(ep)
        BY <1>1, <3>1, <3>2 DEF ProbeAnswered
      <3>3. CASE ProbeFailed(ep)
        BY <1>1, <3>1, <3>3 DEF ProbeFailed
      <3>4. CASE ProbeGone(ep)
        BY <3>4 DEF ProbeGone
      <3> QED BY <1>9, <3>2, <3>3, <3>4
    <2> QED BY <1>1, <2>1, <2>2 DEF Rotation, Usable, Admitted
  <1>10. CASE Tick
    <2>1. \A e \in Endpoint : /\ member'[e].listed = member[e].listed
                              /\ member'[e].ejected = member[e].ejected
      BY <1>1, <1>10 DEF Tick, MemberType
    <2>2. UNCHANGED known /\ due' \subseteq Endpoint /\ \A e \in due' : member[e].ejected = "due"
      BY <1>1, <1>10 DEF Tick
    <2> QED BY <1>1, <2>1, <2>2 DEF Rotation, Usable, Admitted
  <1>11. CASE TickClosed \/ ProbesDone \/ RefreshFails
    BY <1>2, <1>11 DEF TickClosed, ProbesDone, RefreshFails, table
  <1>12. CASE Refresh \/ Checkin(Maintainer)
    BY <1>3, <1>4, <1>12 DEF Refresh, Checkin, Caller
  <1>13. CASE UNCHANGED vars
    BY <1>2, <1>13 DEF vars
  <1> QED BY <1>5, <1>6, <1>7, <1>8, <1>9, <1>10, <1>11, <1>12, <1>13
          DEF Next, Time, MaintainerStep

\* Every member of a new pool is usable.
LEMMA RotationInit == Init => Rotation
  <1> SUFFICES ASSUME Init PROVE Rotation
    OBVIOUS
  <1>1. \A ep \in known : member[ep].listed = "ready" /\ member[ep].ejected = "no"
    BY BalancerAssumption DEF Init, NewMember
  <1>2. known # {} /\ due = {}
    BY BalancerAssumption DEF Init
  <1> QED BY <1>1, <1>2 DEF Rotation, Usable, Admitted

\* Without discovery some member is usable in every reachable state.
LEMMA RotationInvariant == Spec => [](Types /\ Control /\ Rotation)
  BY InitTypes, ControlInit, RotationInit, StepTypes, ControlStep, RotationStep, PTL DEF Spec

\* Without discovery some member is always usable, for any number of members
\* and callers and any interleaving of failures, probes and re-admissions.
THEOREM NeverAllEjected == ASSUME ~Discover PROVE Spec => []SomeUsable
  <1>1. Rotation => SomeUsable
    BY DEF Rotation, SomeUsable
  <1> QED BY <1>1, RotationInvariant, PTL
-----------------------------------------------------------------------------
(* The background thread *)

\* A report starts the background thread or leaves its state alone.
LEMMA ReportHealth ==
    ASSUME NEW ep, Failed(ep) \/ RoundTrip(ep)
    PROVE  EnsureMaintainer \/ UNCHANGED health
  <1>1. CASE Failed(ep)
    BY <1>1, Zenon DEF Failed, Eject, health
  <1>2. CASE RoundTrip(ep)
    BY <1>2, Zenon DEF RoundTrip, Eject, health
  <1> QED BY <1>1, <1>2

\* Only ensure_maintainer starts a thread, and a handle is only given up by close.
LEMMA OneMaintainerStep ==
    ASSUME OneMaintainer, [Next]_vars
    PROVE  OneMaintainer'
  <1>1. ASSUME EnsureMaintainer \/ UNCHANGED health, UNCHANGED closed
        PROVE  OneMaintainer'
    BY <1>1, Zenon DEF EnsureMaintainer, health, OneMaintainer
  <1>2. ASSUME NEW p, NEW k, NEW n, Attempt(p, k, n)
        PROVE  OneMaintainer'
    BY <1>1, <1>2 DEF Attempt
  <1>3. ASSUME NEW p \in Caller, CallStep(p)
        PROVE  OneMaintainer'
    <2>1. CASE \/ CheckoutClosed(p) \/ DialExhausted(p) \/ DialAnswers(p) \/ Count(p)
               \/ Redial(p) \/ RedialExhausted(p) \/ RedialAnswers(p) \/ ListThrough(p)
      BY <1>1, <2>1 DEF CheckoutClosed, DialExhausted, DialAnswers, Count, Redial,
                        RedialExhausted, RedialAnswers, ListThrough, table
    <2>2. CASE AttemptAgain(p)
      BY <1>2, <2>2 DEF AttemptAgain
    <2>3. CASE DiscoverThrough(p)
      BY <1>1, <2>3 DEF DiscoverThrough, table
    <2>4. CASE DialFails(p) \/ Bind(p) \/ StatementAnswered(p) \/ StatementLost(p) \/ Replay(p)
      <3>1. UNCHANGED closed
        BY <2>4 DEF DialFails, Bind, StatementAnswered, StatementLost, Replay, table
      <3>2. UNCHANGED health \/ \E ep : Failed(ep) \/ RoundTrip(ep)
        BY <2>4 DEF DialFails, Bind, StatementAnswered, StatementLost, Replay
      <3> QED BY <1>1, <3>1, <3>2, ReportHealth
    <2> QED BY <1>3, <2>1, <2>2, <2>3, <2>4 DEF CallStep
  <1>4. ASSUME NEW t \in Task, UserStep(t)
        PROVE  OneMaintainer'
    <2>1. CASE Acquire(t)
      BY <1>2, <2>1 DEF Acquire
    <2> QED BY <1>1, <1>4, <2>1 DEF UserStep, Reconnect, Wrote, Checkin, Discard, Returned, table
  <1>5. CASE Close
    BY <1>5 DEF Close, OneMaintainer
  <1>6. CASE MaintainerStep
    <2>1. CASE TickClosed
      BY <2>1 DEF TickClosed, OneMaintainer, table
    <2>2. CASE Refresh
      BY <1>2, <2>2 DEF Refresh
    <2>3. CASE Tick \/ ProbesDone \/ RefreshFails \/ Checkin(Maintainer)
      BY <1>1, <2>3 DEF Tick, ProbesDone, RefreshFails, Checkin, Returned
    <2>4. ASSUME NEW ep, ProbeAnswered(ep) \/ ProbeFailed(ep) \/ ProbeGone(ep)
          PROVE  OneMaintainer'
      BY <1>1, <2>4 DEF ProbeAnswered, ProbeFailed, ProbeGone, Probing
    <2> QED BY <1>6, <2>1, <2>2, <2>3, <2>4 DEF MaintainerStep
  <1>7. CASE Time
    BY <1>1, <1>7 DEF Time, BackoffElapses, RefreshElapses, WindowElapses, table
  <1>8. CASE UNCHANGED vars
    BY <1>8 DEF vars, OneMaintainer
  <1> QED BY <1>3, <1>4, <1>5, <1>6, <1>7, <1>8 DEF Next

\* Balancer::ensure_maintainer: while the pool is open a second background
\* thread is never started beside the first, however many reports, failed
\* spawns and discoveries ask for one at once.
THEOREM AtMostOneThread == Spec => []OneMaintainer
  <1>1. Init => OneMaintainer
    BY DEF Init, OneMaintainer
  <1> QED BY <1>1, OneMaintainerStep, PTL DEF Spec

-----------------------------------------------------------------------------
(* What a step does to the members *)

\* No member is added or dropped, ejected or re-admitted, marked or unmarked.
Unmoved ==
    /\ UNCHANGED known
    /\ \A e \in Endpoint : /\ member'[e].seed = member[e].seed
                           /\ member'[e].ejected = member[e].ejected
                           /\ member'[e].probing = member[e].probing

\* A connection reported on ep.
Reported(ep) ==
    UNCHANGED known /\ (\A e \in Endpoint : SameTies(e)) /\ EjectsOnly(ep)

\* A listing was folded into the members.
Relisted ==
    \E dialed : \E rows \in Listings : /\ known' = Applied(dialed, rows).known
                                       /\ member' = Applied(dialed, rows).member

\* A step of a call moves no member, reports on one, or folds a listing.
LEMMA CallStepMembers ==
    ASSUME Types, NEW p \in Caller, CallStep(p)
    PROVE  Unmoved \/ (\E ep : Reported(ep)) \/ Relisted
  <1>1. MembersOK
    BY DEF Types
  <1>2. CASE UNCHANGED <<known, member>>
    BY <1>2 DEF Unmoved
  <1>3. CASE \/ CheckoutClosed(p) \/ DialExhausted(p) \/ DialAnswers(p)
             \/ DiscoverThrough(p) \/ Redial(p) \/ RedialExhausted(p) \/ AttemptAgain(p)
    BY <1>2, <1>3 DEF CheckoutClosed, DialExhausted, DialAnswers, DiscoverThrough,
                      Redial, RedialExhausted, AttemptAgain, Attempt, table
  <1>4. CASE DialFails(p) \/ Bind(p) \/ StatementAnswered(p) \/ StatementLost(p) \/ Replay(p)
    <2>1. UNCHANGED known
      BY <1>4 DEF DialFails, Bind, StatementAnswered, StatementLost, Replay, table
    <2>2. UNCHANGED member \/ \E ep : Failed(ep) \/ RoundTrip(ep)
      BY <1>4 DEF DialFails, Bind, StatementAnswered, StatementLost, Replay
    <2>3. ASSUME NEW ep, Failed(ep) \/ RoundTrip(ep)
          PROVE  Reported(ep)
      BY <2>1, <2>3, FailedEffect, RoundTripEffect DEF Types, Reported
    <2> QED BY <1>2, <2>1, <2>2, <2>3
  <1>5. CASE Count(p)
    BY <1>1, <1>5 DEF Count, MembersOK, MemberType, Unmoved, table
  <1>6. CASE RedialAnswers(p)
    <2> DEFINE to == Head(order[p])
    <2>1. UNCHANGED known /\ member' = Reattributed(p, to) /\ to \in Endpoint
      BY <1>6 DEF RedialAnswers, table, Types, CallersOK
    <2> HIDE DEF to
    <2>2. SameRoles(Reattributed(p, to))
      BY <1>1, <2>1, ReattributedRoles
    <2>3. SameRoles(member')
      BY <2>1, <2>2
    <2> QED BY <2>1, <2>3 DEF Unmoved, SameRoles
  <1>7. CASE ListThrough(p)
    BY <1>2, <1>7 DEF ListThrough, FoldListing, Relisted
  <1> QED BY <1>3, <1>4, <1>5, <1>6, <1>7 DEF CallStep

\* A return leaves the members where they are.
LEMMA ReturnedMembers ==
    ASSUME Types, NEW p \in Caller, Returned(p)
    PROVE  Unmoved
  <1>1. member' = Uncounted(p) /\ MembersOK /\ UNCHANGED known
    BY DEF Returned, Types
  <1> QED BY <1>1 DEF Uncounted, MembersOK, MemberType, Unmoved

\* A step of a user outside a call moves no member.
LEMMA UserStepMembers ==
    ASSUME Types, NEW t \in Task, UserStep(t)
    PROVE  Unmoved
  <1>1. CASE Acquire(t) \/ Reconnect(t) \/ Wrote(t)
    BY <1>1 DEF Acquire, Attempt, Reconnect, Wrote, table, Unmoved
  <1> QED BY <1>1, ReturnedMembers DEF UserStep, Checkin, Discard, Caller

\* Besides the calls only a tick, a probe and a back-off's end move members.
LEMMA StepMembers ==
    ASSUME Types, [Next]_vars
    PROVE  \/ Unmoved \/ (\E ep : Reported(ep)) \/ Relisted
           \/ Tick \/ \E ep \in Endpoint : \/ ProbeAnswered(ep) \/ ProbeFailed(ep)
                                           \/ ProbeGone(ep) \/ BackoffElapses(ep)
  <1>1. CASE UNCHANGED <<known, member>>
    BY <1>1 DEF Unmoved
  <1>2. CASE Close \/ RefreshElapses \/ \E k \in Key : WindowElapses(k)
    BY <1>1, <1>2 DEF Close, RefreshElapses, WindowElapses
  <1>3. CASE TickClosed \/ ProbesDone \/ Refresh \/ RefreshFails
    BY <1>1, <1>3 DEF TickClosed, ProbesDone, Refresh, Attempt, RefreshFails, table
  <1>4. CASE Checkin(Maintainer)
    BY <1>4, ReturnedMembers DEF Checkin, Caller
  <1>5. CASE UNCHANGED vars
    BY <1>1, <1>5 DEF vars
  <1> QED BY <1>2, <1>3, <1>4, <1>5, CallStepMembers, UserStepMembers
          DEF Next, MaintainerStep, Time

\* What a probe does to the member it is about.
LEMMA ProbeMembers ==
    ASSUME Types, NEW ep \in Endpoint, ProbeAnswered(ep) \/ ProbeFailed(ep) \/ ProbeGone(ep)
    PROVE  /\ UNCHANGED known /\ ep \in due /\ due' = due \ {ep}
           /\ \A e \in Endpoint \ {ep} : member'[e] = member[e]
           /\ member'[ep].seed = member[ep].seed
           /\ ep \in known => ~member'[ep].probing
  <1>1. member \in [Endpoint -> MemberType]
    BY DEF Types, MembersOK
  <1>2. UNCHANGED known /\ ep \in due /\ due' = due \ {ep}
    BY DEF ProbeAnswered, ProbeFailed, ProbeGone, Probing
  <1>3. \A m \in MemberType :
           LET a == [m EXCEPT !.probing = FALSE, !.ejected = "no", !.errors = 0, !.samples = 0]
               f == [m EXCEPT !.probing = FALSE, !.ejected = "waiting"]
           IN  ~a.probing /\ ~f.probing /\ a.seed = m.seed /\ f.seed = m.seed
    BY DEF MemberType
  <1>4. CASE ProbeAnswered(ep)
    BY <1>1, <1>2, <1>3, <1>4 DEF ProbeAnswered
  <1>5. CASE ProbeFailed(ep)
    BY <1>1, <1>2, <1>3, <1>5 DEF ProbeFailed
  <1>6. CASE ProbeGone(ep)
    BY <1>2, <1>6 DEF ProbeGone
  <1> QED BY <1>4, <1>5, <1>6

\* A listing drops no mark but a dropped member's, and ejects nobody.
LEMMA RelistedMembers ==
    ASSUME Types, Relisted
    PROVE  /\ known' \subseteq Endpoint
           /\ \A e \in Endpoint : /\ member'[e].probing => e \in known /\ member[e].probing
                                  /\ \/ member'[e].ejected = "no"
                                     \/ member'[e].ejected = member[e].ejected
  <1>1. PICK dialed : \E rows \in Listings : /\ known' = Applied(dialed, rows).known
                                             /\ member' = Applied(dialed, rows).member
    BY DEF Relisted
  <1>2. MembersOK
    BY DEF Types
  <1>3. PICK rows \in Listings : /\ known' = Applied(dialed, rows).known
                                 /\ member' = Applied(dialed, rows).member
    BY <1>1
  <1> DEFINE a == Applied(dialed, rows)
  <1>4. /\ a.known \subseteq Endpoint
        /\ \A e \in Endpoint : \/ ~a.member[e].probing /\ a.member[e].ejected = "no"
                               \/ e \in known /\ SameStanding(a.member[e], member[e])
    BY <1>2, AppliedEffect
  <1>5. known' = a.known /\ member' = a.member
    BY <1>3
  <1> HIDE DEF a
  <1> QED BY <1>4, <1>5 DEF SameStanding

-----------------------------------------------------------------------------
(* Probes *)

\* Outside its probes the background thread owes none.
Probes == ProbingIsDue /\ (pc[Maintainer] # "probe" => due = {})

\* A step of a caller that is not probing leaves the list of probes alone.
LEMMA OtherStepDue ==
    ASSUME Types, Probes, [Next]_vars
    PROVE  \/ UNCHANGED due /\ (pc'[Maintainer] # "probe" => due = {})
           \/ Tick \/ \E ep \in Endpoint : ProbeAnswered(ep) \/ ProbeFailed(ep) \/ ProbeGone(ep)
  <1>1. Maintainer \in Caller /\ pc \in [Caller -> Step]
    BY DEF Types, CallersOK, Caller
  <1>2. ASSUME NEW p \in Caller, p = Maintainer => pc[p] # "probe",
               UNCHANGED pc \/ \E step : Goto(p, step)
        PROVE  pc'[Maintainer] # "probe" => due = {}
    BY <1>1, <1>2 DEF Probes, Goto
  <1>3. ASSUME NEW p \in Caller, CallStep(p)
        PROVE  UNCHANGED due /\ (pc'[Maintainer] # "probe" => due = {})
    <2>1. pc[p] # "probe" /\ UNCHANGED due
      BY <1>3 DEF CallStep, CheckoutClosed, AttemptAgain, Attempt, DialFails, DialExhausted,
             DialAnswers, Bind, DiscoverThrough, Count, StatementAnswered, StatementLost,
             Redial, RedialExhausted, RedialAnswers, Replay, ListThrough, FoldListing, table
    <2>2. UNCHANGED pc \/ \E step : Goto(p, step)
      <3>1. CASE CheckoutFails(p)
        BY <3>1 DEF CheckoutFails
      <3> QED BY <1>3, <3>1 DEF CallStep, CheckoutClosed, AttemptAgain, Attempt, DialFails,
             DialExhausted, DialAnswers, Bind, DiscoverThrough, Count, StatementAnswered,
             StatementLost, Redial, RedialExhausted, RedialAnswers, Replay, ListThrough
    <2> QED BY <1>2, <2>1, <2>2
  <1>4. ASSUME NEW t \in Task, UserStep(t)
        PROVE  UNCHANGED due /\ (pc'[Maintainer] # "probe" => due = {})
    <2>1. t \in Caller /\ t # Maintainer /\ UNCHANGED due /\ \E step : Goto(t, step)
      BY <1>4, BalancerAssumption
         DEF UserStep, Acquire, Attempt, Reconnect, Wrote, Checkin, Discard, Returned, table, Caller
    <2> QED BY <1>2, <2>1
  <1>5. CASE Close \/ Time \/ TickClosed \/ UNCHANGED vars
    <2>1. UNCHANGED <<due, pc>>
      BY <1>5 DEF Close, Time, BackoffElapses, RefreshElapses, WindowElapses, TickClosed,
                  table, vars
    <2> QED BY <2>1 DEF Probes
  <1>6. CASE ProbesDone
    BY <1>6 DEF ProbesDone
  <1>7. CASE Refresh \/ RefreshFails \/ Checkin(Maintainer)
    <2>1. /\ pc[Maintainer] # "probe" /\ UNCHANGED due
          /\ \E step : Goto(Maintainer, step)
      BY <1>7 DEF Refresh, Attempt, RefreshFails, Checkin, Returned
    <2> QED BY <1>1, <1>2, <2>1
  <1> QED BY <1>3, <1>4, <1>5, <1>6, <1>7 DEF Next, MaintainerStep

\* Every step keeps track of the probes: tick marks the members it is going to
\* probe, and each probe clears the mark it found.
LEMMA ProbesStep ==
    ASSUME Types, Probes, [Next]_vars
    PROVE  Probes'
  <1>1. known \subseteq Endpoint /\ member \in [Endpoint -> MemberType]
    BY DEF Types, MembersOK
  <1>2. CASE Tick
    <2>1. /\ due = {} /\ UNCHANGED known /\ due' \subseteq known
          /\ pc'[Maintainer] = "probe"
      BY <1>1, <1>2 DEF Tick, Ticks, Goto, Probes, Types, CallersOK, Caller
    <2>2. \A e \in known : ~member[e].probing
      BY <2>1 DEF Probes, ProbingIsDue
    <2>3. \A e \in known : e \notin due' => member'[e] = member[e]
      BY <1>1, <1>2 DEF Tick
    <2> QED BY <2>1, <2>2, <2>3 DEF Probes, ProbingIsDue
  <1>3. ASSUME NEW ep \in Endpoint, ProbeAnswered(ep) \/ ProbeFailed(ep) \/ ProbeGone(ep)
        PROVE  Probes'
    <2>1. pc'[Maintainer] = "probe"
      BY <1>3 DEF ProbeAnswered, ProbeFailed, ProbeGone, Probing
    <2> QED BY <1>1, <1>3, <2>1, ProbeMembers DEF Probes, ProbingIsDue
  <1>4. CASE UNCHANGED due /\ (pc'[Maintainer] # "probe" => due = {})
    <2> DEFINE Marks == \A e \in known' : /\ e \in Endpoint
                                          /\ member'[e].probing => e \in known /\ member[e].probing
    <2>1. ASSUME ~Tick,
                 ~\E ep \in Endpoint : ProbeAnswered(ep) \/ ProbeFailed(ep) \/ ProbeGone(ep)
          PROVE  Marks
      <3>1. CASE Unmoved
        BY <1>1, <3>1 DEF Unmoved
      <3>2. ASSUME NEW ep, Reported(ep)
            PROVE  Marks
        BY <1>1, <3>2 DEF Reported, SameTies
      <3>3. CASE Relisted
        BY <3>3, RelistedMembers
      <3>4. ASSUME NEW ep \in Endpoint, BackoffElapses(ep)
            PROVE  Marks
        BY <1>1, <3>4 DEF BackoffElapses, MemberType, table
      <3> HIDE DEF Marks
      <3> QED BY <2>1, <3>1, <3>2, <3>3, <3>4, StepMembers
    <2>2. Marks => Probes'
      BY <1>4 DEF Probes, ProbingIsDue
    <2> HIDE DEF Marks
    <2> QED BY <1>2, <1>3, <2>1, <2>2
  <1> QED BY <1>2, <1>3, <1>4, OtherStepDue

\* The marks of the probes are kept track of in every state.
LEMMA ProbesInvariant == Spec => [](Types /\ Probes)
  <1>1. Init => Probes
    BY BalancerAssumption DEF Init, Probes, ProbingIsDue, NewMember
  <1> QED BY <1>1, InitTypes, StepTypes, ProbesStep, PTL DEF Spec

\* `probing` is set only for a member the background thread is still going to
\* probe: no interleaving of reports, listings and a close leaves it set for
\* good, which would keep the member out of rotation for ever.
THEOREM ProbingNeverStuck == Spec => []ProbingIsDue
  <1>1. Probes => ProbingIsDue
    BY DEF Probes
  <1> QED BY <1>1, ProbesInvariant, PTL

\* In pools that follow discovery as in those that do not, after any calls,
\* probes and closes: the records keep their types, a closed pool keeps no idle
\* connection, a member marked as being probed is on the list its probe works
\* off, and one thread at most maintains the pool.
THEOREM PoolAlwaysKept == Spec => []PoolKept
  BY TypeCorrect, CloseIsFinal, ProbingNeverStuck, AtMostOneThread, PTL DEF PoolKept

-----------------------------------------------------------------------------
(* Who ejects a member that waits for its probe *)

\* A member that waits for its probe is ejected again by a failed probe alone:
\* late reports of connections checked out before the ejection, failovers and
\* listings never restart its back-off.
THEOREM ReEjectedByProbesAlone == Spec => OnlyProbesReEject
  <1> DEFINE A == \A ep \in known :
                    member[ep].ejected = "due" /\ member'[ep].ejected = "waiting"
                       => ep \in due /\ ep \notin due'
  <1>1. ASSUME Types, [Next]_vars
        PROVE  A
    <2>1. known \subseteq Endpoint /\ member \in [Endpoint -> MemberType]
      BY <1>1 DEF Types, MembersOK
    <2>2. CASE Unmoved
      BY <2>1, <2>2 DEF Unmoved
    <2>3. ASSUME NEW ep, Reported(ep)
          PROVE  A
      BY <2>1, <2>3 DEF Reported, EjectsOnly
    <2>4. CASE Relisted
      BY <1>1, <2>1, <2>4, RelistedMembers
    <2>5. CASE Tick
      BY <2>1, <2>5 DEF Tick, MemberType
    <2>6. ASSUME NEW ep \in Endpoint, ProbeAnswered(ep) \/ ProbeFailed(ep) \/ ProbeGone(ep)
          PROVE  A
      <3>1. /\ ep \in due /\ due' = due \ {ep}
            /\ \A e \in Endpoint \ {ep} : member'[e] = member[e]
        BY <1>1, <2>6, ProbeMembers
      <3> QED BY <2>1, <3>1
    <2>7. ASSUME NEW ep \in Endpoint, BackoffElapses(ep)
          PROVE  A
      BY <2>1, <2>7 DEF BackoffElapses, MemberType
    <2> HIDE DEF A
    <2> QED BY <1>1, <2>2, <2>3, <2>4, <2>5, <2>6, <2>7, StepMembers
  <1> QED BY <1>1, InitTypes, StepTypes, PTL DEF Spec, OnlyProbesReEject

-----------------------------------------------------------------------------
(* Seeds *)

\* A finite, nonempty set of numbers has a greatest element.
LEMMA GreatestExists ==
    ASSUME NEW S \in SUBSET Nat, IsFiniteSet(S), S # {}
    PROVE  \E m \in S : \A n \in S : n <= m
  <1> DEFINE Unbounded == {T \in FiniteSubsetsOf(Nat) :
                              T # {} /\ \A m \in T : \E n \in T : n > m}
  <1>1. SUFFICES ASSUME Unbounded # {} PROVE FALSE
    <2>1. S \in FiniteSubsetsOf(Nat) /\ S \notin Unbounded
      BY <1>1 DEF FiniteSubsetsOf
    <2>2. PICK m \in S : \A n \in S : ~(n > m)
      BY <2>1
    <2> QED BY <2>2
  <1>2. PICK T \in Unbounded : \A U \in Unbounded : <<U, T>> \notin StrictSubsetOrdering(Nat)
    <2>1. Unbounded \subseteq FiniteSubsetsOf(Nat)
      OBVIOUS
    <2>2. IsWellFoundedOn(StrictSubsetOrdering(Nat), FiniteSubsetsOf(Nat))
      BY FS_StrictSubsetOrderingWellFounded, Zenon
    <2> HIDE DEF Unbounded
    <2> QED BY <1>1, <2>1, <2>2, WFMin, Zenon
  <1>3. T \subseteq Nat /\ IsFiniteSet(T) /\ T # {} /\ \A m \in T : \E n \in T : n > m
    BY <1>2 DEF FiniteSubsetsOf
  <1>4. PICK x \in T : TRUE
    BY <1>3
  <1> DEFINE U == {n \in T : n > x}
  <1>5. U \subseteq T /\ U # T /\ U # {} /\ U \subseteq Nat
    <2>1. x \in Nat /\ x \in T /\ x \notin U
      BY <1>3, <1>4
    <2>2. \E n \in T : n > x
      BY <1>3, <1>4
    <2> QED BY <1>3, <2>1, <2>2
  <1>6. IsFiniteSet(U)
    BY <1>3, <1>5, FS_Subset
  <1>7. \A m \in U : \E n \in U : n > m
    BY <1>3, <1>4
  <1>8. U \in Unbounded /\ <<U, T>> \in StrictSubsetOrdering(Nat)
    BY <1>3, <1>5, <1>6, <1>7 DEF FiniteSubsetsOf, StrictSubsetOrdering
  <1> QED BY <1>2, <1>8

\* Of the seeds under one name a listing keeps the last, and a seed without a
\* name is no duplicate: some seed always survives.
LEMMA AppliedKeepsASeed ==
    ASSUME Types, SeedRemains, NEW dialed, NEW rows \in Listings
    PROVE  LET a == Applied(dialed, rows) IN \E ep \in a.known : a.member[ep].seed
  <1> DEFINE named == Named(dialed, rows)
  <1>1. known \subseteq Endpoint /\ member \in [Endpoint -> MemberType] /\ MembersOK
    BY DEF Types, MembersOK
  <1>2. PICK s \in known : member[s].seed
    BY DEF SeedRemains
  <1>3. \A ep \in Endpoint : named[ep].seed = member[ep].seed
    BY <1>1 DEF Named, MemberType
  <1> HIDE DEF named
  <1>4. \E ep \in Kept(named) : member[ep].seed
    <2>1. CASE named[s].canonical = NoEndpoint
      BY <1>2, <2>1 DEF Kept
    <2>2. CASE named[s].canonical # NoEndpoint
      <3> DEFINE c == named[s].canonical
                 holders == {ep \in known : named[ep].canonical = c}
                 seeds == {ep \in holders : named[ep].seed}
      <3>1. s \in seeds
        BY <1>1, <1>2, <1>3
      <3>2. seeds \in SUBSET Nat /\ IsFiniteSet(seeds)
        <4>1. seeds \subseteq Endpoint
          BY <1>1
        <4> QED BY <4>1, FS_Subset, BalancerAssumption
      <3>3. PICK m \in seeds : \A n \in seeds : n <= m
        BY <3>1, <3>2, GreatestExists
      <3>4. m \in ByName(named, c)
        BY <3>3 DEF ByName
      <3>5. m \in known /\ named[m].canonical = c /\ named[m].seed
        BY <3>3
      <3>6. m \in Kept(named)
        BY <3>4, <3>5 DEF Kept
      <3> QED BY <1>1, <1>3, <3>5, <3>6
    <2> QED BY <2>1, <2>2
  <1>5. \A ep \in Kept(named) : member[ep].seed => LET a == Applied(dialed, rows)
                                                   IN  ep \in a.known /\ a.member[ep].seed
    BY <1>1, AppliedEffect DEF named
  <1> QED BY <1>4, <1>5

\* Every step keeps a seed among the members.
LEMMA SeedStep ==
    ASSUME Types, SeedRemains, [Next]_vars
    PROVE  SeedRemains'
  <1>1. known \subseteq Endpoint /\ member \in [Endpoint -> MemberType]
    BY DEF Types, MembersOK
  <1>2. ASSUME UNCHANGED known, \A e \in Endpoint : member'[e].seed = member[e].seed
        PROVE  SeedRemains'
    BY <1>1, <1>2 DEF SeedRemains
  <1>3. CASE Unmoved \/ \E ep : Reported(ep)
    BY <1>2, <1>3 DEF Unmoved, Reported, SameTies
  <1>4. CASE Relisted
    <2>1. PICK dialed : \E rows \in Listings : /\ known' = Applied(dialed, rows).known
                                               /\ member' = Applied(dialed, rows).member
      BY <1>4 DEF Relisted
    <2>2. PICK rows \in Listings : /\ known' = Applied(dialed, rows).known
                                   /\ member' = Applied(dialed, rows).member
      BY <2>1
    <2> QED BY <2>2, AppliedKeepsASeed DEF SeedRemains
  <1>5. CASE Tick
    <2>1. \A e \in Endpoint : member'[e].seed = member[e].seed
      BY <1>1, <1>5 DEF Tick, MemberType
    <2> QED BY <1>2, <1>5, <2>1 DEF Tick
  <1>6. ASSUME NEW ep \in Endpoint, ProbeAnswered(ep) \/ ProbeFailed(ep) \/ ProbeGone(ep)
        PROVE  SeedRemains'
    BY <1>2, <1>6, ProbeMembers
  <1>7. ASSUME NEW ep \in Endpoint, BackoffElapses(ep)
        PROVE  SeedRemains'
    <2>1. \A e \in Endpoint : member'[e].seed = member[e].seed
      BY <1>1, <1>7 DEF BackoffElapses, MemberType
    <2> QED BY <1>2, <1>7, <2>1 DEF BackoffElapses, table
  <1> QED BY <1>3, <1>4, <1>5, <1>6, <1>7, StepMembers

\* A configured endpoint remains among the members under any listings: names
\* that several seeds share, members that drop out, and listings folded in by
\* several threads never leave a dial without an endpoint to try.
THEOREM AlwaysSomewhereToDial == Spec => []SeedRemains
  <1>1. Init => SeedRemains
    <2>1. \A b : NewMember(b).seed = b
      BY DEF NewMember
    <2>2. SUFFICES ASSUME Init PROVE SeedRemains
      OBVIOUS
    <2>3. PICK s \in Seeds : s \in Endpoint
      BY BalancerAssumption
    <2>4. s \in known /\ member[s] = NewMember(s \in Seeds)
      BY <2>2, <2>3 DEF Init
    <2>5. member[s].seed = (s \in Seeds)
      BY <2>1, <2>4
    <2> QED BY <2>3, <2>4, <2>5 DEF SeedRemains
  <1>2. Spec => [](Types /\ SeedRemains)
    BY <1>1, InitTypes, StepTypes, SeedStep, PTL DEF Spec
  <1> QED BY <1>2, PTL

-----------------------------------------------------------------------------
(* Read-your-writes *)

\* order: the endpoint asked for is dialled first.
LEMMA OrderStartsWithFirst ==
    ASSUME MembersOK, NEW first \in known, NEW lost, NEW o \in Orders(first, lost)
    PROVE  Head(o) = first
  <1> DEFINE n == Cardinality(known)
             rank(ep) == CASE ep \in Usable -> 1
                           [] ep \notin Usable /\ member[ep].ejected = "no" -> 2
                           [] member[ep].ejected = "due" -> 3
                           [] member[ep].ejected = "waiting" -> 4
             place(ep) == IF ep = first THEN 0 ELSE IF ep = lost THEN 5 ELSE rank(ep)
  <1>1. IsFiniteSet(known) /\ n \in Nat
    BY FS_Subset, FS_CardinalityType, BalancerAssumption DEF MembersOK
  <1>2. place(first) = 0 /\ \A ep \in known : ep # first => place(ep) \in 1..5
    <2>1. \A ep \in known : rank(ep) \in 1..4
      BY DEF Usable, Admitted, MembersOK, MemberType
    <2> HIDE DEF rank
    <2> QED BY <2>1
  <1>3. /\ o \in [1..n -> known]
        /\ \A i, j \in 1..n : i < j => /\ o[i] # o[j]
                                       /\ place(o[i]) <= place(o[j])
    <2>1. /\ o \in [1..n -> known]
          /\ \A i, j \in 1..n :
                i < j => /\ o[i] # o[j]
                         /\ \/ place(o[i]) < place(o[j])
                            \/ /\ place(o[i]) = place(o[j])
                               /\ place(o[i]) = 2 => o[i] < o[j]
      BY DEF Orders
    <2> HIDE DEF place, n
    <2>2. \A i \in 1..n : place(o[i]) \in Nat
      BY <1>2, <2>1
    <2> QED BY <2>1, <2>2
  <1> HIDE DEF place
  <1>4. n > 0
    BY <1>1, FS_EmptySet
  <1>5. \E i \in 1..n : o[i] = first
    <2> SUFFICES ASSUME \A i \in 1..n : o[i] # first PROVE FALSE
      OBVIOUS
    <2> DEFINE S == 1..n
               R == known \ {first}
    <2>1. IsFiniteSet(S) /\ Cardinality(S) = n
      BY <1>1, <1>4, FS_Interval
    <2>2. IsFiniteSet(R) /\ Cardinality(R) = n - 1
      BY <1>1, FS_RemoveElement
    <2>3. o \in [S -> R]
      BY <1>3
    <2>4. \A x, y \in S : x # y => o[x] # o[y]
      BY <1>1, <1>3
    <2>5. Cardinality(R) < Cardinality(S)
      BY <1>1, <2>1, <2>2
    <2> HIDE DEF S, R, n
    <2>6. \E x, y \in S : x # y /\ o[x] = o[y]
      BY <2>1, <2>2, <2>3, <2>5, FS_PigeonHole
    <2> QED BY <2>4, <2>6
  <1>6. PICK i \in 1..n : o[i] = first
    BY <1>5
  <1>7. o[1] = first
    <2> SUFFICES ASSUME o[1] # first PROVE FALSE
      OBVIOUS
    <2>1. 1 \in 1..n /\ 1 < i
      BY <1>1, <1>4, <1>6
    <2>2. place(o[1]) <= place(first)
      BY <1>3, <1>6, <2>1
    <2>3. o[1] \in known
      BY <1>3, <2>1
    <2> QED BY <1>2, <2>2, <2>3
  <1> QED BY <1>7

\* The first critical section of a checkout under a key with a recent write.
LEMMA AttemptFollows ==
    ASSUME Types, NEW p \in Caller, NEW k \in Key, NEW n, Attempt(p, k, n), Sticky(k)
    PROVE  /\ key'[p] = k
           /\ pc'[p] = "count" => link'[p].member = affinity[k].member
           /\ pc'[p] = "dial" => Head(order'[p]) = affinity[k].member
  <1> DEFINE w == affinity[k].member
  <1>1. w \in known /\ w # NoEndpoint /\ MembersOK
    BY BalancerAssumption DEF Sticky, Usable, Types, MembersOK
  <1>2. /\ pc \in [Caller -> Step] /\ link \in [Caller -> LinkType]
        /\ order \in [Caller -> Seq(Endpoint)] /\ key \in [Caller -> Key]
    BY DEF Types, CallersOK
  <1>3. Pick(k) = {[target |-> w, rr |-> rr]}
    BY DEF Pick
  <1>4. key'[p] = k
    BY <1>2 DEF Attempt
  <1>5. \/ \E i \in FoundIdle(w) :
              /\ link' = [link EXCEPT ![p] = [NoLink EXCEPT !.member = idle[i]]]
              /\ Goto(p, "count")
        \/ /\ \E o \in Orders(w, NoEndpoint) : order' = [order EXCEPT ![p] = o]
           /\ Goto(p, "dial")
    <2>1. PICK c \in Pick(k) :
              \/ \E i \in FoundIdle(c.target) :
                    /\ link' = [link EXCEPT ![p] = [NoLink EXCEPT !.member = idle[i]]]
                    /\ Goto(p, "count")
              \/ /\ \E o \in Orders(c.target, NoEndpoint) : order' = [order EXCEPT ![p] = o]
                 /\ Goto(p, "dial")
      BY DEF Attempt
    <2>2. c.target = w
      BY <1>3, <2>1
    <2> QED BY <2>1, <2>2
  <1> HIDE DEF w
  <1>6. CASE \E i \in FoundIdle(w) :
                /\ link' = [link EXCEPT ![p] = [NoLink EXCEPT !.member = idle[i]]]
                /\ Goto(p, "count")
    <2>1. PICK i \in FoundIdle(w) :
                /\ link' = [link EXCEPT ![p] = [NoLink EXCEPT !.member = idle[i]]]
                /\ Goto(p, "count")
      BY <1>6
    <2>2. idle[i] = w
      BY <1>1, <2>1 DEF FoundIdle, Fits
    <2>3. link'[p].member = w /\ pc'[p] = "count"
      BY <1>2, <2>1, <2>2 DEF NoLink, Goto
    <2> QED BY <1>4, <2>3 DEF w
  <1>7. CASE /\ \E o \in Orders(w, NoEndpoint) : order' = [order EXCEPT ![p] = o]
             /\ Goto(p, "dial")
    <2>1. PICK o \in Orders(w, NoEndpoint) : order' = [order EXCEPT ![p] = o]
      BY <1>7
    <2>2. Head(o) = w
      BY <1>1, <2>1, OrderStartsWithFirst
    <2>3. Head(order'[p]) = w /\ pc'[p] = "dial"
      BY <1>2, <1>7, <2>1, <2>2 DEF Goto
    <2> QED BY <1>4, <2>3 DEF w
  <1> QED BY <1>5, <1>6, <1>7

\* A user who is in no call gets a connection to take or to dial from the first
\* critical section of checkout alone.
LEMMA CheckoutStarts ==
    ASSUME Types, Next, NEW t \in Task, pc[t] = "none", pc'[t] \in {"count", "dial"}
    PROVE  Acquire(t)
  <1>1. t \in Caller /\ t # Maintainer /\ pc \in [Caller -> Step]
    BY BalancerAssumption DEF Caller, Types, CallersOK
  <1>2. ASSUME NEW p, p # t, NEW step, Goto(p, step)
        PROVE  FALSE
    BY <1>1, <1>2 DEF Goto
  <1>3. ~UNCHANGED pc
    OBVIOUS
  <1>4. ASSUME NEW p \in Caller, CallStep(p)
        PROVE  FALSE
    <2>1. CASE p = t
      <3>1. CheckoutClosed(t)
        BY <1>4, <2>1 DEF CallStep, AttemptAgain, DialFails, DialExhausted, DialAnswers,
              Bind, DiscoverThrough, Count, StatementAnswered, StatementLost, Redial,
              RedialExhausted, RedialAnswers, Replay, ListThrough, FoldListing
      <3> QED BY <1>1, <3>1 DEF CheckoutClosed, CheckoutFails, Goto
    <2>2. CASE p # t
      <3>1. UNCHANGED pc \/ \E step : Goto(p, step)
        <4>1. CASE CheckoutFails(p)
          BY <4>1 DEF CheckoutFails
        <4> QED BY <1>4, <4>1 DEF CallStep, CheckoutClosed, AttemptAgain, Attempt, DialFails,
               DialExhausted, DialAnswers, Bind, DiscoverThrough, Count, StatementAnswered,
               StatementLost, Redial, RedialExhausted, RedialAnswers, Replay, ListThrough
      <3> QED BY <1>2, <1>3, <2>2, <3>1
    <2> QED BY <2>1, <2>2
  <1>5. ASSUME NEW u \in Task, UserStep(u)
        PROVE  Acquire(t)
    <2>1. CASE u = t
      BY <1>1, <1>5, <2>1 DEF UserStep, Reconnect, Wrote, Checkin, Discard
    <2>2. CASE u # t
      <3>1. \E step : Goto(u, step)
        BY <1>5 DEF UserStep, Acquire, Attempt, Reconnect, Wrote, Checkin, Discard, Returned
      <3> QED BY <1>2, <2>2, <3>1
    <2> QED BY <2>1, <2>2
  <1>6. ASSUME Close \/ Time
        PROVE  FALSE
    BY <1>3, <1>6 DEF Close, Time, BackoffElapses, RefreshElapses, WindowElapses
  <1>7. ASSUME MaintainerStep
        PROVE  FALSE
    <2>1. UNCHANGED pc \/ \E step : Goto(Maintainer, step)
      BY <1>7 DEF MaintainerStep, Tick, TickClosed, ProbesDone, ProbeAnswered, ProbeFailed,
         ProbeGone, Probing, Refresh, Attempt, RefreshFails, Checkin, Returned
    <2> QED BY <1>1, <1>2, <1>3, <2>1
  <1> QED BY <1>4, <1>5, <1>6, <1>7 DEF Next

\* Read-your-writes for every number of members, callers and keys: a checkout
\* while the window of its key's last write is open goes to the member that took
\* the write, by an idle connection or as the first endpoint dialled.
THEOREM WritesAreFollowed == Spec => ReadsFollowWrites
  <1> DEFINE A == \A t \in Task :
                    (pc[t] = "none" /\ pc'[t] \in {"count", "dial"} /\ ReadYourWrites)
                       => LET w == affinity[key'[t]]
                          IN  w.window = "open" /\ w.member \in Usable
                                 => IF pc'[t] = "count" THEN link'[t].member = w.member
                                    ELSE Head(order'[t]) = w.member
  <1>1. ASSUME Types, [Next]_vars
        PROVE  [A]_vars
    <2>1. SUFFICES ASSUME Next, NEW t \in Task, pc[t] = "none", pc'[t] \in {"count", "dial"},
                          ReadYourWrites, affinity[key'[t]].window = "open",
                          affinity[key'[t]].member \in Usable
                   PROVE  IF pc'[t] = "count" THEN link'[t].member = affinity[key'[t]].member
                          ELSE Head(order'[t]) = affinity[key'[t]].member
      BY <1>1
    <2>2. PICK k \in Key : Attempt(t, k, 1)
      BY <1>1, <2>1, CheckoutStarts DEF Acquire
    <2>3. t \in Caller
      BY DEF Caller
    <2>4. key'[t] = k
      BY <1>1, <2>2, <2>3 DEF Attempt, Types, CallersOK
    <2>5. Sticky(k)
      BY <2>1, <2>4 DEF Sticky
    <2> QED BY <1>1, <2>1, <2>2, <2>3, <2>4, <2>5, AttemptFollows
  <1> QED BY <1>1, InitTypes, StepTypes, PTL DEF Spec, ReadsFollowWrites

\* A remembered write is given up only to a newer write under its key, to the
\* end of its window, or with its member: neither the sweep of a full map nor
\* the checkouts of other threads forget it.
THEOREM WritesAreRemembered == Spec => OpenWindowsKept
  <1> DEFINE A == \A k \in DOMAIN affinity :
                    affinity[k].window = "open" /\ affinity[k].member \in known
                       => \/ affinity'[k] = affinity[k]
                          \/ affinity'[k] = [affinity[k] EXCEPT !.window = "over"]
                          \/ \E t \in Task : pc[t] = "wrote" /\ key[t] = k
                                            /\ affinity'[k].member = link[t].member
  <1>1. ASSUME Types, [Next]_vars
        PROVE  [A]_vars
    <2>1. affinity \in [Key -> AffinityType] /\ key \in [Caller -> Key]
      BY <1>1 DEF Types, PoolOK, CallersOK
    <2>2. SUFFICES ASSUME Next PROVE A
      BY <1>1
    <2>3. ASSUME NEW p, NEW k, NEW n, Attempt(p, k, n)
          PROVE  A
      <3>1. affinity' = Forget(k)
        BY <2>3 DEF Attempt
      <3> QED BY <2>1, <3>1 DEF Forget
    <2>4. ASSUME NEW t \in Task, Wrote(t)
          PROVE  A
      <3>1. /\ affinity' = [Swept EXCEPT ![key[t]] = [member |-> link[t].member,
                                                      window |-> "open"]]
            /\ pc[t] = "wrote"
        BY <2>4 DEF Wrote
      <3>2. Swept \in [Key -> AffinityType \cup {NoEntry}]
        BY <2>1 DEF Swept
      <3>3. \A k \in Key : affinity[k].window = "open" => Swept[k] = affinity[k]
        BY <2>1 DEF Swept
      <3>4. \A k \in Key : \/ k = key[t] /\ affinity'[k].member = link[t].member
                           \/ k # key[t] /\ affinity'[k] = Swept[k]
        BY <3>1, <3>2
      <3> QED BY <2>1, <3>1, <3>3, <3>4
    <2>5. ASSUME NEW k \in Key, WindowElapses(k)
          PROVE  A
      <3>1. affinity' = [affinity EXCEPT ![k] = [affinity[k] EXCEPT !.window = "over"]]
        BY <2>5 DEF WindowElapses
      <3> QED BY <2>1, <3>1
    <2>6. CASE UNCHANGED affinity
      BY <2>6
    <2>7. ASSUME NEW p \in Caller, CallStep(p)
          PROVE  A
      <3>1. AttemptAgain(p) \/ UNCHANGED affinity
        BY <2>7 DEF CallStep, CheckoutClosed, DialFails, DialExhausted, DialAnswers, Bind,
           DiscoverThrough, Count, StatementAnswered, StatementLost, Redial,
           RedialExhausted, RedialAnswers, Replay, ListThrough, table
      <3> QED BY <2>3, <2>6, <3>1 DEF AttemptAgain
    <2>8. ASSUME NEW t \in Task, UserStep(t)
          PROVE  A
      <3>1. (\E k \in Key : Attempt(t, k, 1)) \/ Wrote(t) \/ UNCHANGED affinity
        BY <2>8 DEF UserStep, Acquire, Reconnect, Checkin, Discard, Returned, table
      <3> QED BY <2>3, <2>4, <2>6, <3>1
    <2>9. ASSUME Close \/ RefreshElapses \/ \E ep \in Endpoint : BackoffElapses(ep)
          PROVE  A
      BY <2>6, <2>9 DEF Close, RefreshElapses, BackoffElapses, table
    <2>10. ASSUME MaintainerStep
           PROVE  A
      <3>1. Refresh \/ UNCHANGED affinity
        BY <2>10 DEF MaintainerStep, Tick, TickClosed, ProbesDone, ProbeAnswered, ProbeFailed,
           ProbeGone, Probing, RefreshFails, Checkin, Returned, table
      <3> QED BY <2>3, <2>6, <3>1 DEF Refresh
    <2> HIDE DEF A
    <2> QED BY <2>2, <2>5, <2>7, <2>8, <2>9, <2>10 DEF Next, Time
  <1> QED BY <1>1, InitTypes, StepTypes, PTL DEF Spec, OpenWindowsKept
=============================================================================
