----------------------------- MODULE RbacProofs -----------------------------
(***************************************************************************)
(* The answer of a query to the role store is the one inheritance gives,   *)
(* and nothing dropped or revoked comes back.  The invariant says how far a*)
(* walk has come: what it met is reached, and what is reached is met or    *)
(* awaited.                                                                *)
(***************************************************************************)
EXTENDS Rbac, FiniteSetTheorems, TLAPS

\* What a query asks, while one has the store: a check is about one object.
Questions ==
    {q \in [kind : {"check", "collect"}, role : RoleName, priv : Privilege, objects : SUBSET Object] :
        q.kind = "check" => \E o \in Object : q.objects = {o}}

RbacTypeOK ==
    /\ roles \subseteq RoleName
    /\ grants \in [RoleName -> SUBSET (Privilege \X Object)]
    /\ inherits \in [RoleName -> SUBSET RoleName]
    /\ question \in Questions \cup {NoQuestion}
    /\ visited \subseteq RoleName
    /\ pending \in Seq(SUBSET RoleName)
    /\ found \subseteq Object

\* A role that is gone has left nothing behind.
CleanSlate == \A r \in RoleName \ roles : grants[r] = {} /\ inherits[r] = {}

\* A name some open call has still to look at.
Awaited(r) == \E i \in 1 .. Len(pending) : r \in pending[i]

\* The walk stays among the roles the one asked about reaches.
WalkReached ==
    question # NoQuestion =>
        \A r \in RoleName : r \in visited \/ Awaited(r) => r \in Ancestry(question.role)

\* Until a check has succeeded, every parent of a role met is met or awaited.
WalkCloses ==
    question # NoQuestion /\ ~(question.kind = "check" /\ found # {}) =>
        /\ question.role \in visited \/ Awaited(question.role)
        /\ \A r \in visited \cap roles : \A q \in inherits[r] : q \in visited \/ Awaited(q)

\* What has been found is what the roles met hold.
WalkFinds ==
    question # NoQuestion =>
        found = {o \in question.objects : \E r \in visited \cap roles : o \in Hits(r)}

\* Each open call but the first has met a name of its own.
WalkDepth ==
    /\ question = NoQuestion => pending = <<>>
    /\ Len(pending) <= Cardinality(visited) + 1

RbacInv == RbacTypeOK /\ CleanSlate /\ WalkReached /\ WalkCloses /\ WalkFinds /\ WalkDepth
-----------------------------------------------------------------------------
(* The graph *)

LEMMA Edges ==
    ASSUME NEW a, NEW q
    PROVE  <<a, q>> \in ShownEdges <=> (a \in roles /\ q \in inherits[a])
BY DEF ShownEdges

LEMMA EdgeParts ==
    ASSUME NEW e \in ShownEdges
    PROVE  e[1] \in roles /\ e[2] \in inherits[e[1]]
BY DEF ShownEdges

LEMMA ListedGrants ==
    ASSUME NEW a, NEW g
    PROVE  <<a, g>> \in ShownGrants <=> (a \in roles /\ g \in grants[a])
BY DEF ShownGrants

LEMMA ReachesItself ==
    ASSUME NEW r \in RoleName
    PROVE  r \in Ancestry(r)
BY DEF Ancestry

LEMMA ReachesParents ==
    ASSUME NEW r \in RoleName, NEW a \in Ancestry(r), a \in roles,
           NEW q \in inherits[a], q \in RoleName
    PROVE  q \in Ancestry(r)
<1>1. SUFFICES ASSUME NEW S \in SUBSET RoleName, r \in S,
                      \A e \in ShownEdges : e[1] \in S => e[2] \in S
               PROVE  q \in S
  BY DEF Ancestry
<1>2. a \in S
  BY <1>1 DEF Ancestry
<1>3. <<a, q>> \in ShownEdges
  BY Edges
<1> QED
  BY <1>1, <1>2, <1>3

LEMMA ReachesLeast ==
    ASSUME NEW r, NEW S \in SUBSET RoleName, r \in S,
           \A a \in S \cap roles : inherits[a] \subseteq S
    PROVE  Ancestry(r) \subseteq S
<1>1. ASSUME NEW e \in ShownEdges, e[1] \in S
      PROVE  e[2] \in S
  BY <1>1, EdgeParts
<1> QED
  BY <1>1 DEF Ancestry

LEMMA SameStore ==
    ASSUME UNCHANGED storeVars
    PROVE  \A r : Ancestry(r)' = Ancestry(r) /\ Held(r)' = Held(r)
BY DEF storeVars, Ancestry, Held, ShownEdges, ShownGrants

-----------------------------------------------------------------------------
(* The open calls *)

\* The innermost call goes on after the parent r.
LEMMA Rest ==
    ASSUME pending \in Seq(SUBSET RoleName), pending # <<>>, NEW r \in pending[1],
           NEW rest, rest = <<pending[1] \ {r}>> \o Tail(pending)
    PROVE  /\ rest \in Seq(SUBSET RoleName)
           /\ Len(rest) = Len(pending)
           /\ rest[1] = pending[1] \ {r}
           /\ \A i \in 2 .. Len(pending) : rest[i] = pending[i]
<1>1. Len(pending) \in Nat \ {0} /\ pending[1] \in SUBSET RoleName
  OBVIOUS
<1>2. /\ Tail(pending) \in Seq(SUBSET RoleName)
      /\ Len(Tail(pending)) = Len(pending) - 1
      /\ \A i \in 1 .. Len(pending) - 1 : Tail(pending)[i] = pending[i + 1]
  BY <1>1
<1>3. <<pending[1] \ {r}>> \in Seq(SUBSET RoleName)
  BY <1>1
<1> QED
  BY <1>1, <1>2, <1>3

\* A call is opened inside the others.
LEMMA Opened ==
    ASSUME NEW rest \in Seq(SUBSET RoleName), NEW s \in SUBSET RoleName,
           NEW opened, opened = <<s>> \o rest
    PROVE  /\ opened \in Seq(SUBSET RoleName)
           /\ Len(opened) = Len(rest) + 1
           /\ opened[1] = s
           /\ \A i \in 1 .. Len(rest) : opened[i + 1] = rest[i]
OBVIOUS

LEMMA Returned ==
    ASSUME pending \in Seq(SUBSET RoleName), pending # <<>>
    PROVE  /\ Tail(pending) \in Seq(SUBSET RoleName)
           /\ Len(pending) \in Nat \ {0}
           /\ Len(Tail(pending)) = Len(pending) - 1
           /\ \A i \in 1 .. Len(pending) - 1 : Tail(pending)[i] = pending[i + 1]
OBVIOUS

-----------------------------------------------------------------------------
(* The walk *)

LEMMA RbacStarts == RbacInit => RbacInv
<1> SUFFICES ASSUME RbacInit PROVE RbacInv
  OBVIOUS
<1>1. Cardinality({}) = 0
  BY FS_EmptySet
<1>2. RbacTypeOK /\ CleanSlate
  BY DEF RbacInit, RbacTypeOK, CleanSlate
<1>3. WalkReached /\ WalkCloses /\ WalkFinds /\ WalkDepth
  BY <1>1 DEF RbacInit, WalkReached, WalkCloses, WalkFinds, WalkDepth
<1> QED
  BY <1>2, <1>3 DEF RbacInv

LEMMA AskKeeps ==
    ASSUME RbacInv, NEW kind \in {"check", "collect"}, NEW r \in RoleName, NEW p \in Privilege,
           NEW objects \in SUBSET Object, kind = "check" => \E o \in Object : objects = {o},
           Ask(kind, r, p, objects)
    PROVE  RbacInv'
<1>1. /\ question' = [kind |-> kind, role |-> r, priv |-> p, objects |-> objects]
      /\ visited' = {} /\ pending' = <<{r}>> /\ found' = {}
      /\ UNCHANGED storeVars
  BY DEF Ask
<1>2. /\ question' \in Questions
      /\ question'.kind = kind /\ question'.role = r
  BY <1>1 DEF Questions
<1>3. question' # NoQuestion
  BY <1>2 DEF NoQuestion
<1>4. RbacTypeOK' /\ CleanSlate'
  BY <1>1, <1>2 DEF RbacInv, RbacTypeOK, CleanSlate, storeVars
<1>5. \A q : Awaited(q)' <=> q = r
  BY <1>1 DEF Awaited
<1>6. WalkReached'
  BY <1>1, <1>2, <1>5, SameStore, ReachesItself DEF WalkReached
<1>7. WalkCloses'
  BY <1>1, <1>2, <1>5 DEF WalkCloses
<1>8. WalkFinds'
  BY <1>1 DEF WalkFinds
<1>9. WalkDepth'
  BY <1>1, <1>3, FS_EmptySet DEF WalkDepth
<1> QED
  BY <1>4, <1>6, <1>7, <1>8, <1>9 DEF RbacInv

LEMMA BackKeeps ==
    ASSUME RbacInv, Back
    PROVE  RbacInv'
<1>1. /\ pending # <<>> /\ pending[1] = {} /\ pending' = Tail(pending)
      /\ UNCHANGED storeVars /\ UNCHANGED <<question, visited, found>>
  BY DEF Back, storeVars
<1>2. RbacTypeOK /\ CleanSlate /\ WalkReached /\ WalkCloses /\ WalkFinds /\ WalkDepth
  BY DEF RbacInv
<1>3. /\ pending' \in Seq(SUBSET RoleName)
      /\ Len(pending) \in Nat \ {0}
      /\ Len(pending') = Len(pending) - 1
      /\ \A i \in 1 .. Len(pending) - 1 : pending'[i] = pending[i + 1]
  BY <1>1, <1>2, Returned DEF RbacTypeOK
<1>4. RbacTypeOK' /\ CleanSlate'
  BY <1>1, <1>2, <1>3 DEF RbacTypeOK, CleanSlate, storeVars
<1>5. \A q : Awaited(q)' <=> Awaited(q)
  <2>1. ASSUME NEW q, Awaited(q) PROVE Awaited(q)'
    <3>1. PICK i \in 1 .. Len(pending) : q \in pending[i]
      BY <2>1 DEF Awaited
    <3>2. i # 1 /\ i - 1 \in 1 .. Len(pending) - 1
      BY <1>1, <1>3, <3>1
    <3>3. q \in pending'[i - 1]
      BY <1>3, <3>1, <3>2
    <3> QED
      BY <1>3, <3>2, <3>3 DEF Awaited
  <2>2. ASSUME NEW q, Awaited(q)' PROVE Awaited(q)
    <3>1. PICK i \in 1 .. Len(pending) - 1 : q \in pending'[i]
      BY <1>3, <2>2 DEF Awaited
    <3>2. i + 1 \in 1 .. Len(pending) /\ q \in pending[i + 1]
      BY <1>3, <3>1
    <3> QED
      BY <3>2 DEF Awaited
  <2> QED
    BY <2>1, <2>2
<1>6. WalkReached'
  BY <1>1, <1>2, <1>5, SameStore DEF WalkReached
<1>7. WalkCloses'
  BY <1>1, <1>2, <1>5 DEF WalkCloses, storeVars
<1>8. WalkFinds'
  BY <1>1, <1>2 DEF WalkFinds, Hits, Direct, storeVars
<1>9. WalkDepth'
  <2>1. Cardinality(visited) \in Nat
    BY <1>2, RbacAssumption, FS_Subset, FS_CardinalityType DEF RbacTypeOK
  <2>2. question # NoQuestion
    BY <1>1, <1>2 DEF WalkDepth
  <2> QED
    BY <1>1, <1>2, <1>3, <2>1, <2>2 DEF WalkDepth
<1> QED
  BY <1>4, <1>6, <1>7, <1>8, <1>9 DEF RbacInv

\* What a visit does, whichever way it goes.
LEMMA VisitParts ==
    ASSUME RbacInv, Visit
    PROVE  \E r \in RoleName, rest \in Seq(SUBSET RoleName) :
              /\ pending # <<>> /\ r \in pending[1]
              /\ Len(rest) = Len(pending) /\ Len(pending) \in Nat \ {0}
              /\ rest[1] = pending[1] \ {r}
              /\ \A i \in 2 .. Len(pending) : rest[i] = pending[i]
              /\ visited' = visited \cup {r}
              /\ \/ (r \in visited \/ r \notin roles) /\ pending' = rest /\ found' = found
                 \/ /\ r \notin visited /\ r \in roles /\ found' = found \cup Hits(r)
                    /\ \/ question.kind = "check" /\ Hits(r) # {} /\ pending' = <<>>
                       \/ /\ ~(question.kind = "check" /\ Hits(r) # {})
                          /\ pending' = <<inherits[r]>> \o rest
              /\ question # NoQuestion
              /\ UNCHANGED <<storeVars, question>>
<1>1. /\ pending \in Seq(SUBSET RoleName) /\ pending # <<>>
      /\ Len(pending) \in Nat \ {0} /\ pending[1] \in SUBSET RoleName
      /\ question # NoQuestion /\ UNCHANGED <<storeVars, question>>
  BY DEF RbacInv, RbacTypeOK, WalkDepth, Visit, storeVars
<1>2. PICK r \in pending[1] :
         /\ visited' = Seen(r)
         /\ IF r \in visited \/ r \notin roles
            THEN pending' = <<pending[1] \ {r}>> \o Tail(pending) /\ UNCHANGED found
            ELSE /\ found' = found \cup Hits(r)
                 /\ pending' = IF question.kind = "check" /\ Hits(r) # {} THEN <<>>
                               ELSE <<inherits[r]>> \o (<<pending[1] \ {r}>> \o Tail(pending))
  BY DEF Visit
<1> DEFINE rest == <<pending[1] \ {r}>> \o Tail(pending)
<1>3. /\ rest \in Seq(SUBSET RoleName)
      /\ Len(rest) = Len(pending)
      /\ rest[1] = pending[1] \ {r}
      /\ \A i \in 2 .. Len(pending) : rest[i] = pending[i]
  BY <1>1, Rest
<1>4. r \in RoleName
  BY <1>1
<1> HIDE DEF rest
<1>5. /\ visited' = visited \cup {r}
      /\ \/ (r \in visited \/ r \notin roles) /\ pending' = rest /\ found' = found
         \/ /\ r \notin visited /\ r \in roles /\ found' = found \cup Hits(r)
            /\ \/ question.kind = "check" /\ Hits(r) # {} /\ pending' = <<>>
               \/ /\ ~(question.kind = "check" /\ Hits(r) # {})
                  /\ pending' = <<inherits[r]>> \o rest
  BY <1>2 DEF rest, Seen
<1> QED
  BY <1>1, <1>3, <1>4, <1>5

LEMMA VisitKeeps ==
    ASSUME RbacInv, Visit
    PROVE  RbacInv'
<1>1. RbacTypeOK /\ CleanSlate /\ WalkReached /\ WalkCloses /\ WalkFinds /\ WalkDepth
  BY DEF RbacInv
<1>2. PICK r \in RoleName, rest \in Seq(SUBSET RoleName) :
              /\ pending # <<>> /\ r \in pending[1]
              /\ Len(rest) = Len(pending) /\ Len(pending) \in Nat \ {0}
              /\ rest[1] = pending[1] \ {r}
              /\ \A i \in 2 .. Len(pending) : rest[i] = pending[i]
              /\ visited' = visited \cup {r}
              /\ \/ (r \in visited \/ r \notin roles) /\ pending' = rest /\ found' = found
                 \/ /\ r \notin visited /\ r \in roles /\ found' = found \cup Hits(r)
                    /\ \/ question.kind = "check" /\ Hits(r) # {} /\ pending' = <<>>
                       \/ /\ ~(question.kind = "check" /\ Hits(r) # {})
                          /\ pending' = <<inherits[r]>> \o rest
              /\ question # NoQuestion
              /\ UNCHANGED <<storeVars, question>>
  BY VisitParts
<1>3. /\ question \in Questions /\ question.role \in RoleName
      /\ question.objects \in SUBSET Object /\ question' = question
  BY <1>1, <1>2 DEF RbacTypeOK, Questions
<1>4. UNCHANGED storeVars /\ roles' = roles /\ grants' = grants /\ inherits' = inherits
  BY <1>2 DEF storeVars
<1>5. \A q : Hits(q)' = Hits(q)
  BY <1>3, <1>4 DEF Hits, Direct
<1>6. r \in Ancestry(question.role)
  BY <1>1, <1>2 DEF WalkReached, Awaited
<1>7. CleanSlate'
  BY <1>1, <1>4 DEF CleanSlate
<1>8. IsFiniteSet(visited) /\ Cardinality(visited) \in Nat
  BY <1>1, RbacAssumption, FS_Subset, FS_CardinalityType DEF RbacTypeOK
<1>9. r \notin visited => Cardinality(visited') = Cardinality(visited) + 1
  BY <1>2, <1>8, FS_AddElement
<1>10. r \in visited => visited' = visited
  BY <1>2
<1>11. \A q : (\E i \in 1 .. Len(rest) : q \in rest[i]) => Awaited(q)
  BY <1>2 DEF Awaited
<1>12. \A q : Awaited(q) /\ q # r => (\E i \in 1 .. Len(rest) : q \in rest[i])
  BY <1>2 DEF Awaited
<1>13. CASE (r \in visited \/ r \notin roles) /\ pending' = rest /\ found' = found
  <2>1. RbacTypeOK'
    BY <1>1, <1>2, <1>3, <1>4, <1>13 DEF RbacTypeOK
  <2>2. \A q : Awaited(q)' => Awaited(q)
    BY <1>11, <1>13 DEF Awaited
  <2>3. \A q : Awaited(q) /\ q # r => Awaited(q)'
    BY <1>12, <1>13 DEF Awaited
  <2>4. WalkReached'
    BY <1>1, <1>2, <1>3, <1>4, <1>6, <2>2, SameStore DEF WalkReached
  <2>5. WalkCloses'
    BY <1>1, <1>2, <1>3, <1>4, <1>13, <2>3 DEF WalkCloses
  <2>6. visited' \cap roles' = visited \cap roles
    BY <1>2, <1>4, <1>13
  <2>7. WalkFinds'
    BY <1>1, <1>2, <1>3, <1>5, <1>13, <2>6 DEF WalkFinds
  <2>8. WalkDepth'
    <3>1. Len(pending') = Len(pending) /\ Len(pending) <= Cardinality(visited) + 1
      BY <1>1, <1>2, <1>13 DEF WalkDepth
    <3>2. Cardinality(visited') \in {Cardinality(visited), Cardinality(visited) + 1}
      BY <1>9, <1>10
    <3>3. Len(pending') <= Cardinality(visited') + 1
      BY <1>2, <1>8, <3>1, <3>2
    <3> QED
      BY <1>2, <1>3, <3>3 DEF WalkDepth
  <2> QED
    BY <1>7, <2>1, <2>4, <2>5, <2>7, <2>8 DEF RbacInv
<1>14. ASSUME r \notin visited, r \in roles, found' = found \cup Hits(r)
       PROVE  WalkFinds' /\ found' \subseteq Object
  <2>1. found = {o \in question.objects : \E q \in visited \cap roles : o \in Hits(q)}
    BY <1>1, <1>2 DEF WalkFinds
  <2>2. Hits(r) \subseteq question.objects
    BY DEF Hits
  <2>3. found' = {o \in question.objects : \E q \in visited' \cap roles : o \in Hits(q)}
    BY <1>2, <1>14, <2>1, <2>2
  <2>4. found' \subseteq Object
    BY <1>3, <2>3
  <2>5. \A o : (\E q \in visited' \cap roles' : o \in Hits(q)') <=> (\E q \in visited' \cap roles : o \in Hits(q))
    BY <1>4, <1>5
  <2>6. WalkFinds'
    BY <1>3, <2>3, <2>5 DEF WalkFinds
  <2> QED
    BY <2>4, <2>6
<1>15. CASE /\ r \notin visited /\ r \in roles /\ found' = found \cup Hits(r)
            /\ question.kind = "check" /\ Hits(r) # {} /\ pending' = <<>>
  <2>1. RbacTypeOK'
    BY <1>1, <1>2, <1>3, <1>4, <1>14, <1>15 DEF RbacTypeOK
  <2>2. \A q : ~Awaited(q)'
    BY <1>15 DEF Awaited
  <2>3. WalkReached'
    BY <1>1, <1>2, <1>3, <1>4, <1>6, <2>2, SameStore DEF WalkReached
  <2>4. WalkCloses'
    BY <1>3, <1>15 DEF WalkCloses
  <2>5. WalkDepth'
    BY <1>2, <1>3, <1>8, <1>9, <1>15 DEF WalkDepth
  <2> QED
    BY <1>7, <1>14, <1>15, <2>1, <2>3, <2>4, <2>5 DEF RbacInv
<1>16. CASE /\ r \notin visited /\ r \in roles /\ found' = found \cup Hits(r)
            /\ ~(question.kind = "check" /\ Hits(r) # {})
            /\ pending' = <<inherits[r]>> \o rest
  <2>1. inherits[r] \in SUBSET RoleName
    BY <1>1 DEF RbacTypeOK
  <2>2. /\ pending' \in Seq(SUBSET RoleName)
        /\ Len(pending') = Len(rest) + 1
        /\ pending'[1] = inherits[r]
        /\ \A i \in 1 .. Len(rest) : pending'[i + 1] = rest[i]
    BY <1>16, <2>1, Opened
  <2>3. RbacTypeOK'
    BY <1>1, <1>2, <1>3, <1>4, <1>14, <1>16, <2>2 DEF RbacTypeOK
  <2>4. \A q : Awaited(q)' => Awaited(q) \/ q \in inherits[r]
    <3>1. SUFFICES ASSUME NEW q, NEW i \in 1 .. Len(rest) + 1, q \in pending'[i], q \notin inherits[r]
                   PROVE  Awaited(q)
      BY <2>2 DEF Awaited
    <3>2. i # 1 /\ i - 1 \in 1 .. Len(rest) /\ q \in rest[i - 1]
      BY <1>2, <2>2, <3>1
    <3> QED
      BY <1>11, <3>2
  <2>5. \A q \in inherits[r] : Awaited(q)'
    BY <1>2, <2>2 DEF Awaited
  <2>6. \A q : Awaited(q) /\ q # r => Awaited(q)'
    <3>1. SUFFICES ASSUME NEW q, NEW i \in 1 .. Len(rest), q \in rest[i]
                   PROVE  Awaited(q)'
      BY <1>12
    <3>2. i + 1 \in 1 .. Len(pending') /\ q \in pending'[i + 1]
      BY <1>2, <2>2, <3>1
    <3> QED
      BY <3>2 DEF Awaited
  <2>7. \A q \in inherits[r] : q \in Ancestry(question.role)
    BY <1>3, <1>6, <1>16, <2>1, ReachesParents
  <2>8. WalkReached'
    BY <1>1, <1>2, <1>3, <1>4, <1>6, <2>4, <2>7, SameStore DEF WalkReached
  <2>9. WalkCloses'
    <3>1. ~(question.kind = "check" /\ found' # {}) => ~(question.kind = "check" /\ found # {})
      BY <1>16
    <3> QED
      BY <1>1, <1>2, <1>3, <1>4, <2>5, <2>6, <3>1 DEF WalkCloses
  <2>10. WalkDepth'
    BY <1>1, <1>2, <1>3, <1>8, <1>9, <1>16, <2>2 DEF WalkDepth
  <2> QED
    BY <1>7, <1>14, <1>16, <2>3, <2>8, <2>9, <2>10 DEF RbacInv
<1> QED
  BY <1>2, <1>13, <1>15, <1>16

LEMMA ConcludeKeeps ==
    ASSUME RbacInv, Conclude
    PROVE  RbacInv'
<1>1. /\ question' = NoQuestion /\ visited' = {} /\ found' = {} /\ pending' = <<>>
      /\ roles' = roles /\ grants' = grants /\ inherits' = inherits
  BY DEF Conclude
<1>2. RbacTypeOK' /\ CleanSlate'
  BY <1>1 DEF RbacInv, RbacTypeOK, CleanSlate
<1>3. WalkReached' /\ WalkCloses' /\ WalkFinds'
  BY <1>1 DEF WalkReached, WalkCloses, WalkFinds
<1>4. WalkDepth'
  BY <1>1, FS_EmptySet DEF WalkDepth
<1> QED
  BY <1>2, <1>3, <1>4 DEF RbacInv

-----------------------------------------------------------------------------
(* Changes of the store *)

\* No query has the store while it changes: what is left to show is that it
\* stays well-formed.
LEMMA ChangeFrame ==
    ASSUME RbacInv, question = NoQuestion, UNCHANGED walkVars,
           roles' \subseteq RoleName,
           grants' \in [RoleName -> SUBSET (Privilege \X Object)],
           inherits' \in [RoleName -> SUBSET RoleName],
           CleanSlate'
    PROVE  RbacInv'
<1>1. UNCHANGED <<question, visited, pending, found>>
  BY DEF walkVars
<1>2. RbacTypeOK'
  BY <1>1 DEF RbacInv, RbacTypeOK
<1>3. WalkReached' /\ WalkCloses' /\ WalkFinds'
  BY <1>1 DEF WalkReached, WalkCloses, WalkFinds
<1>4. WalkDepth'
  BY <1>1 DEF RbacInv, WalkDepth
<1> QED
  BY <1>2, <1>3, <1>4 DEF RbacInv

LEMMA ChangeKeeps ==
    ASSUME RbacInv, Change
    PROVE  RbacInv'
<1>1. question = NoQuestion /\ UNCHANGED walkVars
  BY DEF Change
<1>2. /\ roles \subseteq RoleName
      /\ grants \in [RoleName -> SUBSET (Privilege \X Object)]
      /\ inherits \in [RoleName -> SUBSET RoleName]
      /\ CleanSlate
  BY DEF RbacInv, RbacTypeOK
<1>3. PICK r \in RoleName :
         \/ create_role(r)
         \/ create_superuser(r)
         \/ drop_role(r)
         \/ \E g \in Grantable : grant(r, g) \/ revoke(r, g)
         \/ \E parent \in RoleName : grant_role(r, parent) \/ revoke_role(r, parent)
  BY DEF Change
<1>4. <<Admin, Global>> \in Privilege \X Object /\ Grantable \subseteq Privilege \X Object
  BY RbacAssumption
<1>5. CASE create_role(r)
  BY <1>1, <1>2, <1>5, ChangeFrame DEF create_role, CleanSlate
<1>6. CASE create_superuser(r)
  <2>1. /\ roles' = roles \cup {r} /\ inherits' = inherits
        /\ grants' = [grants EXCEPT ![r] = @ \cup {<<Admin, Global>>}]
    BY <1>6 DEF create_superuser
  <2>2. grants' \in [RoleName -> SUBSET (Privilege \X Object)]
    BY <1>2, <1>4, <2>1
  <2>3. CleanSlate'
    BY <1>2, <2>1 DEF CleanSlate
  <2> QED
    BY <1>1, <1>2, <2>1, <2>2, <2>3, ChangeFrame
<1>7. CASE drop_role(r)
  BY <1>1, <1>2, <1>7, ChangeFrame DEF drop_role, CleanSlate
<1>8. ASSUME NEW g \in Grantable, grant(r, g)
      PROVE  RbacInv'
  <2>1. /\ r \in roles /\ roles' = roles /\ inherits' = inherits
        /\ grants' = [grants EXCEPT ![r] = @ \cup {g}]
    BY <1>8 DEF grant
  <2>2. grants' \in [RoleName -> SUBSET (Privilege \X Object)]
    BY <1>2, <1>4, <2>1
  <2>3. CleanSlate'
    BY <1>2, <2>1 DEF CleanSlate
  <2> QED
    BY <1>1, <1>2, <2>1, <2>2, <2>3, ChangeFrame
<1>9. ASSUME NEW g \in Grantable, revoke(r, g)
      PROVE  RbacInv'
  BY <1>1, <1>2, <1>9, ChangeFrame DEF revoke, CleanSlate
<1>10. ASSUME NEW parent \in RoleName, grant_role(r, parent)
       PROVE  RbacInv'
  BY <1>1, <1>2, <1>10, ChangeFrame DEF grant_role, CleanSlate
<1>11. ASSUME NEW parent \in RoleName, revoke_role(r, parent)
       PROVE  RbacInv'
  BY <1>1, <1>2, <1>11, ChangeFrame DEF revoke_role, CleanSlate
<1> QED
  BY <1>3, <1>5, <1>6, <1>7, <1>8, <1>9, <1>10, <1>11

LEMMA RbacSteps ==
    ASSUME RbacInv, [RbacNext]_rbacVars
    PROVE  RbacInv'
<1>1. CASE UNCHANGED rbacVars
  <2>1. question' = question /\ UNCHANGED <<roles, grants, inherits, visited, pending, found>>
    BY <1>1 DEF rbacVars
  <2>2. RbacTypeOK' /\ CleanSlate' /\ WalkDepth'
    BY <2>1 DEF RbacInv, RbacTypeOK, CleanSlate, WalkDepth
  <2>3. WalkReached' /\ WalkCloses'
    BY <2>1, SameStore DEF RbacInv, WalkReached, WalkCloses, Awaited, storeVars
  <2>4. WalkFinds'
    BY <2>1 DEF RbacInv, WalkFinds, Hits, Direct
  <2> QED
    BY <2>2, <2>3, <2>4 DEF RbacInv
<1>2. CASE Change
  BY <1>2, ChangeKeeps
<1>3. ASSUME NEW r \in RoleName, NEW p \in Privilege, NEW o \in Object, has_privilege(r, p, o)
      PROVE  RbacInv'
  BY <1>3, AskKeeps DEF has_privilege
<1>4. Column \in SUBSET Object /\ Topic \in SUBSET Object
  BY RbacAssumption
<1>5. ASSUME NEW r \in RoleName, NEW p \in Privilege, columns(r, p) \/ mqtt_filters(r, p)
      PROVE  RbacInv'
  BY <1>4, <1>5, AskKeeps DEF columns, mqtt_filters
<1> QED
  BY <1>1, <1>2, <1>3, <1>5, VisitKeeps, BackKeeps, ConcludeKeeps DEF RbacNext, Query

-----------------------------------------------------------------------------
(* Answers *)

LEMMA HeldBy ==
    ASSUME NEW r, NEW p \in Privilege, NEW o \in Object
    PROVE  <<p, o>> \in Held(r) <=> \E a \in Ancestry(r) \cap roles : <<p, o>> \in grants[a]
<1>1. <<p, o>> \in Held(r) <=> \E a \in Ancestry(r) : <<a, <<p, o>>>> \in ShownGrants
  BY DEF Held
<1> QED
  BY <1>1, ListedGrants

LEMMA CoveredBy ==
    ASSUME NEW r, NEW p \in Privilege, NEW o \in Object
    PROVE  Covered(r, p, o) <=> \E a \in Ancestry(r) \cap roles : Direct(a, p, o)
<1>1. Admin \in Privilege /\ Global \in Object
  BY RbacAssumption
<1>2. {p, Admin} \X {o, Global} = {<<Admin, Global>>, <<p, o>>, <<p, Global>>, <<Admin, o>>}
  OBVIOUS
<1>3. Covered(r, p, o) <=> \/ <<Admin, Global>> \in Held(r) \/ <<p, o>> \in Held(r)
                           \/ <<p, Global>> \in Held(r) \/ <<Admin, o>> \in Held(r)
  BY <1>2 DEF Covered
<1>4. \A a : Direct(a, p, o) <=> \/ <<Admin, Global>> \in grants[a] \/ <<p, o>> \in grants[a]
                                 \/ <<p, Global>> \in grants[a] \/ <<Admin, o>> \in grants[a]
  BY DEF Direct
<1> QED
  BY <1>1, <1>3, <1>4, HeldBy

\* The walk has ended: what it met is what is reached, or a check succeeded at
\* a role that is reached.
LEMMA AnswersFollow ==
    ASSUME RbacInv
    PROVE  FollowsInheritance
<1>1. Len(pending) <= Cardinality(visited) + 1
  BY DEF RbacInv, WalkDepth
<1>2. ASSUME question # NoQuestion, pending = <<>>
      PROVE  found = {o \in question.objects :
                      IF question.kind = "check" THEN Covered(question.role, question.priv, o)
                      ELSE <<question.priv, o>> \in Held(question.role)}
  <2> DEFINE r == question.role
             p == question.priv
  <2>1. /\ question \in Questions /\ r \in RoleName /\ p \in Privilege
        /\ question.objects \in SUBSET Object /\ question.kind \in {"check", "collect"}
        /\ question.kind = "check" => \E o \in Object : question.objects = {o}
    BY <1>2 DEF RbacInv, RbacTypeOK, Questions
  <2>2. found = {o \in question.objects : \E a \in visited \cap roles : o \in Hits(a)}
    BY <1>2 DEF RbacInv, WalkFinds
  <2>3. visited \subseteq Ancestry(r) /\ visited \subseteq RoleName
    BY <1>2 DEF RbacInv, RbacTypeOK, WalkReached
  <2>4. \A o \in question.objects, a \in roles :
           o \in Hits(a) <=> IF question.kind = "check" THEN Direct(a, p, o) ELSE <<p, o>> \in grants[a]
    BY DEF Hits
  <2> HIDE DEF r, p
  <2>5. ASSUME NEW o \in question.objects
        PROVE  (IF question.kind = "check" THEN Covered(r, p, o) ELSE <<p, o>> \in Held(r))
                  <=> \E a \in Ancestry(r) \cap roles : o \in Hits(a)
    BY <2>1, <2>4, HeldBy, CoveredBy
  <2>6. CASE question.kind = "check" /\ found # {}
    <3>1. PICK o \in Object : question.objects = {o} /\ found = {o}
      BY <2>1, <2>2, <2>6
    <3>2. \E a \in Ancestry(r) \cap roles : o \in Hits(a)
      BY <2>2, <2>3, <3>1
    <3> QED
      BY <2>5, <2>6, <3>1, <3>2 DEF r, p
  <2>7. CASE ~(question.kind = "check" /\ found # {})
    <3>1. \A q : ~Awaited(q)
      BY <1>2 DEF Awaited
    <3>2. r \in visited /\ \A a \in visited \cap roles : inherits[a] \subseteq visited
      BY <1>2, <2>7, <3>1 DEF RbacInv, WalkCloses, r
    <3>3. Ancestry(r) = visited
      BY <2>3, <3>2, ReachesLeast
    <3> QED
      BY <2>2, <2>5, <3>3 DEF r, p
  <2> QED
    BY <2>6, <2>7
<1> QED
  BY <1>1, <1>2 DEF FollowsInheritance

\* FollowsInheritance: whatever roles, grants and inheritance edges the store
\* has come to hold, has_privilege, columns and mqtt_filters answer what the
\* listed grants of the roles reached say, and their recursion is bounded.
THEOREM RolesExplained == RbacSpec => []FollowsInheritance
BY RbacStarts, RbacSteps, AnswersFollow, PTL DEF RbacSpec

-----------------------------------------------------------------------------
(* Roles that come and go *)

\* Fewer edges reach fewer roles.
LEMMA ReachesFewer ==
    ASSUME ShownEdges' \subseteq ShownEdges, NEW r
    PROVE  Ancestry(r)' \subseteq Ancestry(r)
BY DEF Ancestry

LEMMA HoldsFewer ==
    ASSUME ShownEdges' \subseteq ShownEdges, ShownGrants' \subseteq ShownGrants
    PROVE  Entitled' \subseteq Entitled
<1>1. ASSUME NEW r PROVE Held(r)' \subseteq Held(r)
  BY ReachesFewer DEF Held
<1> QED
  BY <1>1 DEF Entitled

LEMMA NothingRevivedStep ==
    ASSUME RbacInv, [RbacNext]_rbacVars, roles' # roles
    PROVE  \/ Entitled' \subseteq Entitled
           \/ /\ \E r \in RoleName : create_superuser(r)
              /\ Entitled' \subseteq Entitled \cup (RoleName \X {<<Admin, Global>>})
<1>1. Change
  BY DEF RbacNext, Query, rbacVars, has_privilege, columns, mqtt_filters, Ask, storeVars, Visit, Back, Conclude
<1>2. PICK r \in RoleName : create_role(r) \/ create_superuser(r) \/ drop_role(r)
  BY <1>1 DEF Change, grant, revoke, grant_role, revoke_role
<1>3. /\ roles \subseteq RoleName /\ CleanSlate
      /\ grants \in [RoleName -> SUBSET (Privilege \X Object)]
      /\ inherits \in [RoleName -> SUBSET RoleName]
  BY DEF RbacInv, RbacTypeOK
<1>4. CASE create_role(r)
  <2>1. /\ roles' = roles \cup {r} /\ grants' = grants /\ inherits' = inherits
        /\ grants[r] = {} /\ inherits[r] = {}
    BY <1>3, <1>4 DEF create_role, CleanSlate
  <2>2. ShownEdges' \subseteq ShownEdges /\ ShownGrants' \subseteq ShownGrants
    BY <2>1 DEF ShownEdges, ShownGrants
  <2> QED
    BY <2>2, HoldsFewer
<1>5. CASE drop_role(r)
  <2>1. /\ roles' = roles \ {r}
        /\ \A a \in roles' : grants'[a] = grants[a] /\ inherits'[a] = inherits[a]
    BY <1>3, <1>5 DEF drop_role
  <2>2. ShownEdges' \subseteq ShownEdges /\ ShownGrants' \subseteq ShownGrants
    BY <2>1 DEF ShownEdges, ShownGrants
  <2> QED
    BY <2>2, HoldsFewer
<1>6. CASE create_superuser(r)
  <2>1. /\ roles' = roles \cup {r} /\ inherits' = inherits /\ inherits[r] = {} /\ grants[r] = {}
        /\ \A a \in RoleName : grants'[a] \subseteq grants[a] \cup {<<Admin, Global>>}
        /\ \A a \in RoleName : a # r => grants'[a] = grants[a]
    BY <1>3, <1>6 DEF create_superuser, CleanSlate
  <2>2. ShownEdges' \subseteq ShownEdges
    BY <2>1 DEF ShownEdges
  <2>3. ASSUME NEW a, NEW g, <<a, g>> \in ShownGrants', g # <<Admin, Global>>
        PROVE  <<a, g>> \in ShownGrants
    <3>1. a \in roles' /\ g \in grants'[a]
      BY <2>3 DEF ShownGrants
    <3>2. a # r
      BY <1>3, <2>1, <2>3, <3>1
    <3> QED
      BY <1>3, <2>1, <3>1, <3>2, ListedGrants
  <2>4. ASSUME NEW x \in RoleName PROVE Held(x)' \subseteq Held(x) \cup {<<Admin, Global>>}
    BY <2>2, <2>3, ReachesFewer DEF Held
  <2>5. Entitled' \subseteq Entitled \cup (RoleName \X {<<Admin, Global>>})
    BY <2>4 DEF Entitled
  <2> QED
    BY <1>6, <2>5
<1> QED
  BY <1>2, <1>4, <1>5, <1>6

\* NothingRevived: a role that is created, whatever was dropped before it and
\* whoever still names it, brings no grant but a superuser's own.
THEOREM RolesNeverRevived == RbacSpec => NothingRevived
<1>1. RbacInv /\ [RbacNext]_rbacVars =>
        [roles' # roles =>
            \/ Entitled' \subseteq Entitled
            \/ /\ \E r \in RoleName : create_superuser(r)
               /\ Entitled' \subseteq Entitled \cup (RoleName \X {<<Admin, Global>>})]_rbacVars
  BY NothingRevivedStep
<1> QED
  BY <1>1, RbacStarts, RbacSteps, PTL DEF RbacSpec, NothingRevived
=============================================================================
