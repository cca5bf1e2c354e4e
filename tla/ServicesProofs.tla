--------------------------- MODULE ServicesProofs ---------------------------
(***************************************************************************)
(* Proofs about four parts that share no state with the others: the cached *)
(* directory size, the ejection of slow members, the pointers of the C     *)
(* library and the closure-built pool.                                     *)
(***************************************************************************)
EXTENDS DirSize, Latency, Ffi, FactoryPool, SequenceTheorems, TLAPS

(* Directory size: the flag is right for any number of readers. *)

DirSizeSpec == DirSizeInit /\ [][DirSizeNext]_dirVars

Starting(t) == at[t] = "spawn"

\* The inductive invariant: FlagIsWalk taken apart, and the places the
\* background thread can be in.
Flagged ==
    /\ refreshing \in BOOLEAN
    /\ at \in [Reader \union {Background} -> {"idle", "compare", "swap", "spawn", "walk", "store", "stamp", "lower"}]
    /\ at[Background] \in {"idle", "walk", "store", "stamp", "lower"}
    /\ \A t \in Reader : at[t] # "lower"
    /\ \A t, u \in Reader : Starting(t) /\ Starting(u) => t = u
    /\ \A t \in Reader : Starting(t) => refreshing = TRUE /\ at[Background] = "idle"
    /\ at[Background] # "idle" => refreshing = TRUE
    /\ refreshing = TRUE => at[Background] # "idle" \/ \E t \in Reader : Starting(t)

\* Steps that move one thread, start no walk and leave the flag alone.
LEMMA Moves ==
    ASSUME Flagged, NEW t \in Reader \union {Background}, NEW where \in {"idle", "compare", "swap", "walk", "store", "stamp", "lower"},
           at[t] # "spawn", At(t, where), refreshing' = refreshing,
           t = Background => at[t] # "idle" /\ where \in {"store", "stamp", "lower"},
           t # Background => where # "lower"
    PROVE  Flagged'
BY DirSizeAssumption DEF Flagged, Starting, At, DirSizeAssumption

\* The race for the flag: one reader wins it, and only when no walk runs.
LEMMA SwapKeeps ==
    ASSUME Flagged, NEW t \in Reader, Swap(t)
    PROVE  Flagged'
<1>1. at[t] = "swap" /\ refreshing' = TRUE
  BY DEF Swap
<1>2. CASE refreshing = TRUE
  <2>1. at' = [at EXCEPT ![t] = "idle"]
    BY <1>2 DEF Swap, At
  <2> QED BY <1>1, <1>2, <2>1, DirSizeAssumption DEF Flagged, Starting, DirSizeAssumption
<1>3. CASE refreshing = FALSE
  <2>1. at' = [at EXCEPT ![t] = "spawn"]
    BY <1>3 DEF Swap, At
  <2> QED BY <1>1, <1>3, <2>1, DirSizeAssumption DEF Flagged, Starting, DirSizeAssumption
<1> QED BY <1>2, <1>3 DEF Flagged

\* The thread that won the flag hands it to the walk, or lowers it.
LEMMA SpawnKeeps ==
    ASSUME Flagged, NEW t \in Reader, Spawn(t)
    PROVE  Flagged'
<1>1. at[t] = "spawn"
  BY DEF Spawn
<1>2. CASE at' = [at EXCEPT ![t] = "idle", ![Background] = "walk"] /\ refreshing' = refreshing
  BY <1>1, <1>2, DirSizeAssumption DEF Flagged, Starting, DirSizeAssumption
<1>3. CASE SpawnFailed(t)
  <2>1. at' = [at EXCEPT ![t] = "idle"] /\ refreshing' = FALSE
    BY <1>3 DEF SpawnFailed, At
  <2> QED BY <1>1, <2>1, DirSizeAssumption DEF Flagged, Starting, DirSizeAssumption
<1> QED BY <1>2, <1>3 DEF Spawn

\* The walk that is over lowers it.
LEMMA LowerKeeps ==
    ASSUME Flagged, Lower(Background)
    PROVE  Flagged'
<1>1. at[Background] = "lower" /\ at' = [at EXCEPT ![Background] = "idle"] /\ refreshing' = FALSE
  BY DEF Lower, At
<1> QED BY <1>1, DirSizeAssumption DEF Flagged, Starting, DirSizeAssumption

\* The flag is up exactly while one background walk is started or runs, for any
\* number of readers and whichever spawns fail (refresh_in_background).
THEOREM FlagAlwaysWalk == DirSizeSpec => []FlagIsWalk
<1>1. DirSizeInit => Flagged
  BY DirSizeAssumption DEF DirSizeInit, Flagged, Starting, DirSizeAssumption
<1>2. Flagged /\ [DirSizeNext]_dirVars => Flagged'
  <2> SUFFICES ASSUME Flagged, [DirSizeNext]_dirVars PROVE Flagged'
    OBVIOUS
  <2>1. ASSUME NEW t \in Reader \union {Background},
               Load(t) \/ Compare(t) \/ refresh_now(t) \/ walk(t) \/ Store(t) \/ Stamp(t)
        PROVE  Flagged'
    <3>1. refreshing' = refreshing
      BY <2>1 DEF Load, Compare, refresh_now, walk, Store, Stamp
    <3>2. PICK where \in {"idle", "compare", "swap", "walk", "store", "stamp", "lower"} : At(t, where) /\ at[t] # "spawn"
             /\ (t = Background => at[t] # "idle" /\ where \in {"store", "stamp", "lower"})
             /\ (t # Background => where # "lower")
      BY <2>1 DEF Load, Compare, refresh_now, walk, Store, Stamp, Flagged
    <3> QED BY <3>1, <3>2, Moves
  <2>2. ASSUME NEW t \in Reader \union {Background}, Swap(t)
        PROVE  Flagged'
    <3>1. t \in Reader
      BY <2>2 DEF Swap, Flagged
    <3> QED BY <2>2, <3>1, SwapKeeps
  <2>3. ASSUME NEW t \in Reader \union {Background}, Spawn(t)
        PROVE  Flagged'
    <3>1. t \in Reader
      BY <2>3 DEF Spawn, Flagged
    <3> QED BY <2>3, <3>1, SpawnKeeps
  <2>4. ASSUME NEW t \in Reader \union {Background}, Lower(t)
        PROVE  Flagged'
    <3>1. t = Background
      BY <2>4 DEF Lower, Flagged
    <3> QED BY <2>4, <3>1, LowerKeeps
  <2>5. CASE Grow \/ Tick \/ UNCHANGED dirVars
    <3>1. at' = at /\ refreshing' = refreshing
      BY <2>5 DEF Grow, Tick, dirVars
    <3> QED BY <3>1 DEF Flagged, Starting
  <2> QED BY <2>1, <2>2, <2>3, <2>4, <2>5 DEF DirSizeNext
<1>3. Flagged => FlagIsWalk
  <2> SUFFICES ASSUME Flagged PROVE FlagIsWalk
    OBVIOUS
  <2> DEFINE starting == {t \in Reader : at[t] = "spawn"}
  <2>1. at[Background] # "idle" => refreshing /\ starting = {}
    BY DEF Flagged, Starting
  <2>2. at[Background] = "idle" /\ refreshing => \E t \in Reader : starting = {t}
    BY DEF Flagged, Starting
  <2>3. at[Background] = "idle" /\ ~refreshing => starting = {}
    BY DEF Flagged, Starting
  <2> QED BY <2>1, <2>2, <2>3 DEF FlagIsWalk
<1> QED BY <1>1, <1>2, <1>3, PTL DEF DirSizeSpec

-----------------------------------------------------------------------------
(* Latency: one slow round trip never ejects a healthy member, for all      *)
(* times, floors, backoffs and peers, once the factor is at least 2 and the  *)
(* average is seeded from at least two samples (the code's defaults are 3    *)
(* and 3).                                                                   *)

LatencySpec == LatencyInit /\ [][LatencyNext]_latVars

Top == IF Fast < Floor THEN Floor ELSE Fast

\* The average of a member with at most one slow sample: it was seeded at Fast
\* or below and one clamped sample has lifted it since.
Lifted(avg) == 20 * avg <= 19 * Fast + 10 * Top

LatencyTypeOK ==
    /\ stage \in {"seeding", "seeded"} /\ ewma \in Nat /\ samples \in Nat
    /\ firsts \in [n : Nat, least : Nat] /\ firsts.n < SeedSamples
    /\ peers \in Peers
    /\ slow \in [run : Nat, all : Nat] /\ slow.run <= slow.all

\* The inductive invariant: what is known of the average and of the samples it
\* will be seeded from while at most one sample was slow.
Harmless ==
    /\ seeded /\ slow.all = 0 => ewma <= Fast
    /\ seeded /\ slow.all = 1 => Lifted(ewma)
    /\ ~seeded /\ slow.all = 0 /\ firsts.n > 0 => firsts.least <= Fast
    /\ ~seeded /\ slow.all = 1 /\ firsts.n > 1 => firsts.least <= Fast
    /\ ~seeded /\ slow.all = 1 => firsts.n > 0

LatencyInv == LatencyTypeOK /\ Harmless /\ OneSlowHarmless

\* A lifted average is under the ejection threshold of a healthy member.
LEMMA LiftedIsAdmitted ==
    ASSUME NEW a \in Nat, NEW m \in Nat, Factor >= 2, Fast <= m, Lifted(a)
    PROVE  ~Judged(a, m)
<1>1. CASE Fast < Floor
  <2>1. 20 * a <= 19 * Fast + 10 * Floor
    BY <1>1 DEF Lifted, Top
  <2>2. a - m <= Floor
    BY <1>1, <2>1, LatencyAssumption DEF LatencyAssumption
  <2> QED BY <2>2, LatencyAssumption DEF Judged, LatencyAssumption
<1>2. CASE ~(Fast < Floor)
  <2>1. 20 * a <= 29 * Fast
    BY <1>2, LatencyAssumption DEF Lifted, Top, LatencyAssumption
  <2>2. a <= 2 * m
    BY <2>1, LatencyAssumption DEF LatencyAssumption
  <2>3. 2 * m <= Factor * m
    BY LatencyAssumption DEF LatencyAssumption
  <2>4. Factor * m \in Nat
    BY LatencyAssumption DEF LatencyAssumption
  <2> QED BY <2>2, <2>3, <2>4 DEF Judged
<1> QED BY <1>1, <1>2

\* A low average counts as lifted.
LEMMA LowIsLifted ==
    ASSUME NEW a \in Nat, a <= Fast
    PROVE  Lifted(a)
<1>1. Top \in Nat /\ Fast <= Top
  BY LatencyAssumption DEF Top, LatencyAssumption
<1> QED BY <1>1, LatencyAssumption DEF Lifted, LatencyAssumption

\* A fast sample keeps a low average low and a lifted one lifted; a slow one
\* lifts a low average.
LEMMA MovedAverage ==
    ASSUME NEW a \in Nat
    PROVE  /\ Moved(a, Fast) \in Nat /\ Moved(a, Slow) \in Nat
           /\ a <= Fast => Moved(a, Fast) <= Fast /\ Lifted(Moved(a, Slow))
           /\ Lifted(a) => Lifted(Moved(a, Fast))
<1> DEFINE c == Clamped(a, Fast)
           d == Clamped(a, Slow)
<1>1. c \in Nat /\ c <= Fast
  BY LatencyAssumption DEF Clamped, Less, More, LatencyAssumption
<1>2. d \in Nat /\ (a <= Fast => d <= 10 * Top)
  BY LatencyAssumption DEF Clamped, Less, More, Top, LatencyAssumption
<1>3. Moved(a, Fast) = (19 * a + c) \div 20 /\ Moved(a, Slow) = (19 * a + d) \div 20
  BY DEF Moved
<1> HIDE DEF c, d
<1>4. \A x \in Nat : x \div 20 \in Nat /\ 20 * (x \div 20) <= x
  OBVIOUS
<1>5. 19 * a + c \in Nat /\ 19 * a + d \in Nat
  BY <1>1, <1>2
<1>6. /\ Moved(a, Fast) \in Nat /\ 20 * Moved(a, Fast) <= 19 * a + c
      /\ Moved(a, Slow) \in Nat /\ 20 * Moved(a, Slow) <= 19 * a + d
  BY <1>3, <1>4, <1>5
<1>7. a <= Fast => Moved(a, Fast) <= Fast
  BY <1>1, <1>6, LatencyAssumption DEF LatencyAssumption
<1>8. a <= Fast => Lifted(Moved(a, Slow))
  BY <1>2, <1>6, LatencyAssumption DEF Lifted, Top, LatencyAssumption
<1>9. Lifted(a) => Lifted(Moved(a, Fast))
  BY <1>1, <1>6, LatencyAssumption DEF Lifted, Top, LatencyAssumption
<1> QED BY <1>6, <1>7, <1>8, <1>9

\* Nothing ejects while the member is healthy but for one sample.
LEMMA SampleKeeps ==
    ASSUME Factor >= 2, SeedSamples >= 2, LatencyInv, NEW sample \in {Fast, Slow}, round_trip(sample)
    PROVE  LatencyInv'
<1> USE LatencyAssumption DEF LatencyAssumption, seeded
<1>0. /\ samples' = samples + 1 /\ peers' = peers
      /\ slow' = IF sample = Slow THEN [run |-> slow.run + 1, all |-> slow.all + 1] ELSE [slow EXCEPT !.run = 0]
      /\ \/ seeded /\ ewma' = Moved(ewma, sample) /\ stage' = stage /\ firsts' = firsts
         \/ /\ ~seeded /\ firsts.n + 1 >= SeedSamples
            /\ stage' = "seeded" /\ ewma' = Pushed(firsts, sample).least /\ firsts' = NoFirsts
         \/ /\ ~seeded /\ firsts.n + 1 < SeedSamples
            /\ firsts' = Pushed(firsts, sample) /\ stage' = stage /\ ewma' = ewma
  BY DEF round_trip
<1>1. LatencyTypeOK'
  <2>1. /\ Pushed(firsts, sample) \in [n : Nat, least : Nat]
        /\ Pushed(firsts, sample).n = firsts.n + 1 /\ Pushed(firsts, sample).least \in Nat
    BY DEF LatencyInv, LatencyTypeOK, Pushed, Less
  <2>2. NoFirsts \in [n : Nat, least : Nat] /\ NoFirsts.n = 0
    BY DEF NoFirsts
  <2>3. Moved(ewma, sample) \in Nat
    BY MovedAverage DEF LatencyInv, LatencyTypeOK
  <2>4. stage' \in {"seeding", "seeded"} /\ ewma' \in Nat /\ firsts' \in [n : Nat, least : Nat] /\ firsts'.n < SeedSamples
    BY <1>0, <2>1, <2>2, <2>3 DEF LatencyInv, LatencyTypeOK
  <2>5. slow' \in [run : Nat, all : Nat] /\ slow'.run <= slow'.all
    BY <1>0 DEF LatencyInv, LatencyTypeOK
  <2> QED BY <1>0, <2>4, <2>5 DEF LatencyInv, LatencyTypeOK
<1>2. slow'.all = IF sample = Slow THEN slow.all + 1 ELSE slow.all
  BY <1>0 DEF LatencyInv, LatencyTypeOK
<1>3. Harmless'
  <2>1. CASE seeded
    <3>1. seeded' /\ ewma' = Moved(ewma, sample)
      BY <1>0, <2>1
    <3>2. slow'.all = 0 => ewma' <= Fast
      BY <2>1, <3>1, <1>2, MovedAverage DEF LatencyInv, LatencyTypeOK, Harmless
    <3>3. slow'.all = 1 => Lifted(ewma')
      <4>1. CASE sample = Slow
        <5>1. slow'.all = 1 => ewma <= Fast
          BY <2>1, <4>1, <1>2 DEF LatencyInv, LatencyTypeOK, Harmless
        <5>2. ewma \in Nat
          BY DEF LatencyInv, LatencyTypeOK
        <5>3. ewma <= Fast => Lifted(Moved(ewma, Slow))
          BY <5>2, MovedAverage
        <5> QED BY <3>1, <4>1, <5>1, <5>3
      <4>2. CASE sample = Fast
        <5>1. slow'.all = 1 => Lifted(ewma)
          BY <2>1, <4>2, <1>2 DEF LatencyInv, LatencyTypeOK, Harmless
        <5>2. ewma \in Nat
          BY DEF LatencyInv, LatencyTypeOK
        <5>3. Lifted(ewma) => Lifted(Moved(ewma, Fast))
          BY <5>2, MovedAverage
        <5> QED BY <3>1, <4>2, <5>1, <5>3
      <4> QED BY <4>1, <4>2
    <3> QED BY <3>1, <3>2, <3>3 DEF Harmless, Lifted, Top
  <2>2. CASE ~seeded
    <3> DEFINE f == Pushed(firsts, sample)
    <3>1. f.n = firsts.n + 1 /\ f.least = (IF firsts.n = 0 THEN sample ELSE Less(firsts.least, sample))
      BY DEF Pushed
    <3> HIDE DEF f
    <3>2. slow'.all = 0 => f.least <= Fast
      BY <2>2, <3>1, <1>2 DEF LatencyInv, LatencyTypeOK, Harmless, Less
    <3>3. slow'.all = 1 /\ f.n > 1 => f.least <= Fast
      BY <2>2, <3>1, <1>2 DEF LatencyInv, LatencyTypeOK, Harmless, Less
    <3>4. CASE firsts.n + 1 >= SeedSamples
      <4>1. seeded' /\ ewma' = f.least /\ f.n > 1
        BY <1>0, <2>2, <3>1, <3>4 DEF f, LatencyInv, LatencyTypeOK
      <4>2. ewma' <= Fast => Lifted(ewma')
        BY <1>1, LowIsLifted DEF LatencyTypeOK
      <4> QED BY <3>2, <3>3, <4>1, <4>2 DEF Harmless, Lifted, Top
    <3>5. CASE ~(firsts.n + 1 >= SeedSamples)
      <4>1. ~seeded' /\ firsts' = f
        BY <1>0, <2>2, <3>5 DEF f, LatencyInv, LatencyTypeOK
      <4>2. firsts'.n > 0
        BY <3>1, <4>1 DEF LatencyInv, LatencyTypeOK
      <4> QED BY <3>2, <3>3, <4>1, <4>2 DEF Harmless
    <3> QED BY <3>4, <3>5
  <2> QED BY <2>1, <2>2
<1>4. OneSlowHarmless'
  <2> SUFFICES ASSUME peers' = <<>> \/ Fast <= Median(peers'), slow'.all <= 1
               PROVE  out' = 0
    BY DEF OneSlowHarmless
  <2>1. peers' = peers /\ slow.all <= 1 /\ out = 0
    <3>1. peers' = peers
      BY DEF round_trip
    <3>2. slow.all \in Nat
      BY DEF LatencyInv, LatencyTypeOK
    <3>3. slow.all <= 1
      BY <1>2, <3>2
    <3> QED BY <3>1, <3>3 DEF LatencyInv, OneSlowHarmless
  <2>2. slow'.all = 0 \/ slow'.all = 1
    BY <1>1 DEF LatencyTypeOK
  <2>3. seeded' => Lifted(ewma')
    <3>1. ewma' \in Nat
      BY <1>1 DEF LatencyTypeOK
    <3>2. seeded' => ewma' <= Fast \/ Lifted(ewma')
      BY <1>3, <2>2 DEF Harmless
    <3> QED BY <3>1, <3>2, LowIsLifted
  <2>4. seeded' /\ peers # <<>> => ~Judged(ewma', Median(peers))
    BY <1>1, <2>1, <2>3, LiftedIsAdmitted, PeersAssumption DEF LatencyTypeOK, PeersAssumption
  <2> QED BY <2>1, <2>4 DEF round_trip
<1> QED BY <1>1, <1>3, <1>4 DEF LatencyInv

\* "One slow query does not eject a healthy member": whatever the round trips,
\* the floor, the backoff and the peers are (round_trip).
THEOREM OneSlowNeverEjects ==
    ASSUME Factor >= 2, SeedSamples >= 2
    PROVE  LatencySpec => []OneSlowHarmless
<1> USE LatencyAssumption DEF LatencyAssumption, seeded
<1>1. LatencyInit => LatencyInv
  BY DEF LatencyInit, LatencyInv, LatencyTypeOK, Harmless, OneSlowHarmless, NoFirsts
<1>2. LatencyInv /\ [LatencyNext]_latVars => LatencyInv'
  <2> SUFFICES ASSUME LatencyInv, [LatencyNext]_latVars PROVE LatencyInv'
    OBVIOUS
  <2>1. CASE round_trip(Fast) \/ round_trip(Slow)
    BY <2>1, SampleKeeps
  <2>2. CASE ProbeReadmits
    BY <2>2 DEF ProbeReadmits, reset_latency, LatencyInv, LatencyTypeOK, Harmless, OneSlowHarmless, NoFirsts
  <2>3. CASE ProbeFails
    <3>1. out # 0 /\ UNCHANGED <<stage, ewma, firsts, samples, peers, slow>>
      BY <2>3 DEF ProbeFails
    <3>2. LatencyTypeOK' /\ Harmless'
      BY <3>1 DEF LatencyInv, LatencyTypeOK, Harmless, Lifted, Top
    <3>3. OneSlowHarmless'
      BY <3>1 DEF LatencyInv, OneSlowHarmless
    <3> QED BY <3>2, <3>3 DEF LatencyInv
  <2>4. CASE UNCHANGED latVars
    BY <2>4 DEF latVars, LatencyInv, LatencyTypeOK, Harmless, OneSlowHarmless, Lifted, Top
  <2> QED BY <2>1, <2>2, <2>3, <2>4 DEF LatencyNext
<1>3. LatencyInv => OneSlowHarmless
  BY DEF LatencyInv
<1> QED BY <1>1, <1>2, <1>3, PTL DEF LatencySpec

-----------------------------------------------------------------------------
(* C library: no pointer the header still promises dangles, for any number *)
(* of threads, objects and pointers kept.                                   *)

FfiSpec == FfiInit /\ [][FfiNext]_ffiVars

Kinds == {"none", "client", "abandoned", "string", "rows", "sets", "error", "plain", "prepared",
          "results", "stream", "value", "pool", "members"}

\* What a promise can be while the boxes hold o: a thread's message or key, or
\* memory of a box that holds something, until that is freed or, for the row of
\* an open stream, until the next one.
Kept(p, o) ==
    /\ p \in [owner : Slot \union Caller, region : {"error", "key", "inner", "columns", "row", "part"},
              until : {"free", "next", "call", "key"}, of : Slot \union Caller, dangling : {FALSE}]
    /\ p.of = p.owner
    /\ p.owner \in Caller => \/ p.region = "error" /\ p.until = "call"
                             \/ p.region = "key" /\ p.until = "key"
    /\ p.owner \in Slot =>
          /\ p.region \in {"inner", "columns", "row", "part"} /\ p.until \in {"free", "next"}
          /\ o[p.owner].kind \notin {"none", "client"}
          /\ o[p.owner].kind = "stream" /\ p.region \in {"row", "part"} => p.until = "next"

\* The inductive invariant.
FfiInv ==
    /\ object \in [Slot -> [kind : Kinds, client : Slot \union {0}]]
    /\ \A p \in promised : Kept(p, object)

\* A call that frees only what its caller has been told of leaves the other
\* promises as they are.
LEMMA AfterLeaves ==
    ASSUME FfiInv, NEW t \in Caller, NEW ended, NEW freed, NEW made, After(t, ended, freed, made),
           \A p \in promised : p \in freed => p \in ended \union OfCall(t)
    PROVE  promised' = (promised \ (ended \union OfCall(t))) \union made
<1>1. ASSUME NEW p \in promised \ (ended \union OfCall(t))
      PROVE  [p EXCEPT !.dangling = @ \/ p \in freed] = p
  <2>1. (p.dangling \/ p \in freed) = FALSE
    BY DEF FfiInv, Kept
  <2>2. [p EXCEPT !.dangling = FALSE] = p
    BY DEF FfiInv, Kept
  <2> QED BY <2>1, <2>2
<1>2. {[p EXCEPT !.dangling = @ \/ p \in freed] : p \in promised \ (ended \union OfCall(t))}
        = promised \ (ended \union OfCall(t))
  BY <1>1
<1> QED BY <1>2 DEF After

\* Calls that change no box.
LEMMA SameBoxes ==
    ASSUME FfiInv, NEW t \in Caller, NEW ended, NEW freed, NEW made, After(t, ended, freed, made), object' = object,
           \A p \in promised : p \in freed => p \in ended \union OfCall(t),
           \A p \in made : Kept(p, object)
    PROVE  FfiInv'
<1>1. promised' = (promised \ (ended \union OfCall(t))) \union made
  BY AfterLeaves
<1> QED BY <1>1 DEF FfiInv

\* A call that fails: it replaces a message only its own thread was given.
LEMMA FailKeeps ==
    ASSUME FfiInv, NEW t \in Caller
    PROVE  /\ \A p \in Replaced(t) : p \in OfCall(t)
           /\ fail(t) => FfiInv'
<1>1. \A p \in Replaced(t) : p \in OfCall(t)
  BY DEF Replaced, Into, OfCall, FfiInv, Kept
<1>2. ASSUME fail(t) PROVE FfiInv'
  BY <1>1, <1>2, SameBoxes DEF fail
<1> QED BY <1>1, <1>2

\* A call that only gives out a pointer.
LEMMA PromiseKeeps ==
    ASSUME FfiInv, NEW t \in Caller, NEW owner, NEW region, NEW until, NEW of, Promise(t, owner, region, until, of),
           Kept(Pointer(owner, region, until, of), object)
    PROVE  FfiInv'
BY SameBoxes DEF Promise

LEMMA NothingKeeps ==
    ASSUME FfiInv, NEW t \in Caller, Nothing(t)
    PROVE  FfiInv'
BY SameBoxes DEF Nothing

\* A new box: no promise was about the empty slot.
LEMMA BoxKeeps ==
    ASSUME FfiInv, NEW t \in Caller, NEW o \in [kind : Kinds, client : Slot \union {0}], boxed(t, o)
    PROVE  FfiInv'
<1>1. CASE NewBox(t, o)
  <2>1. PICK s \in Slot : object[s] = NoObject /\ object' = [object EXCEPT ![s] = o]
    BY <1>1 DEF NewBox
  <2>2. promised' = promised \ OfCall(t)
    BY <1>1, AfterLeaves DEF NewBox
  <2>3. ASSUME NEW p \in promised PROVE Kept(p, object')
    <3>1. Kept(p, object) /\ p.owner # s
      <4>1. Kept(p, object)
        BY DEF FfiInv
      <4>2. object[s].kind = "none"
        BY <2>1 DEF NoObject
      <4> QED BY <4>1, <4>2 DEF Kept
    <3>2. p.owner \in Slot => object'[p.owner] = object[p.owner]
      BY <2>1, <3>1 DEF FfiInv
    <3> QED BY <3>1, <3>2 DEF Kept
  <2> QED BY <2>1, <2>2, <2>3 DEF FfiInv
<1> QED BY <1>1, FailKeeps DEF boxed

\* Dropping a box ends every promise about it.
LEMMA DropKeeps ==
    ASSUME FfiInv, NEW t \in Caller, NEW s \in Slot, Drop(t, s)
    PROVE  FfiInv'
<1>1. object' = [object EXCEPT ![s] = NoObject] /\ NoObject \in [kind : Kinds, client : Slot \union {0}]
  BY DEF Drop, NoObject, Kinds
<1>2. \A p \in promised : p.owner = s => p \in Of(s) \union OfRow(s)
  BY FfiAssumption DEF FfiInv, Kept, Of, OfRow, FfiAssumption
<1>3. promised' = promised \ (Of(s) \union OfRow(s) \union OfCall(t))
  BY <1>2, AfterLeaves DEF Drop
<1>4. ASSUME NEW p \in promised' PROVE Kept(p, object')
  <2>1. p \in promised /\ Kept(p, object) /\ p.owner # s
    BY <1>2, <1>3 DEF FfiInv
  <2>2. p.owner \in Slot => object'[p.owner] = object[p.owner]
    BY <1>1, <2>1 DEF FfiInv
  <2> QED BY <2>1, <2>2 DEF Kept
<1> QED BY <1>1, <1>4 DEF FfiInv

\* Freeing a client: nothing was promised about it, and the promises about an
\* abandoned stream stand.
LEMMA ClientFreeKeeps ==
    ASSUME FfiInv, NEW t \in Caller, NEW c \in Slot, skaidb_client_free(t, c)
    PROVE  FfiInv'
<1>1. \A p \in promised : p.owner # c
  BY DEF skaidb_client_free, FfiInv, Kept
<1>2. promised' = promised \ OfCall(t)
  BY <1>1, AfterLeaves DEF skaidb_client_free
<1>3. \A s \in Slot : object'[s] = object[s] \/ object'[s] = Holding("abandoned") \/ (s = c /\ object'[s] = NoObject)
  BY DEF skaidb_client_free
<1>4. NoObject.client = 0 /\ NoObject.kind = "none" /\ Holding("abandoned").kind = "abandoned"
      /\ {NoObject, Holding("abandoned")} \subseteq [kind : Kinds, client : Slot \union {0}]
  BY DEF NoObject, Holding, Kinds
<1>5. object' \in [Slot -> [kind : Kinds, client : Slot \union {0}]]
  <2>1. object' = [s \in Slot |-> object'[s]]
    BY DEF skaidb_client_free
  <2>2. \A s \in Slot : object'[s] \in [kind : Kinds, client : Slot \union {0}]
    BY <1>3, <1>4 DEF FfiInv
  <2> QED BY <2>1, <2>2
<1>6. ASSUME NEW p \in promised PROVE Kept(p, object')
  <2>1. Kept(p, object) /\ p.owner # c
    BY <1>1 DEF FfiInv
  <2> QED BY <1>3, <1>4, <2>1 DEF Kept
<1> QED BY <1>2, <1>5, <1>6 DEF FfiInv

LEMMA PollKeeps ==
    ASSUME FfiInv, NEW t \in Caller, NEW c \in Slot, skaidb_stream_poll(t, c)
    PROVE  FfiInv'
<1>1. CASE fail(t)
  BY <1>1, FailKeeps
<1>2. ASSUME NEW s \in Slot, NEW r \in Slot, s < r, {q \in Slot : q <= r /\ object[q] = NoObject} = {s, r},
             object' = [object EXCEPT ![s] = Holding("rows"), ![r] = Holding("string")],
             After(t, {}, {}, {})
      PROVE  FfiInv'
  <2>1. object[s] = NoObject /\ object[r] = NoObject
    BY <1>2
  <2>2. {Holding("rows"), Holding("string")} \subseteq [kind : Kinds, client : Slot \union {0}] /\ NoObject.kind = "none"
    BY DEF NoObject, Holding, Kinds
  <2>3. promised' = promised \ OfCall(t)
    BY <1>2, AfterLeaves
  <2>4. ASSUME NEW p \in promised PROVE Kept(p, object')
    <3>1. Kept(p, object)
      BY DEF FfiInv
    <3>2. p.owner # s /\ p.owner # r
      BY <2>1, <2>2, <3>1 DEF Kept
    <3>3. p.owner \in Slot => object'[p.owner] = object[p.owner]
      BY <1>2, <3>2 DEF FfiInv
    <3> QED BY <3>1, <3>3 DEF Kept
  <2>5. object' \in [Slot -> [kind : Kinds, client : Slot \union {0}]]
    BY <1>2, <2>2 DEF FfiInv
  <2> QED BY <2>3, <2>4, <2>5 DEF FfiInv
<1> QED BY <1>1, <1>2 DEF skaidb_stream_poll

\* The next row: what it replaces was promised until then.
LEMMA NextKeeps ==
    ASSUME FfiInv, NEW t \in Caller, NEW s \in Slot, skaidb_stream_next(t, s) \/ skaidb_stream_next_set(t, s)
    PROVE  FfiInv'
<1>0. object[s].kind = "stream" /\ object' = object
  BY DEF skaidb_stream_next, skaidb_stream_next_set
<1>1. Kept(Pointer(s, "row", "next", s), object)
  BY <1>0, FfiAssumption DEF Kept, Pointer, FfiAssumption
<1>2. \A p \in Into(s, {"row", "part"}) : p \in OfRow(s)
  BY <1>0 DEF Into, OfRow, FfiInv, Kept
<1>3. CASE After(t, OfRow(s), Into(s, {"row", "part"}), {Pointer(s, "row", "next", s)})
  <2> DEFINE ended == OfRow(s)
             freed == Into(s, {"row", "part"})
             made == {Pointer(s, "row", "next", s)}
  <2>1. \A p \in promised : p \in freed => p \in ended \union OfCall(t)
    BY <1>2
  <2>2. \A p \in made : Kept(p, object)
    BY <1>1
  <2>3. After(t, ended, freed, made)
    BY <1>3
  <2> HIDE DEF ended, freed, made
  <2> QED BY <1>0, <2>1, <2>2, <2>3, SameBoxes
<1>4. CASE After(t, OfRow(s), {}, {}) \/ After(t, {}, {}, {})
  BY <1>0, <1>4, SameBoxes
<1>5. CASE After(t, OfRow(s), Replaced(t), {})
  BY <1>0, <1>5, SameBoxes, FailKeeps
<1> QED BY <1>3, <1>4, <1>5 DEF skaidb_stream_next, skaidb_stream_next_set, NamesReplaced

\* Pointers into a box.
LEMMA BorrowKeeps ==
    ASSUME FfiInv, NEW t \in Caller, NEW s \in Slot,
           Inner(t, s) \/ skaidb_result_column_name(t, s) \/ skaidb_result_cell(t, s)
              \/ skaidb_stream_column_name(t, s) \/ View(t, s)
    PROVE  FfiInv'
<1>1. ASSUME NEW region \in {"inner", "columns", "row", "part"}, NEW until \in {"free", "next"},
             object[s].kind \notin {"none", "client"},
             object[s].kind = "stream" /\ region \in {"row", "part"} => until = "next"
      PROVE  Kept(Pointer(s, region, until, s), object)
  BY <1>1, FfiAssumption DEF Kept, Pointer, FfiAssumption
<1>2. CASE Inner(t, s)
  BY <1>1, <1>2, PromiseKeeps DEF Inner
<1>3. CASE skaidb_result_column_name(t, s) \/ skaidb_stream_column_name(t, s)
  BY <1>1, <1>3, PromiseKeeps DEF skaidb_result_column_name, skaidb_stream_column_name
<1>4. CASE skaidb_result_cell(t, s)
  BY <1>1, <1>4, PromiseKeeps DEF skaidb_result_cell
<1>5. CASE View(t, s)
  <2>1. PICK until \in Values(s) : Promise(t, s, "part", until, s)
    BY <1>5 DEF View
  <2>2. /\ until \in {"free", "next"} /\ object[s].kind \notin {"none", "client"}
        /\ object[s].kind = "stream" => until = "next"
    BY DEF Values, Into, FfiInv, Kept
  <2> QED BY <1>1, <2>1, <2>2, PromiseKeeps
<1> QED BY <1>2, <1>3, <1>4, <1>5

\* The calls whose answer is a new box, an error or nothing.
LEMMA CallKeeps ==
    ASSUME FfiInv, NEW t \in Caller, NEW s \in Slot, NEW r \in Slot,
           \/ skaidb_connect(t) \/ value_box(t) \/ skaidb_pool_new(t)
           \/ ClientCall(t, s) \/ skaidb_client_endpoint_dup(t, s) \/ skaidb_execute(t, s) \/ skaidb_prepare(t, s)
           \/ skaidb_pipeline(t, s) \/ Read(t, s) \/ open_stream(t, s) \/ ToDup(t, s)
           \/ skaidb_pool_acquire(t, s) \/ skaidb_pool_members(t, s)
           \/ skaidb_execute_prepared(t, s, r) \/ skaidb_execute_batch(t, s, r)
    PROVE  FfiInv'
<1> DEFINE T == [kind : Kinds, client : Slot \union {0}]
<1>1. \A kind \in Kinds : Holding(kind) \in T
  BY DEF Holding, NoObject
<1>2. [kind |-> "stream", client |-> s] \in T
  BY DEF Kinds
<1>3. result_of \subseteq T
  BY <1>1 DEF result_of, Kinds
<1>4. \/ Nothing(t) \/ fail(t)
      \/ \E o \in T : boxed(t, o)
  <2>1. CASE \/ skaidb_connect(t) \/ value_box(t) \/ skaidb_pool_new(t) \/ skaidb_prepare(t, s)
             \/ skaidb_pipeline(t, s) \/ skaidb_pool_acquire(t, s) \/ skaidb_pool_members(t, s)
             \/ skaidb_client_endpoint_dup(t, s) \/ ToDup(t, s)
    <3>1. \/ Nothing(t)
          \/ \E kind \in Kinds : boxed(t, Holding(kind))
      BY <2>1 DEF skaidb_connect, value_box, skaidb_pool_new, skaidb_prepare, skaidb_pipeline, skaidb_pool_acquire,
                  skaidb_pool_members, skaidb_client_endpoint_dup, ToDup, boxed, Kinds
    <3> QED BY <1>1, <3>1
  <2>2. CASE skaidb_execute(t, s) \/ skaidb_execute_prepared(t, s, r)
    BY <1>3, <2>2 DEF skaidb_execute, skaidb_execute_prepared
  <2>3. CASE ClientCall(t, s) \/ skaidb_execute_batch(t, s, r) \/ Read(t, s)
    BY <2>3 DEF ClientCall, skaidb_execute_batch, Read
  <2>4. CASE open_stream(t, s)
    BY <1>2, <2>4 DEF open_stream
  <2> QED BY <2>1, <2>2, <2>3, <2>4
<1> HIDE DEF T
<1>5. \A o \in T : boxed(t, o) => FfiInv'
  BY BoxKeeps DEF T
<1> QED BY <1>4, <1>5, NothingKeeps, FailKeeps

\* The thread's own strings: its message and its key.
LEMMA OwnKeeps ==
    ASSUME FfiInv, NEW t \in Caller, NEW s \in Slot, skaidb_last_error(t) \/ skaidb_value_document_key(t, s)
    PROVE  FfiInv'
<1>1. Kept(Pointer(t, "error", "call", t), object) /\ Kept(Pointer(t, "key", "key", t), object)
  BY FfiAssumption DEF Kept, Pointer, FfiAssumption
<1>2. CASE skaidb_last_error(t)
  BY <1>1, <1>2, PromiseKeeps DEF skaidb_last_error
<1>3. CASE skaidb_value_document_key(t, s)
  <2>1. \A p \in Into(t, {"key"}) : p \in OfKey(t)
    BY DEF Into, OfKey, FfiInv, Kept
  <2> QED BY <1>1, <1>3, <2>1, SameBoxes DEF skaidb_value_document_key
<1> QED BY <1>2, <1>3

\* No pointer the header promises ever dangles, whichever threads call, however
\* many objects and pointers they keep (every function of the C library).
THEOREM NothingDangles == FfiSpec => []HandedOutLive
<1>1. FfiInit => FfiInv
  BY DEF FfiInit, FfiInv, NoObject, Kinds
<1>2. FfiInv /\ [FfiNext]_ffiVars => FfiInv'
  <2> SUFFICES ASSUME FfiInv, [FfiNext]_ffiVars PROVE FfiInv'
    OBVIOUS
  <2>1. CASE UNCHANGED ffiVars
    BY <2>1 DEF ffiVars, FfiInv
  <2>2. ASSUME NEW t \in Caller, skaidb_last_error(t) \/ skaidb_connect(t) \/ value_box(t) \/ skaidb_pool_new(t)
        PROVE  FfiInv'
    <3>1. CASE skaidb_last_error(t)
      <4>1. Kept(Pointer(t, "error", "call", t), object)
        BY FfiAssumption DEF Kept, Pointer, FfiAssumption
      <4> QED BY <3>1, <4>1, PromiseKeeps DEF skaidb_last_error
    <3>2. CASE skaidb_connect(t) \/ value_box(t) \/ skaidb_pool_new(t)
      <4>1. \/ Nothing(t)
            \/ \E kind \in Kinds : boxed(t, Holding(kind))
        BY <3>2 DEF skaidb_connect, value_box, skaidb_pool_new, Kinds
      <4>2. \A kind \in Kinds : Holding(kind) \in [kind : Kinds, client : Slot \union {0}]
        BY DEF Holding, NoObject
      <4> QED BY <4>1, <4>2, BoxKeeps, NothingKeeps
    <3> QED BY <2>2, <3>1, <3>2
  <2>3. ASSUME NEW t \in Caller, NEW s \in Slot,
               \/ skaidb_client_free(t, s) \/ ClientCall(t, s) \/ skaidb_client_endpoint_dup(t, s)
               \/ skaidb_string_free(t, s) \/ skaidb_execute(t, s) \/ skaidb_prepare(t, s)
               \/ skaidb_prepared_free(t, s) \/ skaidb_pipeline(t, s)
               \/ Inner(t, s) \/ skaidb_result_column_name(t, s) \/ skaidb_result_cell(t, s)
               \/ View(t, s) \/ skaidb_value_document_key(t, s) \/ Read(t, s) \/ Free(t, s)
               \/ open_stream(t, s) \/ skaidb_stream_column_name(t, s) \/ skaidb_stream_next(t, s)
               \/ skaidb_stream_next_set(t, s) \/ skaidb_stream_free(t, s) \/ skaidb_stream_poll(t, s)
               \/ ToDup(t, s) \/ skaidb_pool_acquire(t, s) \/ skaidb_pool_free(t, s) \/ skaidb_pool_members(t, s)
        PROVE  FfiInv'
    <3>1. CASE skaidb_string_free(t, s) \/ skaidb_prepared_free(t, s) \/ Free(t, s) \/ skaidb_stream_free(t, s) \/ skaidb_pool_free(t, s)
      BY <3>1, DropKeeps DEF skaidb_string_free, skaidb_prepared_free, Free, skaidb_stream_free, skaidb_pool_free
    <3> QED BY <2>3, <3>1, ClientFreeKeeps, BorrowKeeps, OwnKeeps, NextKeeps, PollKeeps, CallKeeps
  <2>4. ASSUME NEW t \in Caller, NEW s \in Slot, NEW r \in Slot,
               skaidb_execute_prepared(t, s, r) \/ skaidb_execute_batch(t, s, r) \/ skaidb_pool_release(t, s, r)
        PROVE  FfiInv'
    BY <2>4, CallKeeps, DropKeeps DEF skaidb_pool_release
  <2>5. ASSUME FfiNext PROVE FfiInv'
    <3>1. PICK t \in Caller :
        \/ skaidb_last_error(t) \/ skaidb_connect(t) \/ value_box(t) \/ skaidb_pool_new(t)
        \/ \E s \in Slot :
              \/ skaidb_client_free(t, s) \/ ClientCall(t, s) \/ skaidb_client_endpoint_dup(t, s)
              \/ skaidb_string_free(t, s) \/ skaidb_execute(t, s) \/ skaidb_prepare(t, s)
              \/ skaidb_prepared_free(t, s) \/ skaidb_pipeline(t, s)
              \/ Inner(t, s) \/ skaidb_result_column_name(t, s) \/ skaidb_result_cell(t, s)
              \/ View(t, s) \/ skaidb_value_document_key(t, s) \/ Read(t, s) \/ Free(t, s)
              \/ open_stream(t, s) \/ skaidb_stream_column_name(t, s) \/ skaidb_stream_next(t, s)
              \/ skaidb_stream_next_set(t, s) \/ skaidb_stream_free(t, s) \/ skaidb_stream_poll(t, s)
              \/ ToDup(t, s) \/ skaidb_pool_acquire(t, s) \/ skaidb_pool_free(t, s) \/ skaidb_pool_members(t, s)
              \/ \E r \in Slot : \/ skaidb_execute_prepared(t, s, r) \/ skaidb_execute_batch(t, s, r)
                                 \/ skaidb_pool_release(t, s, r)
      BY <2>5, Zenon DEF FfiNext
    <3>2. CASE skaidb_last_error(t) \/ skaidb_connect(t) \/ value_box(t) \/ skaidb_pool_new(t)
      BY <2>2, <3>2, Zenon
    <3>3. ASSUME NEW s \in Slot,
              \/ skaidb_client_free(t, s) \/ ClientCall(t, s) \/ skaidb_client_endpoint_dup(t, s)
              \/ skaidb_string_free(t, s) \/ skaidb_execute(t, s) \/ skaidb_prepare(t, s)
              \/ skaidb_prepared_free(t, s) \/ skaidb_pipeline(t, s)
              \/ Inner(t, s) \/ skaidb_result_column_name(t, s) \/ skaidb_result_cell(t, s)
              \/ View(t, s) \/ skaidb_value_document_key(t, s) \/ Read(t, s) \/ Free(t, s)
              \/ open_stream(t, s) \/ skaidb_stream_column_name(t, s) \/ skaidb_stream_next(t, s)
              \/ skaidb_stream_next_set(t, s) \/ skaidb_stream_free(t, s) \/ skaidb_stream_poll(t, s)
              \/ ToDup(t, s) \/ skaidb_pool_acquire(t, s) \/ skaidb_pool_free(t, s) \/ skaidb_pool_members(t, s)
              \/ \E r \in Slot : \/ skaidb_execute_prepared(t, s, r) \/ skaidb_execute_batch(t, s, r)
                                 \/ skaidb_pool_release(t, s, r)
          PROVE  FfiInv'
      BY <2>3, <2>4, <3>3, Zenon
    <3> QED BY <3>1, <3>2, <3>3, Zenon
  <2> QED BY <2>1, <2>5
<1>3. FfiInv => HandedOutLive
  BY DEF FfiInv, Kept, HandedOutLive
<1> QED BY <1>1, <1>2, <1>3, PTL DEF FfiSpec

-----------------------------------------------------------------------------
(* The closure-built pool keeps its type and its bound, and implements     *)
(* PoolSpec, for any threads, connections and size.                        *)

\* The inductive invariant.
IInv == TypeOK /\ IdleBounded

\* Vec::pop and Vec::push.
LEMMA Popped ==
    ASSUME NEW s \in Seq(Conn), s # <<>>
    PROVE  /\ SubSeq(s, 1, Len(s) - 1) \in Seq(Conn)
           /\ Len(SubSeq(s, 1, Len(s) - 1)) = Len(s) - 1
           /\ s[Len(s)] \in Conn /\ Len(s) \in Nat
<1>1. Len(s) \in Nat /\ Len(s) >= 1
  BY EmptySeq, LenProperties
<1>2. SubSeq(s, 1, Len(s) - 1) \in Seq(Conn) /\ Len(SubSeq(s, 1, Len(s) - 1)) = Len(s) - 1
  BY <1>1, SubSeqProperties
<1>3. s[Len(s)] \in Conn
  BY <1>1, ElementOfSeq
<1> QED BY <1>1, <1>2, <1>3

LEMMA PushedOn ==
    ASSUME NEW s \in Seq(Conn), NEW c \in Conn
    PROVE  Append(s, c) \in Seq(Conn) /\ Len(Append(s, c)) = Len(s) + 1 /\ Len(s) \in Nat
BY AppendProperties, LenProperties

\* What the invariant needs of a step of one thread.
LEMMA Keeps ==
    ASSUME IInv, NEW t \in Thread, NEW c \in Conn \union {NoConn}, NEW where \in Place,
           held' = [held EXCEPT ![t] = c], pc' = [pc EXCEPT ![t] = where],
           closed' \in BOOLEAN, closed => closed', where = "clear" => closed',
           idle' \in Seq(Conn), Len(idle') <= MaxSize,
           where \in {"pop", "make"} => c = NoConn, where = "push" => c # NoConn
    PROVE  IInv'
BY DEF IInv, TypeOK, IdleBounded

\* One step of one thread keeps the invariant.
LEMMA StepKeeps ==
    ASSUME IInv, NEW t \in Thread,
           \/ AcquireAdmitted(t) \/ AcquirePop(t) \/ AcquireMake(t) \/ ReleaseCheck(t) \/ ReleasePush(t)
           \/ Discard(t) \/ CloseMark(t) \/ CloseClear(t)
    PROVE  IInv'
<1>0. /\ closed \in BOOLEAN /\ pc \in [Thread -> Place] /\ held \in [Thread -> Conn \union {NoConn}]
      /\ (pc[t] \in {"pop", "make"} => held[t] = NoConn) /\ (pc[t] = "push" => held[t] # NoConn) /\ (pc[t] = "clear" => closed)
      /\ idle \in Seq(Conn) /\ Len(idle) <= MaxSize /\ MaxSize \in Nat /\ NoConn \notin Conn
  BY FactoryAssumption DEF IInv, TypeOK, IdleBounded, FactoryAssumption
<1>1. /\ held = [held EXCEPT ![t] = held[t]] /\ pc = [pc EXCEPT ![t] = pc[t]]
      /\ held[t] \in Conn \union {NoConn} /\ pc[t] \in Place
  BY <1>0
<1>2. CASE AcquireAdmitted(t)
  <2>1. held' = held /\ idle' = idle /\ closed' = closed /\ held[t] = NoConn /\ pc' = [pc EXCEPT ![t] = "pop"] /\ "pop" \in Place
    BY <1>2 DEF AcquireAdmitted, Place
  <2> QED BY <1>0, <1>1, <2>1, Keeps
<1>3. CASE AcquirePop(t)
  <2>1. CASE idle # <<>>
    <3>1. /\ held' = [held EXCEPT ![t] = idle[Len(idle)]] /\ idle' = SubSeq(idle, 1, Len(idle) - 1)
          /\ closed' = closed /\ pc' = [pc EXCEPT ![t] = "rest"] /\ "rest" \in Place
      BY <1>3, <2>1 DEF AcquirePop, Place
    <3>2. idle' \in Seq(Conn) /\ Len(idle') = Len(idle) - 1 /\ idle[Len(idle)] \in Conn /\ Len(idle) \in Nat
      BY <1>0, <2>1, <3>1, Popped
    <3>3. Len(idle') <= MaxSize
      BY <1>0, <3>2
    <3> QED BY <1>0, <3>1, <3>2, <3>3, Keeps
  <2>2. CASE idle = <<>>
    <3>1. held' = held /\ idle' = idle /\ closed' = closed /\ pc' = [pc EXCEPT ![t] = "make"] /\ pc[t] = "pop" /\ "make" \in Place
      BY <1>3, <2>2 DEF AcquirePop, Place
    <3> QED BY <1>0, <1>1, <3>1, Keeps
  <2> QED BY <2>1, <2>2
<1>4. CASE AcquireMake(t)
  <2>1. PICK c \in Conn \union {NoConn} : held' = [held EXCEPT ![t] = c]
    BY <1>4 DEF AcquireMake
  <2>2. idle' = idle /\ closed' = closed /\ pc' = [pc EXCEPT ![t] = "rest"] /\ "rest" \in Place
    BY <1>4 DEF AcquireMake, Place
  <2> QED BY <1>0, <2>1, <2>2, Keeps
<1>5. CASE ReleaseCheck(t)
  <2>1. held[t] # NoConn /\ pc[t] = "rest" /\ idle' = idle /\ closed' = closed /\ "push" \in Place
    BY <1>5 DEF ReleaseCheck, Place
  <2>2. CASE held' = [held EXCEPT ![t] = NoConn] /\ pc' = pc
    BY <1>0, <1>1, <2>1, <2>2, Keeps
  <2>3. CASE held' = held /\ pc' = [pc EXCEPT ![t] = "push"]
    <3>1. held' = [held EXCEPT ![t] = held[t]] /\ pc' = [pc EXCEPT ![t] = "push"]
      BY <1>1, <2>3
    <3>2. /\ closed' \in BOOLEAN /\ (closed => closed') /\ ("push" = "clear" => closed')
          /\ idle' \in Seq(Conn) /\ Len(idle') <= MaxSize
          /\ ("push" \in {"pop", "make"} => held[t] = NoConn) /\ ("push" = "push" => held[t] # NoConn)
      BY <1>0, <2>1
    <3> QED BY <1>1, <2>1, <3>1, <3>2, Keeps, Zenon
  <2> QED BY <1>5, <2>2, <2>3 DEF ReleaseCheck
<1>6. CASE ReleasePush(t)
  <2>1. /\ pc[t] = "push" /\ held' = [held EXCEPT ![t] = NoConn] /\ closed' = closed
        /\ pc' = [pc EXCEPT ![t] = "rest"] /\ "rest" \in Place
        /\ idle' = IF Len(idle) < MaxSize THEN Append(idle, held[t]) ELSE idle
    BY <1>6 DEF ReleasePush, Place
  <2>2. held[t] \in Conn
    BY <1>0, <2>1
  <2>3. idle' \in Seq(Conn) /\ Len(idle') <= MaxSize
    BY <1>0, <2>1, <2>2, PushedOn
  <2> QED BY <1>0, <2>1, <2>3, Keeps
<1>7. CASE Discard(t)
  <2>1. pc[t] = "rest" /\ idle' = idle /\ closed' = closed /\ pc' = pc /\ held' = [held EXCEPT ![t] = NoConn]
    BY <1>7 DEF Discard
  <2> QED BY <1>0, <1>1, <2>1, Keeps
<1>8. CASE CloseMark(t)
  <2>1. idle' = idle /\ closed' = TRUE /\ held' = held /\ pc' = [pc EXCEPT ![t] = "clear"] /\ "clear" \in Place
    BY <1>8 DEF CloseMark, Place
  <2> QED BY <1>0, <1>1, <2>1, Keeps
<1>9. CASE CloseClear(t)
  <2>1. idle' = <<>> /\ closed' = closed /\ held' = held /\ pc' = [pc EXCEPT ![t] = "rest"] /\ "rest" \in Place
    BY <1>9 DEF CloseClear, Place
  <2>2. held' = [held EXCEPT ![t] = held[t]] /\ pc[t] = "clear"
    BY <1>1, <1>9, <2>1 DEF CloseClear
  <2>3. idle' \in Seq(Conn) /\ Len(idle') <= MaxSize
    BY <1>0, <2>1
  <2>4. /\ closed' \in BOOLEAN /\ (closed => closed') /\ ("rest" = "clear" => closed')
        /\ ("rest" \in {"pop", "make"} => held[t] = NoConn) /\ ("rest" = "push" => held[t] # NoConn)
    BY <1>0, <2>1
  <2> QED BY <1>1, <2>1, <2>2, <2>3, <2>4, Keeps, Zenon
<1> QED BY <1>2, <1>3, <1>4, <1>5, <1>6, <1>7, <1>8, <1>9

LEMMA Initially == Init => IInv
<1>1. <<>> \in Seq(Conn) /\ Len(<<>>) <= MaxSize
  BY FactoryAssumption DEF FactoryAssumption
<1>2. Init => TypeOK
  BY <1>1 DEF Init, TypeOK, Place
<1>3. Init => IdleBounded
  BY <1>1, Zenon DEF Init, IdleBounded
<1> QED BY <1>2, <1>3 DEF IInv

LEMMA Always == Spec => []IInv
<1>1. IInv /\ [Next]_vars => IInv'
  <2> SUFFICES ASSUME IInv, [Next]_vars PROVE IInv'
    OBVIOUS
  <2>1. ASSUME NEW t \in Thread, AcquireRefused(t)
        PROVE  UNCHANGED vars
    BY <2>1 DEF AcquireRefused
  <2>2. CASE UNCHANGED vars
    BY <2>2 DEF vars, IInv, TypeOK, IdleBounded
  <2> QED BY <2>1, <2>2, StepKeeps DEF Next
<1> QED BY <1>1, Initially, PTL DEF Spec

\* Every variable keeps its type and a thread inside a call owns what that call
\* needs (acquire, release).
THEOREM PoolTyped == Spec => []TypeOK
<1>1. IInv => TypeOK
  BY DEF IInv
<1> QED BY <1>1, Always, PTL

\* No two threads push past maxsize, whatever they read before (release).
THEOREM PoolBounded == Spec => []IdleBounded
<1>1. IInv => IdleBounded
  BY DEF IInv
<1> QED BY <1>1, Always, PTL

\* No call is let in after the close (acquire, release).
THEOREM ClosedToNewCalls == Spec => NoAdmissionAfterClose
<1> DEFINE A == closed => \A t \in Thread : pc'[t] \in {"pop", "push"} => pc'[t] = pc[t]
<1>1. IInv /\ [Next]_vars => [A]_vars
  <2> SUFFICES ASSUME IInv, Next, closed, NEW t \in Thread, pc'[t] \in {"pop", "push"}
               PROVE  pc'[t] = pc[t]
    BY DEF vars
  <2>1. pc \in [Thread -> Place]
    BY DEF IInv, TypeOK
  <2>2. PICK u \in Thread : \/ pc' = pc
                            \/ \E where \in {"make", "rest", "clear"} : pc' = [pc EXCEPT ![u] = where]
    BY DEF Next, vars, AcquireRefused, AcquireAdmitted, AcquirePop, AcquireMake, ReleaseCheck, ReleasePush, Discard, CloseMark, CloseClear
  <2> QED BY <2>1, <2>2
<1> QED BY <1>1, Always, PTL DEF Spec, NoAdmissionAfterClose

Calling == {t \in Thread : pc[t] \in {"pop", "make", "push"}}

\* Every step of a thread is one of the abstract pool's, or none.
LEMMA StepPromised ==
    ASSUME IInv, NEW t \in Thread,
           \/ AcquireAdmitted(t) \/ AcquirePop(t) \/ AcquireMake(t) \/ ReleaseCheck(t) \/ ReleasePush(t)
           \/ Discard(t) \/ CloseMark(t) \/ CloseClear(t)
    PROVE  Abs!PoolNext \/ UNCHANGED <<closed, idle, Calling, held>>
<1>0. /\ pc \in [Thread -> Place] /\ held \in [Thread -> Conn \union {NoConn}]
      /\ (pc[t] \in {"pop", "make"} => held[t] = NoConn) /\ (pc[t] = "push" => held[t] # NoConn) /\ (pc[t] = "clear" => closed)
  BY DEF IInv, TypeOK
<1>1. ASSUME NEW where, pc' = [pc EXCEPT ![t] = where]
      PROVE  Calling' = IF where \in {"pop", "make", "push"} THEN Calling \union {t} ELSE Calling \ {t}
  BY <1>0, <1>1 DEF Calling
<1>2. CASE AcquireAdmitted(t)
  <2>1. Calling' = Calling \union {t} /\ t \notin Calling
    BY <1>1, <1>2 DEF AcquireAdmitted, Calling
  <2>2. Abs!Begin(t)
    BY <1>2, <2>1 DEF AcquireAdmitted, Abs!Begin, Calling
  <2> QED BY <2>2 DEF Abs!PoolNext
<1>3. CASE AcquirePop(t)
  <2>1. CASE idle # <<>>
    <3>1. Calling' = Calling \ {t} /\ t \in Calling /\ held[t] = NoConn
      BY <1>0, <1>1, <1>3, <2>1 DEF AcquirePop, Calling
    <3>2. Abs!Take(t)
      BY <1>3, <2>1, <3>1 DEF AcquirePop, Abs!Take, Calling
    <3> QED BY <3>2 DEF Abs!PoolNext
  <2>2. CASE idle = <<>>
    <3>1. Calling' = Calling \union {t} /\ t \in Calling
      BY <1>1, <1>3, <2>2 DEF AcquirePop, Calling
    <3> QED BY <1>3, <2>2, <3>1 DEF AcquirePop
  <2> QED BY <2>1, <2>2
<1>4. CASE AcquireMake(t)
  <2>1. Calling' = Calling \ {t} /\ t \in Calling /\ held[t] = NoConn
    BY <1>0, <1>1, <1>4 DEF AcquireMake, Calling
  <2>2. PICK c \in {NoConn} \cup (Conn \ (Idle \cup Owned)) : held' = [held EXCEPT ![t] = c]
    BY <1>4 DEF AcquireMake
  <2>3. /\ c \notin {idle[i] : i \in DOMAIN idle} /\ c \in {NoConn} \union Conn
        /\ \A u \in Thread : held[u] = c => c = NoConn
    <3>1. DOMAIN idle = 1 .. Len(idle) /\ \A i \in 1 .. Len(idle) : idle[i] \in Conn
      BY LenProperties, ElementOfSeq DEF IInv, TypeOK
    <3> QED BY <2>2, <3>1, FactoryAssumption DEF Idle, Owned, FactoryAssumption
  <2>4. Abs!Make(t)
    BY <1>4, <2>1, <2>2, <2>3 DEF AcquireMake, Abs!Make, Calling
  <2> QED BY <2>4 DEF Abs!PoolNext
<1>5. CASE ReleaseCheck(t)
  <2>1. CASE held' = [held EXCEPT ![t] = NoConn] /\ pc' = pc
    <3>1. t \notin Calling /\ Calling' = Calling
      BY <1>5, <2>1 DEF ReleaseCheck, Calling
    <3>2. Abs!Discard(t)
      BY <1>5, <2>1, <3>1 DEF ReleaseCheck, Abs!Discard, Calling
    <3> QED BY <3>2 DEF Abs!PoolNext
  <2>2. CASE ~closed /\ held' = held /\ pc' = [pc EXCEPT ![t] = "push"]
    <3>1. t \notin Calling /\ Calling' = Calling \union {t}
      BY <1>1, <1>5, <2>2 DEF ReleaseCheck, Calling
    <3>2. Abs!Begin(t)
      BY <1>5, <2>2, <3>1 DEF ReleaseCheck, Abs!Begin, Calling
    <3> QED BY <3>2 DEF Abs!PoolNext
  <2> QED BY <1>5, <2>1, <2>2 DEF ReleaseCheck
<1>6. CASE ReleasePush(t)
  <2>1. Calling' = Calling \ {t} /\ t \in Calling /\ held[t] # NoConn
    BY <1>0, <1>1, <1>6 DEF ReleasePush, Calling
  <2>2. Abs!Return(t)
    BY <1>6, <2>1 DEF ReleasePush, Abs!Return, Calling
  <2> QED BY <2>2 DEF Abs!PoolNext
<1>7. CASE Discard(t)
  <2>1. t \notin Calling /\ Calling' = Calling
    BY <1>7 DEF Discard, Calling
  <2>2. Abs!Discard(t)
    BY <1>7, <2>1 DEF Discard, Abs!Discard, Calling
  <2> QED BY <2>2 DEF Abs!PoolNext
<1>8. CASE CloseMark(t)
  <2>1. Calling' = Calling
    BY <1>1, <1>8 DEF CloseMark, Calling
  <2>2. Abs!Close
    BY <1>8, <2>1 DEF CloseMark, Abs!Close, Calling
  <2> QED BY <2>2 DEF Abs!PoolNext
<1>9. CASE CloseClear(t)
  <2>1. Calling' = Calling
    BY <1>1, <1>9 DEF CloseClear, Calling
  <2>2. Abs!Clear
    <3>1. closed
      BY <1>9 DEF CloseClear, IInv, TypeOK
    <3> QED BY <1>9, <2>1, <3>1 DEF CloseClear, Abs!Clear, Calling
  <2> QED BY <2>2 DEF Abs!PoolNext
<1> QED BY <1>2, <1>3, <1>4, <1>5, <1>6, <1>7, <1>8, <1>9

\* The pool of two mutexes implements the pool whose calls take effect at once,
\* for any threads, connections and maxsize (acquire, release, close).
THEOREM PoolImplemented == Spec => KeepsPromise
<1>1. Init => Abs!PoolInit
  BY DEF Init, Abs!PoolInit
<1>2. IInv /\ [Next]_vars => [Abs!PoolNext]_(Abs!poolVars)
  <2> SUFFICES ASSUME IInv, [Next]_vars
               PROVE  Abs!PoolNext \/ UNCHANGED <<closed, idle, Calling, held>>
    BY DEF Abs!poolVars, Calling
  <2>1. CASE UNCHANGED vars
    BY <2>1 DEF vars, Calling
  <2>2. ASSUME NEW t \in Thread, AcquireRefused(t)
        PROVE  UNCHANGED vars
    BY <2>2 DEF AcquireRefused
  <2> QED BY <2>1, <2>2, StepPromised DEF Next
<1> QED BY <1>1, <1>2, Always, PTL DEF Spec, KeepsPromise, Abs!Pool
=============================================================================
