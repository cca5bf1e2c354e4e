------------------------------ MODULE Latency -------------------------------
(***************************************************************************)
(* When a balanced pool ejects a member for its latency (src/lib.rs,       *)
(* round_trip, eject, backoff_for, probe).  Balancer takes this verdict    *)
(* as a choice; here it is computed, for one member whose peers            *)
(* are measured and keep their averages.  Times are whole microseconds and *)
(* an average is rounded down after every sample.                          *)
(***************************************************************************)
EXTENDS Integers, Sequences, TLC

CONSTANTS
    Fast,           \* a round trip of the member when it is well
    Slow,           \* and when it is not
    Peers,          \* sequences of the peers' averages
    Floor, Factor,  \* eject_latency_floor, eject_latency_factor
    SeedSamples, MinSamples,
    Backoff, BackoffMax, Width,     \* eject_backoff and its limit; bits of the doublings
    Few,            \* "a few dozen statements"
    MaxSamples, MaxTurns, MaxEjections      \* bounds

ASSUME LatencyAssumption ==
    /\ Fast \in Nat /\ Slow \in Nat /\ Fast # Slow /\ Floor \in Nat /\ Factor \in Nat
    /\ SeedSamples \in Nat \ {0} /\ MinSamples \in Nat /\ Width \in Nat
    /\ Backoff \in Nat \ {0} /\ BackoffMax \in Nat \ {0}

VARIABLES
    stage, ewma,        \* "seeding", or "seeded": ewma is the average
    firsts,             \* the samples before that: how many, and the least
    samples,
    ejections, out,     \* times ejected in a row; for how long, 0 when admitted
    peers,
    slow,       \* slow samples since the last fast one, and all of them
    turns       \* changes between fast and slow

latVars == <<stage, ewma, firsts, samples, ejections, out, peers, slow, turns>>

Less(x, y) == IF x < y THEN x ELSE y
More(x, y) == IF x < y THEN y ELSE x

\* Mutant of Clamped: a sample counts in full.
ClampedNot(avg, sample) == sample

\* EWMA_CLAMP: no more than ten times the average or the floor.
Clamped(avg, sample) == Less(sample, 10 * More(avg, Floor))

\* EWMA_WEIGHT: five percent of the way.
Moved(avg, sample) == (19 * avg + Clamped(avg, sample)) \div 20

\* The lower median of the peers' averages.
Median(s) == SortSeq(s, LAMBDA x, y : x < y)[(Len(s) - 1) \div 2 + 1]

ASSUME PeersAssumption == \A s \in Peers : s # <<>> => Median(s) \in Nat

Judged(avg, median) == avg > Factor * median /\ avg - median > Floor

\* Mutant of doublings: the power wraps.
DoublingsWrap(n) == 2 ^ (n - 1) % 2 ^ Width

\* saturating_pow and saturating_mul
doublings(n) == Less(2 ^ (n - 1), 2 ^ Width - 1)

backoff_for(n) == Less(Backoff * doublings(n), BackoffMax)

NoFirsts == [n |-> 0, least |-> 0]

Pushed(f, sample) == [n |-> f.n + 1, least |-> IF f.n = 0 THEN sample ELSE Less(f.least, sample)]

seeded == stage = "seeded"

LatencyInit ==
    /\ stage = "seeding" /\ ewma = 0 /\ firsts = NoFirsts /\ samples = 0
    /\ ejections = 0 /\ out = 0
    /\ peers \in Peers
    /\ slow = [run |-> 0, all |-> 0] /\ turns = 0

\* round_trip, and eject: the peers are usable, so it is never refused, and the
\* count of ejections starts over unless the member was re-admitted less than
\* the longest backoff ago.
round_trip(sample) ==
    /\ samples < MaxSamples
    /\ samples' = samples + 1
    /\ \/ seeded /\ ewma' = Moved(ewma, sample) /\ UNCHANGED <<stage, firsts>>
       \/ /\ ~seeded /\ firsts.n + 1 >= SeedSamples
          /\ stage' = "seeded" /\ ewma' = Pushed(firsts, sample).least /\ firsts' = NoFirsts
       \/ /\ ~seeded /\ firsts.n + 1 < SeedSamples
          /\ firsts' = Pushed(firsts, sample) /\ UNCHANGED <<stage, ewma>>
    /\ IF seeded' /\ out = 0 /\ samples' >= MinSamples /\ Factor > 0 /\ peers # <<>>
             /\ Judged(ewma', Median(peers))
       THEN ejections' \in {ejections + 1, 1} /\ out' = backoff_for(ejections')
       ELSE UNCHANGED <<ejections, out>>
    /\ slow' = IF sample = Slow THEN [run |-> slow.run + 1, all |-> slow.all + 1] ELSE [slow EXCEPT !.run = 0]
    /\ turns' = IF (sample = Slow <=> slow.run > 0) THEN turns ELSE turns + 1
    /\ turns' <= MaxTurns
    /\ UNCHANGED peers

reset_latency == stage' = "seeding" /\ ewma' = 0 /\ firsts' = NoFirsts /\ samples' = 0

\* probe: success re-admits the member, and it is measured afresh.
ProbeReadmits ==
    /\ out # 0 /\ ejections < MaxEjections
    /\ out' = 0 /\ reset_latency
    /\ slow' = [run |-> 0, all |-> 0] /\ turns' = 0
    /\ UNCHANGED <<ejections, peers>>

\* probe: failure keeps it out for twice as long.
ProbeFails ==
    /\ out # 0 /\ ejections < MaxEjections
    /\ ejections' = ejections + 1 /\ out' = backoff_for(ejections')
    /\ UNCHANGED <<stage, ewma, firsts, samples, peers, slow, turns>>

LatencyNext == round_trip(Fast) \/ round_trip(Slow) \/ ProbeReadmits \/ ProbeFails

\* "One slow query does not eject a healthy member": one no slower than its
\* peers' median but for one round trip, whenever that came, is in rotation
\* (round_trip).
OneSlowHarmless == (peers = <<>> \/ Fast <= Median(peers)) /\ slow.all <= 1 => out = 0

\* "A member that stays slow is ejected within a few dozen statements": one that
\* is measured and has been slow for Few round trips is out; every ejection
\* lasts, no longer than the longest backoff and no shorter than the one before
\* it, when the doublings saturate too (round_trip, backoff_for).
SlowIsOut ==
    /\ peers # <<>> /\ slow.run >= Few /\ samples >= MinSamples => out # 0
    /\ out <= BackoffMax
    /\ ejections > 0 => backoff_for(ejections) > 0
    /\ ejections > 1 /\ out # 0 => out >= backoff_for(ejections - 1)
=============================================================================
