------------------------------ MODULE DirSize -------------------------------
(***************************************************************************)
(* The cached size of a directory (skaidb-types/src/dir_size.rs): readers  *)
(* take the cached value and start a walk when it is old, a background     *)
(* thread walks, and callers may walk on their own thread at the same      *)
(* time.  The atomics are read and written one at a time.                  *)
(***************************************************************************)
EXTENDS Integers

CONSTANTS
    Reader,
    Background,     \* the thread refresh_in_background spawns
    Size,           \* sizes the directory takes
    REFRESH,
    MaxClock        \* bound on time

ASSUME DirSizeAssumption == REFRESH \in Nat \ {0} /\ MaxClock \in Nat /\ Background \notin Reader

VARIABLES
    bytes, refreshed_ms, refreshing,    \* Shared
    at,         \* thread -> where it is in get or refresh_now
    seen,       \* thread -> what it has loaded or measured
    onDisk,     \* the directory's size
    clock

dirVars == <<bytes, refreshed_ms, refreshing, at, seen, onDisk, clock>>

\* new: the first walk is started at once, if the thread can be spawned.
DirSizeInit ==
    /\ bytes = 0 /\ refreshed_ms = 0 /\ refreshing \in BOOLEAN
    /\ at = [t \in Reader \union {Background} |->
                IF t = Background /\ refreshing THEN "walk" ELSE "idle"]
    /\ seen = [t \in Reader \union {Background} |-> 0]
    /\ onDisk \in Size
    /\ clock = REFRESH

At(t, where) == at' = [at EXCEPT ![t] = where]

\* get: the time of the last walk, then the clock.
Load(t) ==
    /\ at[t] = "idle" /\ t # Background
    /\ seen' = [seen EXCEPT ![t] = refreshed_ms] /\ At(t, "compare")
    /\ UNCHANGED <<bytes, refreshed_ms, refreshing, onDisk, clock>>

Compare(t) ==
    /\ at[t] = "compare"
    /\ At(t, IF clock - seen[t] >= REFRESH THEN "swap" ELSE "idle")
    /\ seen' = [seen EXCEPT ![t] = 0]
    /\ UNCHANGED <<bytes, refreshed_ms, refreshing, onDisk, clock>>

\* refresh_in_background, up to the result of the swap
Swap(t) ==
    /\ at[t] = "swap" /\ refreshing' = TRUE
    /\ At(t, IF refreshing THEN "idle" ELSE "spawn")
    /\ UNCHANGED <<bytes, refreshed_ms, seen, onDisk, clock>>

\* Mutant of SpawnFailed: the flag stays up.
SpawnFailedKept(t) == At(t, "idle") /\ UNCHANGED refreshing

SpawnFailed(t) == At(t, "idle") /\ refreshing' = FALSE

Spawn(t) ==
    /\ at[t] = "spawn"
    /\ \/ /\ at' = [at EXCEPT ![t] = "idle", ![Background] = "walk"]
          /\ UNCHANGED refreshing
       \/ SpawnFailed(t)
    /\ UNCHANGED <<bytes, refreshed_ms, seen, onDisk, clock>>

\* A caller walks on its own thread.
refresh_now(t) ==
    /\ at[t] = "idle" /\ t # Background /\ At(t, "walk")
    /\ UNCHANGED <<bytes, refreshed_ms, refreshing, seen, onDisk, clock>>

walk(t) ==
    /\ at[t] = "walk" /\ At(t, "store")
    /\ seen' = [seen EXCEPT ![t] = onDisk]
    /\ UNCHANGED <<bytes, refreshed_ms, refreshing, onDisk, clock>>

Store(t) ==
    /\ at[t] = "store" /\ At(t, "stamp")
    /\ bytes' = seen[t] /\ seen' = [seen EXCEPT ![t] = 0]
    /\ UNCHANGED <<refreshed_ms, refreshing, onDisk, clock>>

Stamp(t) ==
    /\ at[t] = "stamp" /\ At(t, IF t = Background THEN "lower" ELSE "idle")
    /\ refreshed_ms' = IF clock > 1 THEN clock ELSE 1
    /\ UNCHANGED <<bytes, refreshing, seen, onDisk, clock>>

Lower(t) ==
    /\ at[t] = "lower" /\ At(t, "idle") /\ refreshing' = FALSE
    /\ UNCHANGED <<bytes, refreshed_ms, seen, onDisk, clock>>

Grow ==
    /\ onDisk' \in Size \ {onDisk}
    /\ UNCHANGED <<bytes, refreshed_ms, refreshing, at, seen, clock>>

Tick ==
    /\ clock < MaxClock /\ clock' = clock + 1
    /\ UNCHANGED <<bytes, refreshed_ms, refreshing, at, seen, onDisk>>

DirSizeNext ==
    \/ \E t \in Reader \union {Background} :
          Load(t) \/ Compare(t) \/ Swap(t) \/ Spawn(t) \/ refresh_now(t) \/ walk(t) \/ Store(t) \/ Stamp(t) \/ Lower(t)
    \/ Grow \/ Tick

\* The flag is up exactly while one background walk is being started or runs,
\* whichever readers raced for it and whether or not the thread could be
\* spawned: never two walks, and never a flag that keeps out every later one
\* (refresh_in_background).
FlagIsWalk ==
    LET starting == {t \in Reader : at[t] = "spawn"}
    IN  IF at[Background] # "idle" THEN refreshing /\ starting = {}
        ELSE IF refreshing THEN \E t \in Reader : starting = {t}
        ELSE starting = {}
=============================================================================
