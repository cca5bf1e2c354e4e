---------------------------- MODULE FactoryPool ----------------------------
(***************************************************************************)
(* The closure-built connection pool, Pool::new (src/lib.rs, enum          *)
(* PoolInner::Factory).  `closed` and `idle` sit behind two SEPARATE       *)
(* mutexes, so every call is a sequence of critical sections and the       *)
(* sections of different threads interleave.  One action is one critical   *)
(* section, or one call of the user's closure `make`.                      *)
(*                                                                         *)
(* A thread is one user of the pool: it holds at most one connection, and  *)
(* may close the pool while it does.  A connection is an identity; a       *)
(* dropped identity may be built again.                                    *)
(***************************************************************************)
EXTENDS Naturals, Sequences

CONSTANTS
    Thread,     \* the threads that share the pool
    Conn,       \* connections the closure can build
    MaxSize,    \* PoolInner::Factory.maxsize
    NoConn      \* "holds no connection"

ASSUME FactoryAssumption ==
    /\ MaxSize \in Nat \ {0}            \* Pool::new asserts maxsize >= 1
    /\ NoConn \notin Conn

VARIABLES
    closed,     \* PoolInner::Factory.closed
    idle,       \* PoolInner::Factory.idle, the most recently returned last
    pc,         \* where each thread stands in its current call
    held        \* the connection each thread owns

vars == <<closed, idle, pc, held>>

\* "rest"   outside any call
\* "pop"    acquire: `closed` was read as false, `idle` not locked yet
\* "make"   acquire: nothing idle, the closure is running
\* "push"   release: `closed` was read as false, `idle` not locked yet
\* "clear"  close: `closed` is set, `idle` not locked yet
Place == {"rest", "pop", "make", "push", "clear"}

Idle == {idle[i] : i \in DOMAIN idle}
Owned == {held[t] : t \in Thread} \ {NoConn}

Init ==
    /\ closed = FALSE
    /\ idle = <<>>
    /\ pc = [t \in Thread |-> "rest"]
    /\ held = [t \in Thread |-> NoConn]

----------------------------------------------------------------------------
\* acquire, first lock: a closed pool answers "pool is closed".
AcquireRefused(t) ==
    /\ pc[t] = "rest" /\ held[t] = NoConn
    /\ closed
    /\ UNCHANGED vars

AcquireAdmitted(t) ==
    /\ pc[t] = "rest" /\ held[t] = NoConn
    /\ ~closed
    /\ pc' = [pc EXCEPT ![t] = "pop"]
    /\ UNCHANGED <<closed, idle, held>>

\* Mutant of AcquirePop: the connection that has been idle longest.
AcquireOldest(t) ==
    /\ pc[t] = "pop"
    /\ \/ /\ idle # <<>>
          /\ held' = [held EXCEPT ![t] = Head(idle)]
          /\ idle' = Tail(idle)
          /\ pc' = [pc EXCEPT ![t] = "rest"]
       \/ /\ idle = <<>>
          /\ pc' = [pc EXCEPT ![t] = "make"]
          /\ UNCHANGED <<idle, held>>
    /\ UNCHANGED closed

\* acquire, second lock: Vec::pop, the most recently returned first.
AcquirePop(t) ==
    /\ pc[t] = "pop"
    /\ \/ /\ idle # <<>>
          /\ held' = [held EXCEPT ![t] = idle[Len(idle)]]
          /\ idle' = SubSeq(idle, 1, Len(idle) - 1)
          /\ pc' = [pc EXCEPT ![t] = "rest"]
       \/ /\ idle = <<>>
          /\ pc' = [pc EXCEPT ![t] = "make"]
          /\ UNCHANGED <<idle, held>>
    /\ UNCHANGED closed

\* acquire: the closure builds a connection, or fails and acquire with it.
AcquireMake(t) ==
    /\ pc[t] = "make"
    /\ \E c \in {NoConn} \cup (Conn \ (Idle \cup Owned)) :
          held' = [held EXCEPT ![t] = c]
    /\ pc' = [pc EXCEPT ![t] = "rest"]
    /\ UNCHANGED <<closed, idle>>

\* Mutant of ReleaseCheck: the connection is given up before it is pushed.
ReleaseGivenUp(t) ==
    /\ pc[t] = "rest" /\ held[t] # NoConn
    /\ held' = [held EXCEPT ![t] = NoConn]
    /\ pc' = [pc EXCEPT ![t] = IF closed THEN "rest" ELSE "push"]
    /\ UNCHANGED <<closed, idle>>

\* release, first lock: on a closed pool the connection is dropped.
ReleaseCheck(t) ==
    /\ pc[t] = "rest" /\ held[t] # NoConn
    /\ \/ /\ closed
          /\ held' = [held EXCEPT ![t] = NoConn]
          /\ UNCHANGED pc
       \/ /\ ~closed
          /\ pc' = [pc EXCEPT ![t] = "push"]
          /\ UNCHANGED held
    /\ UNCHANGED <<closed, idle>>

\* release, second lock: kept while there is room, dropped otherwise.
ReleasePush(t) ==
    /\ pc[t] = "push"
    /\ idle' = IF Len(idle) < MaxSize THEN Append(idle, held[t]) ELSE idle
    /\ held' = [held EXCEPT ![t] = NoConn]
    /\ pc' = [pc EXCEPT ![t] = "rest"]
    /\ UNCHANGED closed

\* The user drops a connection instead of returning it: release is a call the
\* user of acquire may leave out.
Discard(t) ==
    /\ pc[t] = "rest" /\ held[t] # NoConn
    /\ held' = [held EXCEPT ![t] = NoConn]
    /\ UNCHANGED <<closed, idle, pc>>

\* close, first lock.  `close` takes &self, so a thread may call it while it
\* owns a connection; Drop for Pool is the same call.
CloseMark(t) ==
    /\ pc[t] = "rest"
    /\ closed' = TRUE
    /\ pc' = [pc EXCEPT ![t] = "clear"]
    /\ UNCHANGED <<idle, held>>

\* close, second lock: Vec::clear.
CloseClear(t) ==
    /\ pc[t] = "clear"
    /\ idle' = <<>>
    /\ pc' = [pc EXCEPT ![t] = "rest"]
    /\ UNCHANGED <<closed, held>>

Next ==
    \E t \in Thread :
        \/ AcquireRefused(t)
        \/ AcquireAdmitted(t)
        \/ AcquirePop(t)
        \/ AcquireMake(t)
        \/ ReleaseCheck(t)
        \/ ReleasePush(t)
        \/ Discard(t)
        \/ CloseMark(t)
        \/ CloseClear(t)

Spec == Init /\ [][Next]_vars

----------------------------------------------------------------------------
\* Every variable has its type; a thread inside acquire owns nothing yet and
\* a thread inside release still owns what it returns; a pool being cleared is
\* closed.
TypeOK ==
    /\ closed \in BOOLEAN
    /\ idle \in Seq(Conn)
    /\ pc \in [Thread -> Place]
    /\ held \in [Thread -> Conn \cup {NoConn}]
    /\ \A t \in Thread : /\ pc[t] \in {"pop", "make"} => held[t] = NoConn
                         /\ pc[t] = "push" => held[t] # NoConn
                         /\ pc[t] = "clear" => closed

\* "maxsize bounds the connections kept idle": two threads that both read the
\* pool as open cannot push past it, because the length is tested under the
\* lock of the push.
IdleBounded == Len(idle) <= MaxSize

\* What of close's promise survives the race: a call whose first lock comes
\* after the close is refused (acquire) or drops its connection (release); only
\* calls that had read `closed` before it can still touch `idle`.
NoAdmissionAfterClose ==
    [][closed => \A t \in Thread :
                    pc'[t] \in {"pop", "push"} => pc'[t] = pc[t]]_vars

\* The two mutexes and the calls cut in two by them keep the promise of a pool
\* whose calls take effect at once: last in first out, bounded, and no call begun
\* after the close (acquire, release, close).
Abs == INSTANCE PoolSpec
    WITH User <- Thread, shut <- closed, stack <- idle, owned <- held,
         calling <- {t \in Thread : pc[t] \in {"pop", "make", "push"}}

KeepsPromise == Abs!Pool

\* "Close the pool and drop every idle connection. Checked-out connections
\* are dropped when they are returned." (doc of Pool::close): once every close
\* call has returned, a closed pool keeps no connection.
ClosedKeepsNone ==
    closed /\ (\A t \in Thread : pc[t] # "clear") => idle = <<>>
=============================================================================
