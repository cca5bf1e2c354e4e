------------------------------ MODULE PoolSpec ------------------------------
(***************************************************************************)
(* What a pool promises its users, whatever locks it is built from: a      *)
(* stack of at most MaxSize idle connections, and no call begun after the  *)
(* close.  A call takes effect in one step; calls under way when the pool  *)
(* is closed still do.                                                     *)
(***************************************************************************)
EXTENDS Naturals, Sequences

CONSTANTS User, Conn, MaxSize, NoConn

VARIABLES
    shut,
    stack,      \* the idle connections, the most recently returned last
    calling,    \* the users inside acquire or release
    owned       \* user -> its connection

poolVars == <<shut, stack, calling, owned>>

PoolInit ==
    /\ shut = FALSE /\ stack = <<>> /\ calling = {}
    /\ owned = [u \in User |-> NoConn]

Begin(u) ==
    /\ ~shut /\ u \notin calling /\ calling' = calling \union {u}
    /\ UNCHANGED <<shut, stack, owned>>

\* acquire gives out the connection returned last.
Take(u) ==
    /\ u \in calling /\ owned[u] = NoConn /\ stack # <<>>
    /\ owned' = [owned EXCEPT ![u] = stack[Len(stack)]] /\ stack' = SubSeq(stack, 1, Len(stack) - 1)
    /\ calling' = calling \ {u} /\ UNCHANGED shut

\* Or a new one that nobody has, or fails.
Make(u) ==
    /\ u \in calling /\ owned[u] = NoConn
    /\ \E c \in {NoConn} \union Conn :
          /\ c \notin {stack[i] : i \in DOMAIN stack} /\ (\A v \in User : owned[v] = c => c = NoConn)
          /\ owned' = [owned EXCEPT ![u] = c]
    /\ calling' = calling \ {u} /\ UNCHANGED <<shut, stack>>

\* release keeps the connection while there is room.
Return(u) ==
    /\ u \in calling /\ owned[u] # NoConn
    /\ stack' = IF Len(stack) < MaxSize THEN Append(stack, owned[u]) ELSE stack
    /\ owned' = [owned EXCEPT ![u] = NoConn]
    /\ calling' = calling \ {u} /\ UNCHANGED shut

\* The user drops it, or release does once the pool is closed.
Discard(u) ==
    /\ u \notin calling /\ owned' = [owned EXCEPT ![u] = NoConn]
    /\ UNCHANGED <<shut, stack, calling>>

Close == shut' = TRUE /\ UNCHANGED <<stack, calling, owned>>

Clear == shut /\ stack' = <<>> /\ UNCHANGED <<shut, calling, owned>>

PoolNext ==
    \/ \E u \in User : Discard(u) \/ Begin(u) \/ Take(u) \/ Make(u) \/ Return(u)
    \/ Close \/ Clear

Pool == PoolInit /\ [][PoolNext]_poolVars
=============================================================================
