--------------------------- MODULE MCBalancerHeal ---------------------------
(* Three pools in one run: one with read-your-writes, whose map of           *)
(* remembered writes holds one key of two (the constants of the              *)
(* configuration), one with a second caller whose members are ejected and    *)
(* probed, and one of a single member with discovery and a database, whose   *)
(* calls may fail at every step of a checkout and of a statement.            *)
EXTENDS MCBalancer

CONSTANT Second
VARIABLE pool       \* "keyed", "healing" or "calling"

OneKey == {SharedKey}
TwoTasks == Task \cup {Second}
OneSeed == {1}

Healing == INSTANCE Balancer
    WITH Key <- OneKey, ReadYourWrites <- FALSE, Task <- TwoTasks

Calling == INSTANCE Balancer
    WITH Endpoint <- OneSeed, Seeds <- OneSeed, Listings <- OneListing, Key <- OneKey,
         Discover <- TRUE, Database <- TRUE, Attempts <- 2, MaxReplay <- 1

PoolInit == \/ pool = "keyed" /\ Init
            \/ pool = "healing" /\ Healing!Init
            \/ pool = "calling" /\ Calling!Init

PoolNext == /\ \/ pool = "keyed" /\ Next
               \/ pool = "healing" /\ Healing!Next
               \/ pool = "calling" /\ Calling!Next
            /\ UNCHANGED pool

\* Of the healing pool the background thread wakes (park_timeout) and runs on;
\* its users may stop anywhere, even in the middle of a call.  Of the calling
\* pool a call in progress takes its next step: dials and requests end, one way
\* or the other.
HealingSpec ==
    /\ PoolInit /\ [][PoolNext]_<<vars, pool>>
    /\ WF_vars(pool = "healing" /\ Healing!InCall(Maintainer))
    /\ WF_vars(pool = "healing" /\ Healing!MaintainerStep)
    /\ \A t \in Task : /\ WF_vars(pool = "calling" /\ Calling!InCall(t))
                        /\ WF_vars(pool = "calling" /\ Calling!Wrote(t))

\* While the pool is open, a member whose backoff has passed is probed, every
\* time: only the end of a probe takes it out of "due".
EjectedIsProbed ==
    \A ep \in Endpoint :
        pool = "healing" /\ ep \in known /\ member[ep].ejected = "due" /\ ~closed
           ~> closed \/ ep \notin known \/ member[ep].ejected # "due"

\* Every call returns: a checkout gives up after its attempts, a statement
\* after its retry.
CallsReturn ==
    \A t \in Task :
        pool = "calling" /\ pc[t] \notin {"none", "out"} ~> pc[t] \in {"none", "out"}
=============================================================================
