----------------------------- MODULE MCBalancer -----------------------------
EXTENDS Balancer, TLC

\* Checkout slots are interchangeable.
Tasks == Permutations(Task)

\* Every server lists itself under the endpoint it was reached at.
OwnName == [ep \in Endpoint |-> ep]
NoListings == {}

\* The server at 1 lists itself, alone or with the last endpoint, which may be
\* ready or not: the last endpoint comes, goes, and is out of order.
LastEndpoint == CHOOSE ep \in Endpoint : \A o \in Endpoint : o <= ep
FewListings ==
    {(1 :> "ready")} \cup
    {(1 :> "ready") @@ (LastEndpoint :> s) : s \in {"ready", "unreachable"}}

\* The last endpoint may also list itself alone: the seed has left the cluster.
SeedLeaves == FewListings \cup {(LastEndpoint :> "ready")}

\* The only member lists itself.
OneListing == {(1 :> "ready")}
=============================================================================
