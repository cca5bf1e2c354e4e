-------------------------- MODULE MCClientSession --------------------------
EXTENDS ClientSession, TLC

\* Names are only compared for equality.
Names == Permutations(Endpoint) \cup Permutations(Statement)
HandleNames == Names \cup Permutations(Handle)
=============================================================================
