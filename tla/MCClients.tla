----------------------------- MODULE MCClients -----------------------------
(* Two clients in one run: one with two prepared handles over connections   *)
(* that hand out the same two ids (the constants of the configuration), and *)
(* one without handles whose session, pipelines and row streams are larger. *)
EXTENDS ClientSession

CONSTANT Databases
VARIABLE client     \* "handles" or "streams"

Streaming == INSTANCE ClientSession
    WITH Handle <- {}, Ids <- {}, Database <- Databases, Rows <- {0, 1},
         Batch <- 2, Chunks <- 2, Window <- 1

ClientInit == \/ client = "handles" /\ Init
              \/ client = "streams" /\ Streaming!Init

ClientNext == /\ \/ client = "handles" /\ Next
                 \/ client = "streams" /\ Streaming!Next
              /\ UNCHANGED client

\* ClientStep and ServerStep of the client at hand.
FairClients ==
    /\ ClientInit /\ [][ClientNext]_<<vars, client>>
    /\ WF_vars(client = "handles" /\ ClientStep)
    /\ WF_vars(client = "handles" /\ ServerStep)
    /\ WF_vars(client = "streams" /\ Streaming!ClientStep)
    /\ WF_vars(client = "streams" /\ Streaming!ServerStep)

\* Every variable has its type.
ClientTypeOK == IF client = "handles" THEN TypeOK ELSE Streaming!TypeOK
=============================================================================
