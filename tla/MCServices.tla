----------------------------- MODULE MCServices -----------------------------
(* The parts of the system that share no state with one another, one beside *)
(* the other: a behaviour runs one of them and leaves the rest as they were. *)
EXTENDS FactoryPool, Rbac, Handshake, Ffi, DirSize, Latency

VARIABLE part

partVars == <<vars, rbacVars, hsVars, ffiVars, dirVars, latVars, part>>

MCMechanisms == <<{"scram", "gssapi"}, {"scram", "external"}>>

MCGrantable == {<<"admin", "global">>, <<"use", "t">>, <<"use", "col">>, <<"use", "topic">>, <<"admin", "t">>}

MCPeers == {<<>>, <<1000, 2000>>, <<60000, 1000, 90000>>}

PartsInit ==
    /\ Init /\ RbacInit /\ HandshakeInit /\ FfiInit /\ DirSizeInit /\ LatencyInit
    /\ part \in {"pool", "roles", "login", "ffi", "size", "latency"}
    /\ part # "login" => kind = "current"
    /\ part # "size" => refreshing /\ \A s \in Size : onDisk <= s
    /\ part # "latency" => peers = <<>>

PoolPart == part = "pool" /\ Next /\ UNCHANGED <<rbacVars, hsVars, ffiVars, dirVars, latVars, part>>

RolesPart == part = "roles" /\ RbacNext /\ UNCHANGED <<vars, hsVars, ffiVars, dirVars, latVars, part>>

LoginPart == part = "login" /\ HandshakeNext /\ UNCHANGED <<vars, rbacVars, ffiVars, dirVars, latVars, part>>

FfiPart == part = "ffi" /\ FfiNext /\ UNCHANGED <<vars, rbacVars, hsVars, dirVars, latVars, part>>

SizePart == part = "size" /\ DirSizeNext /\ UNCHANGED <<vars, rbacVars, hsVars, ffiVars, latVars, part>>

LatencyPart == part = "latency" /\ LatencyNext /\ UNCHANGED <<vars, rbacVars, hsVars, ffiVars, dirVars, part>>

PartsNext == PoolPart \/ RolesPart \/ LoginPart \/ FfiPart \/ SizePart \/ LatencyPart

\* A thread that dials runs on, and the member answers what it reads.
PartsSpec ==
    /\ PartsInit /\ [][PartsNext]_partVars
    /\ \A t \in Dialer :
          /\ WF_hsVars(part = "login" /\ Step(t))
          /\ WF_hsVars(part = "login" /\ MemberStep(t))
=============================================================================
