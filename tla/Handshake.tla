----------------------------- MODULE Handshake ------------------------------
(***************************************************************************)
(* Logging in (src/lib.rs, dial and the three handshakes), with the SCRAM  *)
(* arithmetic of skaidb-auth and the token legs of skaidb-gssapi.  Threads *)
(* of one process dial at the same time and share the cache of salted      *)
(* passwords.  The member at the other end is external.  It holds the      *)
(* user's verifier, which a new password or a new salt may replace at any  *)
(* time.  A trusting member lets everyone in and has no key to sign with.  *)
(* An old one does not read the mechanism and answers with a challenge.    *)
(*                                                                         *)
(* Cryptography is symbolic: a hash is the term of its inputs, and the     *)
(* exclusive or of two blocks the symmetric difference of two sets.        *)
(***************************************************************************)
EXTENDS FiniteSets, Integers, Sequences

CONSTANTS
    Dialer,         \* threads that dial
    Mechanisms,     \* thread -> the mechanisms its logins are set to
    Password,       \* passwords; NoPassword is the empty one
    NoPassword,
    Salt,
    Iterations,
    CacheLimit,     \* 64 in the code
    MaxLegs,        \* legs of a GSS context
    MaxDials,       \* bound on dials
    MaxChanges      \* bound on changes of the verifier

ASSUME HandshakeAssumption ==
    /\ Mechanisms \in [Dialer -> SUBSET {"scram", "external", "gssapi"}]
    /\ NoPassword \in Password /\ Password # {NoPassword} /\ Salt # {} /\ Iterations # {}
    /\ CacheLimit \in Nat \ {0} /\ MaxLegs \in Nat \ {0} /\ MaxDials \in Nat /\ MaxChanges \in Nat

VARIABLES
    login,      \* thread -> its dial: mechanism, password, challenge, key, error
    step,       \* thread -> where its dial is
    toServer, toClient,     \* thread -> frames under way
    member,     \* thread -> what the member remembers of the dial
    cache,      \* <<password, salt, iterations>> -> salted password
    verifier,   \* the credential the member stores
    kind,       \* of member: "current", "trusting" or "old"
    NONCE,      \* the counter of client nonces
    dials, changes

hsVars == <<login, step, toServer, toClient, member, cache, verifier, kind, NONCE, dials, changes>>

-----------------------------------------------------------------------------
(* SCRAM *)

hmac(key, msg) == <<"hmac", key, msg>>
sha256(x) == <<"sha256", x>>
pbkdf2(password, salt, iterations) == <<"pbkdf2", password, salt, iterations>>
xor(x, y) == (x \ y) \union (y \ x)

salted_password(password, salt, iterations) == pbkdf2(password, salt, iterations)

StoredKey(salted) == sha256({hmac(salted, "Client Key")})

client_proof_salted(salted, am) ==
    xor({hmac(salted, "Client Key")}, {hmac(StoredKey(salted), am)})

server_signature_salted(salted, am) == hmac(hmac(salted, "Server Key"), am)

\* ScramCredential::new
NewCredential(password, salt, iterations) ==
    LET salted == pbkdf2(password, salt, iterations)
    IN  [salt |-> salt, iterations |-> iterations, stored_key |-> StoredKey(salted),
         server_key |-> hmac(salted, "Server Key"), of |-> password]

\* Whether the proof verifies; the signature to answer with if it does.
verify(cred, am, proof) == sha256(xor(proof, {hmac(cred.stored_key, am)})) = cred.stored_key

Signature(cred, am) == hmac(cred.server_key, am)

auth_message(nonce, salt, iterations) == <<nonce, salt, iterations>>

-----------------------------------------------------------------------------

NoLogin == [mechanism |-> "none", password |-> NoPassword, nonce |-> 0, challenge |-> <<>>, salted |-> <<>>, legs |-> 0, context |-> FALSE]

NoSession == [cred |-> <<>>, nonce |-> 0]

HandshakeInit ==
    /\ login = [t \in Dialer |-> NoLogin]
    /\ step = [t \in Dialer |-> "idle"]
    /\ toServer = [t \in Dialer |-> <<>>] /\ toClient = [t \in Dialer |-> <<>>]
    /\ member = [t \in Dialer |-> NoSession]
    /\ cache = <<>>
    /\ verifier = NewCredential(CHOOSE p \in Password : p # NoPassword, CHOOSE s \in Salt : TRUE,
                                CHOOSE i \in Iterations : TRUE)
    /\ kind \in {"current", "trusting", "old"}
    /\ NONCE = 0 /\ dials = 0 /\ changes = 0

Ended == {"idle", "ok", "Auth", "Io", "Proto"}

\* The dial returns, and its connection no longer carries handshake frames.  What
\* a SCRAM login was about is kept for the properties.
Return(t, result) ==
    /\ step' = [step EXCEPT ![t] = result]
    /\ toServer' = [toServer EXCEPT ![t] = <<>>] /\ toClient' = [toClient EXCEPT ![t] = <<>>]
    /\ login' = [login EXCEPT ![t] = IF @.mechanism = "scram" THEN @ ELSE NoLogin]

Goto(t, s) == step' = [step EXCEPT ![t] = s]

Write(t, frames) == toServer' = [toServer EXCEPT ![t] = @ \o frames]

\* dial: connect, and start the mechanism the login is set to.  SCRAM counts a
\* nonce.  The GSS context is made before anything is written, and making it
\* fails without a ticket or in a build without Kerberos.
Dial(t, mechanism, password, legs) ==
    /\ step[t] \in Ended /\ dials < MaxDials /\ dials' = dials + 1
    /\ mechanism # "gssapi" => legs = 1
    /\ mechanism # "scram" => password = NoPassword
    /\ member' = [member EXCEPT ![t] = NoSession]
    /\ \/ /\ Goto(t, CASE mechanism = "scram" -> "challenge" [] mechanism = "external" -> "outcome"
                       [] mechanism = "gssapi" -> "tokens")
          /\ login' = [login EXCEPT ![t] = [NoLogin EXCEPT !.mechanism = mechanism, !.password = password,
                         !.nonce = NONCE, !.legs = legs, !.context = (mechanism = "gssapi")]]
          /\ Write(t, <<(<<"start", mechanism, NONCE>>)>>
                         \o IF mechanism = "gssapi" THEN <<(<<"token", 1>>)>> ELSE <<>>)
          /\ NONCE' = IF mechanism = "scram" THEN NONCE + 1 ELSE NONCE
          /\ UNCHANGED toClient
       \/ /\ Goto(t, "Io") \/ (mechanism = "gssapi" /\ Goto(t, "Auth"))
          /\ login' = [login EXCEPT ![t] = NoLogin]
          /\ UNCHANGED <<toServer, toClient, NONCE>>
    /\ UNCHANGED <<cache, verifier, kind, changes>>

HasFrame(t) == toClient[t] # <<>>

Took(t) == toClient' = [toClient EXCEPT ![t] = Tail(@)]

Quiet == UNCHANGED <<member, verifier, kind, NONCE, dials, changes>>

ReadChallenge(t) ==
    /\ step[t] = "challenge" /\ HasFrame(t)
    /\ LET f == Head(toClient[t])
       IN  IF f[1] = "challenge"
           THEN /\ Took(t) /\ Goto(t, "lookup")
                /\ login' = [login EXCEPT ![t].challenge = <<f[2], f[3]>>]
                /\ UNCHANGED toServer
           ELSE Return(t, "Proto")
    /\ UNCHANGED cache /\ Quiet

\* Mutant of CacheKey: the salt is taken to follow from the password.
CacheKeyPassword(l) == <<l.password>>

CacheKey(l) == <<l.password, l.challenge[1], l.challenge[2]>>

Salted(l) == salted_password(l.password, l.challenge[1], l.challenge[2])

\* cached_salted_password, up to the first unlock
Lookup(t) ==
    /\ step[t] = "lookup"
    /\ LET key == CacheKey(login[t])
       IN  IF key \in DOMAIN cache
           THEN login' = [login EXCEPT ![t].salted = cache[key]] /\ Goto(t, "prove")
           ELSE UNCHANGED login /\ Goto(t, "derive")
    /\ UNCHANGED <<toServer, toClient, cache>> /\ Quiet

\* The derivation, made outside the lock, and its insertion.
Derive(t) ==
    /\ step[t] = "derive"
    /\ LET key == CacheKey(login[t])
           kept == IF Cardinality(DOMAIN cache) >= CacheLimit THEN {} ELSE DOMAIN cache
           salted == Salted(login[t])
       IN  /\ cache' = [k \in kept \union {key} |-> IF k = key THEN salted ELSE cache[k]]
           /\ login' = [login EXCEPT ![t].salted = salted]
    /\ Goto(t, "prove")
    /\ UNCHANGED <<toServer, toClient>> /\ Quiet

AuthMessage(l) == auth_message(l.nonce, l.challenge[1], l.challenge[2])

Prove(t) ==
    /\ step[t] = "prove"
    /\ Write(t, <<(<<"finish", client_proof_salted(login[t].salted, AuthMessage(login[t]))>>)>>)
    /\ Goto(t, "outcome")
    /\ UNCHANGED <<login, toClient, cache>> /\ Quiet

\* A capacity refusal is a refused connection, not a failed login.
denied(reason) == IF reason = "capacity" THEN "Io" ELSE "Auth"

\* AuthOutcome in answer to a proof, to EXTERNAL, or to the last GSS leg.  Only
\* SCRAM with a password has a signature to check.
Outcome(l, f) ==
    IF f[1] \notin {"ok", "denied"} THEN "Proto"
    ELSE IF f[1] = "denied" THEN denied(f[2])
    ELSE IF l.mechanism = "scram" /\ l.password # NoPassword
            /\ f[2] # server_signature_salted(l.salted, AuthMessage(l)) THEN "Auth"
    ELSE "ok"

ReadOutcome(t) ==
    /\ step[t] = "outcome" /\ HasFrame(t)
    /\ Return(t, Outcome(login[t], Head(toClient[t])))
    /\ UNCHANGED cache /\ Quiet

\* The tokens a context answers leg k of n with: none after the last.
Reply(k, n) == IF k = n THEN <<>> ELSE <<(<<"token", k + 1>>)>>

Finished(k, n) == k >= n - 1

\* Mutant of GssFinal: the last token of a finished context is kept.
GssFinalKept(k, n) == IF Finished(k, n) THEN <<>> ELSE Reply(k, n)

\* What the driver writes in answer to leg k: ClientStep::Continue and Done
\* both have their token sent.
GssFinal(k, n) == Reply(k, n)

\* One turn of handshake_gssapi's loop: the context takes the member's leg, or
\* refuses it, and there is no context left once it is finished.
ReadToken(t) ==
    /\ step[t] = "tokens" /\ HasFrame(t)
    /\ LET f == Head(toClient[t])
           l == login[t]
       IN  \/ /\ f[1] = "token" /\ l.context
              /\ Took(t) /\ Write(t, GssFinal(f[2], l.legs))
              /\ login' = [login EXCEPT ![t].context = ~Finished(f[2], l.legs)]
              /\ UNCHANGED step
           \/ f[1] \in {"ok", "denied"} /\ Return(t, Outcome(l, f))
           \/ f[1] \notin {"ok", "denied"} /\ Return(t, "Auth")
    /\ UNCHANGED cache /\ Quiet

Step(t) ==
    ReadChallenge(t) \/ Lookup(t) \/ Derive(t) \/ Prove(t) \/ ReadOutcome(t) \/ ReadToken(t)

-----------------------------------------------------------------------------
(* The member *)

Answer(t, frames) == toClient' = [toClient EXCEPT ![t] = @ \o frames]

MemberTakes(t) == toServer' = [toServer EXCEPT ![t] = Tail(@)]

Elsewhere == UNCHANGED <<login, step, cache, verifier, kind, NONCE, dials, changes>>

\* A start: the challenge, the outcome of EXTERNAL, nothing yet for GSSAPI, or
\* a refusal.
MemberStart(t) ==
    /\ toServer[t] # <<>> /\ Head(toServer[t])[1] = "start" /\ MemberTakes(t)
    /\ LET f == Head(toServer[t])
       IN  /\ member' = IF f[2] = "scram" THEN [member EXCEPT ![t] = [cred |-> verifier, nonce |-> f[3]]] ELSE member
           /\ \/ Answer(t, CASE f[2] = "scram" \/ kind = "old" ->
                                  <<(<<"challenge", verifier.salt, verifier.iterations>>)>>
                             [] f[2] = "external" /\ kind # "old" -> <<(<<"ok", <<>>>>)>>
                             [] OTHER -> <<>>)
              \/ \E reason \in {"capacity", "credentials"} : Answer(t, <<(<<"denied", reason>>)>>)
    /\ Elsewhere

MemberFinish(t) ==
    /\ toServer[t] # <<>> /\ Head(toServer[t])[1] = "finish" /\ MemberTakes(t)
    /\ LET cred == member[t].cred
           am == auth_message(member[t].nonce, cred.salt, cred.iterations)
       IN  Answer(t, <<CASE kind = "trusting" -> <<"ok", <<>>>>
                         [] kind # "trusting" /\ verify(cred, am, Head(toServer[t])[2]) -> <<"ok", Signature(cred, am)>>
                         [] OTHER -> <<"denied", "credentials">>>>)
    /\ UNCHANGED member /\ Elsewhere

\* A leg of the client (ServerHandshake::step).  The outcome follows the last
\* leg; a leg the context refuses ends in a refusal.
MemberToken(t) ==
    /\ toServer[t] # <<>> /\ Head(toServer[t])[1] = "token" /\ MemberTakes(t)
    /\ LET k == Head(toServer[t])[2]
           n == login[t].legs
       IN  \/ Answer(t, Reply(k, n) \o IF Finished(k, n) THEN <<(<<"ok", <<>>>>)>> ELSE <<>>)
          \/ Answer(t, <<(<<"denied", "credentials">>)>>)
    /\ UNCHANGED member /\ Elsewhere

\* The connection breaks while the driver waits for a frame.
Break(t) ==
    /\ step[t] \in {"challenge", "outcome", "tokens"} /\ ~HasFrame(t)
    /\ Return(t, "Io")
    /\ UNCHANGED cache /\ Quiet

\* A new password, or the same one again: the salt is always new.
SetPassword ==
    /\ changes < MaxChanges /\ changes' = changes + 1
    /\ \E p \in Password \ {NoPassword}, s \in Salt \ {verifier.salt}, i \in Iterations : verifier' = NewCredential(p, s, i)
    /\ UNCHANGED <<login, step, toServer, toClient, member, cache, kind, NONCE, dials>>

MemberStep(t) == MemberStart(t) \/ MemberFinish(t) \/ MemberToken(t)

HandshakeNext ==
    \/ \E t \in Dialer, p \in Password, n \in 1..MaxLegs : \E m \in Mechanisms[t] : Dial(t, m, p, n)
    \/ \E t \in Dialer : Step(t) \/ MemberStep(t) \/ Break(t)
    \/ SetPassword

-----------------------------------------------------------------------------
(* Properties *)

Entered(t) == login[t].mechanism = "scram" /\ login[t].challenge # <<>> /\ login[t].password # NoPassword

Proves(t) == kind # "trusting" /\ member[t].cred.of = login[t].password

\* Whatever other threads have derived and cached, under whichever salt, and
\* however often the verifier has been replaced since: a login by password that
\* succeeds has reached a member that holds a verifier of this very password,
\* a login that is refused after the challenge has not, and the cache is bounded
\* (handshake, cached_salted_password).
LoginMutual ==
    /\ \A t \in Dialer : Entered(t) =>
          /\ step[t] = "ok" => Proves(t)
          /\ step[t] = "Auth" => ~Proves(t)
    /\ Cardinality(DOMAIN cache) <= CacheLimit

\* Every dial ends, with any number of GSS legs, when the member answers what it
\* reads and the connection holds (dial and the three handshakes).
DialsEnd == \A t \in Dialer : step[t] \notin Ended ~> step[t] \in Ended
=============================================================================
