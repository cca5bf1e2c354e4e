-------------------------- MODULE HandshakeProofs --------------------------
(***************************************************************************)
(* A login by password and the member at its other end agree on whether    *)
(* they share the password (Handshake), for any number of threads that     *)
(* dial, any bound of their cache and any number of changes of the         *)
(* verifier.                                                               *)
(***************************************************************************)
EXTENDS Handshake, FiniteSetTheorems, SequenceTheorems, TLAPS

HandshakeSpec == HandshakeInit /\ [][HandshakeNext]_hsVars

Keys == Password \X Salt \X Iterations

Challenges == {<<>>} \cup (Salt \X Iterations)

SaltedPasswords ==
    {<<>>} \cup {pbkdf2(p, s, i) : p \in Password, s \in Salt, i \in Iterations}

Logins ==
    [mechanism : {"none", "scram", "external", "gssapi"}, password : Password, nonce : Nat,
     challenge : Challenges, salted : SaltedPasswords, legs : Nat, context : BOOLEAN]

Credentials == {NewCredential(p, s, i) : p \in Password, s \in Salt, i \in Iterations}

Steps == Ended \cup {"challenge", "lookup", "derive", "prove", "outcome", "tokens"}

\* Each step belongs to its mechanisms, and a dial that has ended has left no
\* frames behind.
Typed ==
    /\ login \in [Dialer -> Logins]
    /\ step \in [Dialer -> Steps]
    /\ toServer = [t \in Dialer |-> toServer[t]] /\ toClient = [t \in Dialer |-> toClient[t]]
    /\ member = [t \in Dialer |-> member[t]] /\ verifier \in Credentials /\ NONCE \in Nat
    /\ \A t \in Dialer :
          /\ step[t] \in {"challenge", "lookup", "derive", "prove"} => login[t].mechanism = "scram"
          /\ step[t] = "tokens" => login[t].mechanism = "gssapi"
          /\ step[t] \in Ended => toServer[t] = <<>> /\ toClient[t] = <<>>

\* The cache holds what its keys derive to, and no more than its bound.
CacheOK ==
    /\ IsFiniteSet(DOMAIN cache) /\ Cardinality(DOMAIN cache) <= CacheLimit
    /\ DOMAIN cache \subseteq Keys
    /\ \A k \in DOMAIN cache : cache[k] = pbkdf2(k[1], k[2], k[3])

\* The member has challenged the dial with the verifier it remembers of it.
Challenged(t) ==
    /\ member[t] = [cred |-> member[t].cred, nonce |-> login[t].nonce]
    /\ member[t].cred \in Credentials

Met(t) ==
    /\ Challenged(t)
    /\ login[t].challenge = <<member[t].cred.salt, member[t].cred.iterations>>

\* What the member's last frame says of the login.
Verdict(t, f) ==
    \/ kind = "trusting" /\ f = <<"ok", <<>>>>
    \/ /\ kind # "trusting" /\ member[t].cred.of = login[t].password
       /\ f = <<"ok", Signature(member[t].cred, AuthMessage(login[t]))>>
    \/ /\ kind # "trusting" /\ member[t].cred.of # login[t].password
       /\ f = <<"denied", "credentials">>

\* A SCRAM dial, step by step: the frames under way and what both ends know.
Dialog(t) ==
    /\ step[t] = "challenge" =>
          /\ login[t].challenge = <<>>
          /\ \/ /\ toServer[t] = <<(<<"start", "scram", login[t].nonce>>)>> /\ toClient[t] = <<>>
             \/ /\ toServer[t] = <<>> /\ Challenged(t)
                /\ toClient[t] = <<(<<"challenge", member[t].cred.salt, member[t].cred.iterations>>)>>
             \/ /\ toServer[t] = <<>>
                /\ \E reason : toClient[t] = <<(<<"denied", reason>>)>>
    /\ step[t] \in {"lookup", "derive", "prove"} =>
          toServer[t] = <<>> /\ toClient[t] = <<>> /\ Met(t)
    /\ step[t] \in {"prove", "outcome"} => login[t].salted = Salted(login[t])
    /\ step[t] = "outcome" =>
          /\ Met(t)
          /\ \/ /\ toClient[t] = <<>>
                /\ toServer[t] = <<(<<"finish", client_proof_salted(login[t].salted,
                                                                    AuthMessage(login[t]))>>)>>
             \/ toServer[t] = <<>> /\ \E f : toClient[t] = <<f>> /\ Verdict(t, f)
    /\ step[t] \in Ended /\ Entered(t) =>
          /\ step[t] = "ok" => Proves(t)
          /\ step[t] = "Auth" => ~Proves(t)

Inv == Typed /\ CacheOK /\ \A t \in Dialer : login[t].mechanism = "scram" => Dialog(t)

-----------------------------------------------------------------------------
(* SCRAM *)

\* Hashes are terms: they are equal only when what they are made of is.
LEMMA HmacTerm == \A a, b, c, d : hmac(a, b) = hmac(c, d) => a = c /\ b = d
  BY DEF hmac

LEMMA Sha256Term == \A a, b : sha256(a) = sha256(b) => a = b
  BY DEF sha256

LEMMA Pbkdf2Term == \A p, q, s, i : pbkdf2(p, s, i) = pbkdf2(q, s, i) => p = q
  BY DEF pbkdf2

LEMMA Apart == \A a, p, s, i : sha256(a) # pbkdf2(p, s, i)
  <1>1. \A a, p, s, i : sha256(a)[1] = "sha256" /\ pbkdf2(p, s, i)[1] = "pbkdf2"
    BY DEF sha256, pbkdf2
  <1> QED BY <1>1

LEMMA NoHmac == \A a, b : hmac(a, b) # <<>>
  <1>1. \A a, b : Len(hmac(a, b)) = 3
    BY DEF hmac
  <1>2. Len(<<>>) = 0
    OBVIOUS
  <1> QED BY <1>1, <1>2

\* A proof made from the salted password verifies when the verifier is of the
\* same password, and only then.
LEMMA Verified ==
    ASSUME NEW p, NEW q, NEW s, NEW i, NEW am
    PROVE  verify(NewCredential(q, s, i), am, client_proof_salted(pbkdf2(p, s, i), am)) <=> p = q
  <1> DEFINE A == hmac(pbkdf2(p, s, i), "Client Key")
             B == hmac(sha256({A}), am)
             C == hmac(pbkdf2(q, s, i), "Client Key")
             D == hmac(sha256({C}), am)
  <1>1. client_proof_salted(pbkdf2(p, s, i), am) = xor({A}, {B})
    BY DEF client_proof_salted, StoredKey
  <1>2. NewCredential(q, s, i).stored_key = sha256({C})
    BY DEF NewCredential, StoredKey
  <1>3. verify(NewCredential(q, s, i), am, xor({A}, {B}))
           <=> sha256(xor(xor({A}, {B}), {D})) = sha256({C})
    BY <1>2 DEF verify
  <1>4. sha256(xor(xor({A}, {B}), {D})) = sha256({C}) <=> xor(xor({A}, {B}), {D}) = {C}
    <2> HIDE DEF A, B, C, D
    <2> QED BY Sha256Term, Zenon
  <1>5. A # B /\ B # C /\ (A = C => p = q) /\ (p = q => A = C /\ B = D)
    <2>1. sha256({A}) # pbkdf2(p, s, i) /\ sha256({A}) # pbkdf2(q, s, i)
      BY Apart, Zenon
    <2> DEFINE stored == sha256({A})
               salted == pbkdf2(p, s, i)
               other == pbkdf2(q, s, i)
    <2>2. A # B
      <3>1. A = hmac(salted, "Client Key") /\ B = hmac(stored, am) /\ stored # salted
        BY <2>1
      <3> HIDE DEF stored, salted, other, A, B
      <3> QED BY <3>1, HmacTerm
    <2>3. B # C
      <3>1. C = hmac(other, "Client Key") /\ B = hmac(stored, am) /\ stored # other
        BY <2>1
      <3> HIDE DEF stored, salted, other, C, B
      <3> QED BY <3>1, HmacTerm
    <2>4. A = C => p = q
      <3>1. A = hmac(salted, "Client Key") /\ C = hmac(other, "Client Key")
        OBVIOUS
      <3>2. salted = other => p = q
        BY Pbkdf2Term
      <3> HIDE DEF stored, salted, other, A, C
      <3> QED BY <3>1, <3>2, HmacTerm
    <2> QED BY <2>2, <2>3, <2>4
  <1> HIDE DEF A, B, C, D
  <1>6. xor(xor({A}, {B}), {D}) = {C} <=> p = q
    <2>1. xor({A}, {B}) = {A, B}
      BY <1>5 DEF xor
    <2>2. CASE p = q
      <3>1. A = C /\ B = D
        BY <1>5, <2>2
      <3>2. xor({A, B}, {B}) = {A}
        BY <1>5 DEF xor
      <3> QED BY <2>1, <2>2, <3>1, <3>2
    <2>3. CASE p # q
      <3>1. A # C /\ A # B /\ B # C
        BY <1>5, <2>3
      <3>2. A \in xor({A, B}, {D}) \/ B \in xor({A, B}, {D})
        BY <3>1 DEF xor
      <3> QED BY <2>1, <2>3, <3>1, <3>2
    <2> QED BY <2>2, <2>3
  <1> QED BY <1>1, <1>3, <1>4, <1>6

\* The signature a member makes is the one the driver expects.
LEMMA Signed ==
    ASSUME NEW p, NEW s, NEW i, NEW am
    PROVE  Signature(NewCredential(p, s, i), am) = server_signature_salted(pbkdf2(p, s, i), am)
  BY DEF Signature, NewCredential, server_signature_salted

\* A verifier is of one password, salt and number of iterations.
LEMMA Stored ==
    ASSUME NEW c \in Credentials
    PROVE  /\ c = NewCredential(c.of, c.salt, c.iterations)
           /\ c.of \in Password /\ c.salt \in Salt /\ c.iterations \in Iterations
  <1>1. PICK p \in Password, s \in Salt, i \in Iterations : c = NewCredential(p, s, i)
    BY DEF Credentials
  <1>2. c.of = p /\ c.salt = s /\ c.iterations = i
    BY <1>1 DEF NewCredential
  <1> QED BY <1>1, <1>2

-----------------------------------------------------------------------------
(* Frames *)

LEMMA OneFrame ==
    ASSUME NEW f
    PROVE  /\ <<>> \o <<f>> = <<f>> /\ <<f>> \o <<>> = <<f>> /\ <<f>> # <<>>
           /\ Head(<<f>>) = f /\ Tail(<<f>>) = <<>>
  <1>1. <<f>> \in Seq({f})
    OBVIOUS
  <1>2. <<>> \o <<f>> = <<f>> /\ <<f>> \o <<>> = <<f>>
    BY <1>1, ConcatEmptySeq
  <1> QED BY <1>1, <1>2

-----------------------------------------------------------------------------
(* The steps of a dial *)

\* Nothing a dial's dialog depends on has changed.
Untouched(t) ==
    /\ login'[t] = login[t] /\ step'[t] = step[t] /\ toServer'[t] = toServer[t]
    /\ toClient'[t] = toClient[t] /\ member'[t] = member[t]

LEMMA OthersDialog ==
    ASSUME NEW t \in Dialer, Dialog(t), Untouched(t), UNCHANGED kind
    PROVE  Dialog(t)'
  <1>1. Challenged(t)' <=> Challenged(t)
    BY DEF Untouched, Challenged
  <1>2. Met(t)' <=> Met(t)
    BY <1>1 DEF Untouched, Met
  <1>3. Entered(t)' = Entered(t) /\ Proves(t)' = Proves(t)
    BY DEF Untouched, Entered, Proves
  <1>4. \A f : Verdict(t, f)' <=> Verdict(t, f)
    BY DEF Untouched, Verdict, AuthMessage
  <1> QED BY <1>1, <1>2, <1>3, <1>4 DEF Untouched, Dialog, Salted, AuthMessage

\* A step of one dial that keeps the types and the cache keeps the invariant
\* when it keeps the dial's own dialog.
LEMMA OneDial ==
    ASSUME Inv, NEW t \in Dialer, Typed', CacheOK', UNCHANGED kind,
           \A u \in Dialer \ {t} : Untouched(u),
           login'[t].mechanism = "scram" => Dialog(t)'
    PROVE  Inv'
  <1>1. ASSUME NEW u \in Dialer, login'[u].mechanism = "scram"
        PROVE  Dialog(u)'
    <2>1. CASE u = t
      BY <1>1, <2>1
    <2>2. CASE u # t
      <3>1. Untouched(u)
        BY <2>2
      <3>2. Dialog(u)
        BY <1>1, <3>1 DEF Inv, Untouched
      <3> QED BY <3>1, <3>2, OthersDialog
    <2> QED BY <2>1, <2>2
  <1> QED BY <1>1 DEF Inv

\* Only t's part of the state changes.
Only(t) ==
    /\ login' = [login EXCEPT ![t] = login'[t]] /\ step' = [step EXCEPT ![t] = step'[t]]
    /\ toServer' = [toServer EXCEPT ![t] = toServer'[t]]
    /\ toClient' = [toClient EXCEPT ![t] = toClient'[t]]
    /\ member' = [member EXCEPT ![t] = member'[t]]

\* The types after a step of one dial.
LEMMA TypedStep ==
    ASSUME Typed, NEW t \in Dialer, Only(t), login'[t] \in Logins, step'[t] \in Steps,
           verifier' \in Credentials, NONCE' \in Nat,
           step'[t] \in {"challenge", "lookup", "derive", "prove"} => login'[t].mechanism = "scram",
           step'[t] = "tokens" => login'[t].mechanism = "gssapi",
           step'[t] \in Ended => toServer'[t] = <<>> /\ toClient'[t] = <<>>
    PROVE  Typed' /\ \A u \in Dialer \ {t} : Untouched(u)
  <1>1. /\ login \in [Dialer -> Logins] /\ step \in [Dialer -> Steps]
        /\ toServer = [u \in Dialer |-> toServer[u]] /\ toClient = [u \in Dialer |-> toClient[u]]
        /\ member = [u \in Dialer |-> member[u]]
    BY DEF Typed
  <1>2. /\ login' \in [Dialer -> Logins] /\ step' \in [Dialer -> Steps]
        /\ toServer' = [u \in Dialer |-> toServer'[u]] /\ toClient' = [u \in Dialer |-> toClient'[u]]
        /\ member' = [u \in Dialer |-> member'[u]]
    BY <1>1 DEF Only
  <1>3. \A u \in Dialer \ {t} : Untouched(u)
    BY <1>1 DEF Only, Untouched
  <1>4. ASSUME NEW u \in Dialer
        PROVE  /\ step'[u] \in {"challenge", "lookup", "derive", "prove"} => login'[u].mechanism = "scram"
               /\ step'[u] = "tokens" => login'[u].mechanism = "gssapi"
               /\ step'[u] \in Ended => toServer'[u] = <<>> /\ toClient'[u] = <<>>
    <2>1. CASE u = t
      BY <2>1
    <2>2. CASE u # t
      BY <1>3, <2>2 DEF Untouched, Typed
    <2> QED BY <2>1, <2>2
  <1> QED BY <1>2, <1>3, <1>4 DEF Typed

\* What a step assigns to t's part, or leaves as it is.
LEMMA Put ==
    ASSUME Typed, NEW t \in Dialer
    PROVE  /\ \A l : login' = [login EXCEPT ![t] = l]
                    => login'[t] = l /\ login' = [login EXCEPT ![t] = login'[t]]
           /\ \A s : step' = [step EXCEPT ![t] = s]
                    => step'[t] = s /\ step' = [step EXCEPT ![t] = step'[t]]
           /\ \A in : toServer' = [toServer EXCEPT ![t] = in]
                    => toServer'[t] = in /\ toServer' = [toServer EXCEPT ![t] = toServer'[t]]
           /\ \A out : toClient' = [toClient EXCEPT ![t] = out]
                    => toClient'[t] = out /\ toClient' = [toClient EXCEPT ![t] = toClient'[t]]
           /\ \A m : member' = [member EXCEPT ![t] = m]
                    => member'[t] = m /\ member' = [member EXCEPT ![t] = member'[t]]
  BY DEF Typed

LEMMA Still ==
    ASSUME Typed, NEW t \in Dialer
    PROVE  /\ UNCHANGED login => login'[t] = login[t] /\ login' = [login EXCEPT ![t] = login'[t]]
           /\ UNCHANGED step => step'[t] = step[t] /\ step' = [step EXCEPT ![t] = step'[t]]
           /\ UNCHANGED toServer => /\ toServer'[t] = toServer[t]
                                    /\ toServer' = [toServer EXCEPT ![t] = toServer'[t]]
           /\ UNCHANGED toClient => /\ toClient'[t] = toClient[t]
                                    /\ toClient' = [toClient EXCEPT ![t] = toClient'[t]]
           /\ UNCHANGED member => /\ member'[t] = member[t]
                                  /\ member' = [member EXCEPT ![t] = member'[t]]
           /\ login[t] \in Logins /\ step[t] \in Steps
  BY DEF Typed

LEMMA Nobody == NoLogin \in Logins /\ NoLogin.mechanism = "none" /\ NoLogin.challenge = <<>>
  BY HandshakeAssumption DEF NoLogin, Logins, Challenges, SaltedPasswords

\* dial: the connection and the first frame, or an error.
LEMMA DialInv ==
    ASSUME Inv, NEW t \in Dialer, NEW mech \in Mechanisms[t], NEW p \in Password,
           NEW n \in 1 .. MaxLegs, Dial(t, mech, p, n)
    PROVE  Inv'
  <1>1. Typed /\ CacheOK /\ step[t] \in Ended /\ toServer[t] = <<>> /\ toClient[t] = <<>>
    BY DEF Inv, Dial, Typed
  <1>2. /\ member' = [member EXCEPT ![t] = NoSession] /\ UNCHANGED <<cache, verifier, kind>>
        /\ CacheOK' /\ verifier' \in Credentials
    BY <1>1 DEF Dial, CacheOK, Typed
  <1>3. mech \in {"scram", "external", "gssapi"} /\ n \in Nat /\ NONCE \in Nat
    BY <1>1, HandshakeAssumption DEF Typed
  <1>4. ASSUME NEW s \in {"Io", "Auth"}, step' = [step EXCEPT ![t] = s],
               login' = [login EXCEPT ![t] = NoLogin], UNCHANGED <<toServer, toClient, NONCE>>
        PROVE  Inv'
    <2>1. s \in Steps /\ s \in Ended
      BY DEF Steps, Ended
    <2>2. /\ Only(t) /\ login'[t] = NoLogin /\ step'[t] = s
          /\ toServer'[t] = <<>> /\ toClient'[t] = <<>>
      BY <1>1, <1>2, <1>4, Put, Still DEF Only
    <2>3. NONCE' \in Nat /\ s \notin {"challenge", "lookup", "derive", "prove", "tokens"}
      BY <1>3, <1>4
    <2>4. Typed' /\ \A u \in Dialer \ {t} : Untouched(u)
      BY <1>1, <1>2, <2>1, <2>2, <2>3, Nobody, TypedStep
    <2> QED BY <1>2, <2>2, <2>4, Nobody, OneDial
  <1>5. ASSUME Goto(t, CASE mech = "scram" -> "challenge" [] mech = "external" -> "outcome"
                         [] mech = "gssapi" -> "tokens"),
               login' = [login EXCEPT ![t] = [NoLogin EXCEPT !.mechanism = mech, !.password = p,
                           !.nonce = NONCE, !.legs = n, !.context = (mech = "gssapi")]],
               Write(t, <<(<<"start", mech, NONCE>>)>>
                           \o IF mech = "gssapi" THEN <<(<<"token", 1>>)>> ELSE <<>>),
               NONCE' = (IF mech = "scram" THEN NONCE + 1 ELSE NONCE), UNCHANGED toClient
        PROVE  Inv'
    <2> DEFINE s == CASE mech = "scram" -> "challenge" [] mech = "external" -> "outcome"
                      [] mech = "gssapi" -> "tokens"
               l == [NoLogin EXCEPT !.mechanism = mech, !.password = p, !.nonce = NONCE,
                                    !.legs = n, !.context = (mech = "gssapi")]
               in == toServer[t] \o (<<(<<"start", mech, NONCE>>)>>
                           \o IF mech = "gssapi" THEN <<(<<"token", 1>>)>> ELSE <<>>)
    <2>1. /\ step' = [step EXCEPT ![t] = s] /\ login' = [login EXCEPT ![t] = l]
          /\ toServer' = [toServer EXCEPT ![t] = in] /\ UNCHANGED toClient
      BY <1>5 DEF Goto, Write
    <2>3. /\ s \in Steps /\ s \notin Ended
          /\ s \in {"challenge", "outcome", "tokens"}
          /\ s = "challenge" <=> mech = "scram"
          /\ s = "tokens" <=> mech = "gssapi"
      BY <1>3 DEF Steps, Ended
    <2>4. /\ l \in Logins /\ l.mechanism = mech /\ l.nonce = NONCE /\ l.challenge = <<>>
      <3> DEFINE c == (mech = "gssapi")
      <3>1. c \in BOOLEAN
        OBVIOUS
      <3>2. l = [NoLogin EXCEPT !.mechanism = mech, !.password = p, !.nonce = NONCE,
                                !.legs = n, !.context = c]
        OBVIOUS
      <3> HIDE DEF c, l
      <3> QED BY <1>3, <3>1, <3>2, Nobody DEF Logins
    <2>5. mech = "scram" => in = <<(<<"start", "scram", NONCE>>)>>
      <3>1. ASSUME mech = "scram"
            PROVE  in = <<(<<"start", "scram", NONCE>>)>>
        <4> DEFINE f == <<"start", "scram", NONCE>>
        <4>1. in = <<>> \o (<<f>> \o <<>>)
          BY <1>1, <3>1
        <4> HIDE DEF f
        <4>2. in = <<f>>
          BY <4>1, OneFrame
        <4> QED BY <4>2 DEF f
      <3> QED BY <3>1
    <2>6. NONCE' \in Nat
      BY <1>3, <1>5
    <2> HIDE DEF s, l, in
    <2>2. /\ Only(t) /\ login'[t] = l /\ step'[t] = s /\ toServer'[t] = in /\ toClient'[t] = <<>>
      BY <1>1, <1>2, <2>1, Put, Still DEF Only
    <2>7. Typed' /\ \A u \in Dialer \ {t} : Untouched(u)
      <3>1. /\ login'[t] \in Logins /\ step'[t] \in Steps /\ step'[t] \notin Ended
            /\ step'[t] \in {"challenge", "lookup", "derive", "prove"} => login'[t].mechanism = "scram"
            /\ step'[t] = "tokens" => login'[t].mechanism = "gssapi"
        BY <2>2, <2>3, <2>4
      <3> QED BY <1>1, <1>2, <2>2, <2>6, <3>1, TypedStep
    <2>8. login'[t].mechanism = "scram" => Dialog(t)'
      <3>1. ASSUME login'[t].mechanism = "scram"
            PROVE  Dialog(t)'
        <4>1. /\ step'[t] = "challenge" /\ login'[t].challenge = <<>> /\ toClient'[t] = <<>>
              /\ toServer'[t] = <<(<<"start", "scram", login'[t].nonce>>)>>
          BY <2>2, <2>3, <2>4, <2>5, <3>1
        <4> QED BY <4>1 DEF Dialog, Ended
      <3> QED BY <3>1
    <2> QED BY <1>2, <2>7, <2>8, OneDial
  <1> QED BY <1>4, <1>5 DEF Dial, Goto

\* A dial that ends: its frames are gone, and what a SCRAM login was about is
\* kept.
LEMMA Returned ==
    ASSUME Typed, NEW t \in Dialer, NEW s \in {"ok", "Auth", "Io", "Proto"}, Return(t, s),
           UNCHANGED <<member, verifier, NONCE>>
    PROVE  /\ Typed' /\ \A u \in Dialer \ {t} : Untouched(u)
           /\ step'[t] = s /\ member'[t] = member[t]
           /\ login'[t] = IF login[t].mechanism = "scram" THEN login[t] ELSE NoLogin
  <1> DEFINE l == IF login[t].mechanism = "scram" THEN login[t] ELSE NoLogin
  <1>1. /\ step' = [step EXCEPT ![t] = s] /\ toServer' = [toServer EXCEPT ![t] = <<>>]
        /\ toClient' = [toClient EXCEPT ![t] = <<>>]
        /\ login' = [login EXCEPT ![t] = l]
    BY DEF Return, Typed
  <1>2. l \in Logins
    BY Still, Nobody
  <1>3. s \in Steps /\ s \in Ended /\ verifier' \in Credentials /\ NONCE' \in Nat
    BY DEF Steps, Ended, Typed
  <1> HIDE DEF l
  <1>4. /\ Only(t) /\ login'[t] = l /\ step'[t] = s /\ toServer'[t] = <<>>
        /\ toClient'[t] = <<>> /\ member'[t] = member[t]
    BY <1>1, Put, Still DEF Only
  <1>5. /\ login'[t] \in Logins /\ step'[t] \in Steps
        /\ step'[t] \notin {"challenge", "lookup", "derive", "prove", "tokens"}
    BY <1>2, <1>3, <1>4
  <1>6. Typed' /\ \A u \in Dialer \ {t} : Untouched(u)
    BY <1>3, <1>4, <1>5, TypedStep
  <1> QED BY <1>4, <1>6 DEF l

\* An error of the transport or of the protocol says nothing of the password.
LEMMA ReturnedInv ==
    ASSUME Inv, NEW t \in Dialer, NEW s \in {"ok", "Auth", "Io", "Proto"}, Return(t, s),
           UNCHANGED cache, Quiet,
           login[t].mechanism = "scram" /\ Entered(t) =>
              (s = "ok" => Proves(t)) /\ (s = "Auth" => ~Proves(t))
    PROVE  Inv'
  <1>1. Typed /\ CacheOK' /\ UNCHANGED <<member, verifier, NONCE, kind>>
    BY DEF Inv, Quiet, CacheOK
  <1>2. /\ Typed' /\ \A u \in Dialer \ {t} : Untouched(u)
        /\ step'[t] = s /\ member'[t] = member[t]
        /\ login'[t] = IF login[t].mechanism = "scram" THEN login[t] ELSE NoLogin
    BY <1>1, Returned
  <1>3. ASSUME login'[t].mechanism = "scram"
        PROVE  Dialog(t)'
    <2>1. login[t].mechanism = "scram" /\ login'[t] = login[t]
      BY <1>2, <1>3, Nobody
    <2>2. Entered(t)' = Entered(t) /\ Proves(t)' = Proves(t)
      BY <1>1, <1>2, <2>1 DEF Entered, Proves
    <2>3. step'[t] \in Ended
      BY <1>2 DEF Ended
    <2> QED BY <1>2, <2>1, <2>2, <2>3 DEF Dialog, Ended
  <1> QED BY <1>1, <1>2, <1>3, OneDial

LEMMA ReadChallengeInv ==
    ASSUME Inv, NEW t \in Dialer, ReadChallenge(t)
    PROVE  Inv'
  <1>1. /\ step[t] = "challenge" /\ toClient[t] # <<>> /\ Typed /\ CacheOK
        /\ login[t].mechanism = "scram" /\ login[t] \in Logins
        /\ UNCHANGED <<cache, member, verifier, kind, NONCE>> /\ Quiet
    BY Still DEF Inv, ReadChallenge, HasFrame, Typed, Quiet
  <1>2. Dialog(t)
    BY <1>1 DEF Inv
  <1>3. CASE Return(t, "Proto")
    BY <1>1, <1>3, ReturnedInv
  <1>4. CASE Head(toClient[t])[1] = "challenge" /\ ~Return(t, "Proto")
    <2>1. ~\E reason : toClient[t] = <<(<<"denied", reason>>)>>
      <3>1. ASSUME NEW reason, toClient[t] = <<(<<"denied", reason>>)>>
            PROVE  FALSE
        <4>1. Head(toClient[t]) = <<"denied", reason>>
          BY <3>1, OneFrame
        <4> QED BY <1>4, <4>1
      <3> QED BY <3>1
    <2> DEFINE salt == member[t].cred.salt
               iterations == member[t].cred.iterations
               f == <<"challenge", salt, iterations>>
    <2>2. toServer[t] = <<>> /\ Challenged(t) /\ toClient[t] = <<f>>
      BY <1>1, <1>2, <2>1 DEF Dialog
    <2>3. Head(toClient[t]) = f /\ Tail(toClient[t]) = <<>>
      <3> HIDE DEF f
      <3> QED BY <2>2, OneFrame
    <2>4. f[2] = salt /\ f[3] = iterations
      OBVIOUS
    <2>5. salt \in Salt /\ iterations \in Iterations
      BY <2>2, Stored DEF Challenged
    <2> DEFINE l == [login[t] EXCEPT !.challenge = <<salt, iterations>>]
    <2>6. /\ toClient' = [toClient EXCEPT ![t] = <<>>] /\ step' = [step EXCEPT ![t] = "lookup"]
          /\ login' = [login EXCEPT ![t] = l]
          /\ UNCHANGED toServer
      <3>1. /\ Took(t) /\ Goto(t, "lookup") /\ UNCHANGED toServer
            /\ login' = [login EXCEPT ![t].challenge = <<Head(toClient[t])[2], Head(toClient[t])[3]>>]
        BY <1>4 DEF ReadChallenge
      <3>2. login' = [login EXCEPT ![t] = l]
        BY <2>3, <2>4, <3>1
      <3>3. toClient' = [toClient EXCEPT ![t] = <<>>]
        BY <1>1, <2>3, <3>1 DEF Took, Typed
      <3> QED BY <3>1, <3>2, <3>3 DEF Goto
    <2>7. /\ l \in Logins /\ l.mechanism = "scram" /\ l.challenge = <<salt, iterations>>
          /\ l.nonce = login[t].nonce
      BY <1>1, <2>5 DEF Logins, Challenges
    <2> HIDE DEF l, f
    <2>8. /\ Only(t) /\ login'[t] = l /\ step'[t] = "lookup" /\ toServer'[t] = <<>>
          /\ toClient'[t] = <<>> /\ member'[t] = member[t]
      BY <1>1, <2>2, <2>6, Put, Still DEF Only
    <2>9. Typed' /\ \A u \in Dialer \ {t} : Untouched(u)
      BY <1>1, <2>7, <2>8, TypedStep DEF Steps, Ended, Typed
    <2>10. Met(t)'
      BY <2>2, <2>7, <2>8 DEF Met, Challenged
    <2>11. Dialog(t)'
      BY <2>8, <2>10 DEF Dialog, Ended
    <2>12. CacheOK'
      BY <1>1 DEF CacheOK
    <2> QED BY <1>1, <2>9, <2>11, <2>12, OneDial
  <1> QED BY <1>3, <1>4 DEF ReadChallenge

\* The salted password, from the cache or derived, is the one of the login's
\* password under the member's challenge.
LEMMA LookupInv ==
    ASSUME Inv, NEW t \in Dialer, Lookup(t)
    PROVE  Inv'
  <1>1. /\ step[t] = "lookup" /\ Typed /\ CacheOK
        /\ login[t].mechanism = "scram" /\ login[t] \in Logins
        /\ UNCHANGED <<toServer, toClient, cache, member, verifier, kind, NONCE>>
    BY Still DEF Inv, Lookup, Typed, Quiet
  <1>2. toServer[t] = <<>> /\ toClient[t] = <<>> /\ Met(t)
    BY <1>1 DEF Inv, Dialog
  <1>3. CacheOK' /\ verifier' \in Credentials /\ NONCE' \in Nat
    BY <1>1 DEF CacheOK, Typed
  <1> DEFINE key == CacheKey(login[t])
  <1>4. CASE key \in DOMAIN cache
    <2> DEFINE l == [login[t] EXCEPT !.salted = cache[key]]
    <2>1. step' = [step EXCEPT ![t] = "prove"] /\ login' = [login EXCEPT ![t] = l]
      BY <1>4 DEF Lookup, Goto
    <2>2. cache[key] = Salted(login[t]) /\ cache[key] \in SaltedPasswords
      <3>1. key \in Keys /\ cache[key] = pbkdf2(key[1], key[2], key[3])
        BY <1>1, <1>4 DEF CacheOK
      <3>2. /\ key[1] = login[t].password /\ key[2] = login[t].challenge[1]
            /\ key[3] = login[t].challenge[2]
        BY DEF CacheKey
      <3>3. key[1] \in Password /\ key[2] \in Salt /\ key[3] \in Iterations
        BY <3>1 DEF Keys
      <3> HIDE DEF key
      <3> QED BY <3>1, <3>2, <3>3 DEF Salted, salted_password, SaltedPasswords
    <2> HIDE DEF key
    <2>3. /\ l \in Logins /\ l.mechanism = "scram" /\ l.challenge = login[t].challenge
          /\ l.nonce = login[t].nonce /\ l.salted = Salted(l)
      <3>1. /\ l \in Logins /\ l.mechanism = "scram" /\ l.challenge = login[t].challenge
            /\ l.nonce = login[t].nonce /\ l.salted = cache[key] /\ l.password = login[t].password
        BY <1>1, <2>2 DEF Logins
      <3> HIDE DEF l
      <3> QED BY <2>2, <3>1 DEF Salted
    <2> HIDE DEF l
    <2>4. /\ Only(t) /\ login'[t] = l /\ step'[t] = "prove" /\ toServer'[t] = <<>>
          /\ toClient'[t] = <<>> /\ member'[t] = member[t]
      BY <1>1, <1>2, <2>1, Put, Still DEF Only
    <2>5. Typed' /\ \A u \in Dialer \ {t} : Untouched(u)
      BY <1>1, <1>3, <2>3, <2>4, TypedStep DEF Steps, Ended
    <2>6. Met(t)'
      BY <1>2, <2>3, <2>4 DEF Met, Challenged
    <2>7. Dialog(t)'
      BY <2>3, <2>4, <2>6 DEF Dialog, Ended, Salted
    <2> QED BY <1>1, <1>3, <2>5, <2>7, OneDial
  <1>5. CASE key \notin DOMAIN cache
    <2>1. step' = [step EXCEPT ![t] = "derive"] /\ UNCHANGED login
      BY <1>5 DEF Lookup, Goto
    <2>2. /\ Only(t) /\ login'[t] = login[t] /\ step'[t] = "derive" /\ toServer'[t] = <<>>
          /\ toClient'[t] = <<>> /\ member'[t] = member[t]
      BY <1>1, <1>2, <2>1, Put, Still DEF Only
    <2>3. Typed' /\ \A u \in Dialer \ {t} : Untouched(u)
      BY <1>1, <1>3, <2>2, TypedStep DEF Steps, Ended
    <2>4. Met(t)'
      BY <1>2, <2>2 DEF Met, Challenged
    <2>5. Dialog(t)'
      BY <2>2, <2>4 DEF Dialog, Ended
    <2> QED BY <1>1, <1>3, <2>3, <2>5, OneDial
  <1> QED BY <1>4, <1>5

\* A cache that is full is emptied before the new key is put in.
LEMMA Cached ==
    ASSUME CacheOK, NEW key \in Keys, NEW salted, salted = pbkdf2(key[1], key[2], key[3]),
           cache' = [k \in (IF Cardinality(DOMAIN cache) >= CacheLimit THEN {} ELSE DOMAIN cache)
                               \union {key} |-> IF k = key THEN salted ELSE cache[k]]
    PROVE  CacheOK'
  <1> DEFINE kept == IF Cardinality(DOMAIN cache) >= CacheLimit THEN {} ELSE DOMAIN cache
  <1>1. IsFiniteSet(kept) /\ Cardinality(kept) \in Nat /\ Cardinality(kept) + 1 <= CacheLimit
    <2>1. IsFiniteSet(DOMAIN cache) /\ Cardinality(DOMAIN cache) \in Nat
      BY FS_CardinalityType DEF CacheOK
    <2>2. CacheLimit \in Nat /\ CacheLimit >= 1
      BY HandshakeAssumption
    <2>3. IsFiniteSet({}) /\ Cardinality({}) = 0
      BY FS_EmptySet
    <2> DEFINE n == Cardinality(DOMAIN cache)
    <2>4. CASE n >= CacheLimit
      BY <2>2, <2>3, <2>4
    <2>5. CASE ~(n >= CacheLimit)
      <3>1. kept = DOMAIN cache
        BY <2>5
      <3> HIDE DEF n
      <3>2. n + 1 <= CacheLimit
        BY <2>1, <2>2, <2>5 DEF n
      <3> QED BY <2>1, <3>1, <3>2 DEF n
    <2> QED BY <2>4, <2>5
  <1>2. kept \subseteq DOMAIN cache
    OBVIOUS
  <1> DEFINE all == kept \union {key}
  <1>3. IsFiniteSet(all) /\ Cardinality(all) <= CacheLimit
    <2>1. /\ IsFiniteSet(all)
          /\ Cardinality(all) = Cardinality(kept) \/ Cardinality(all) = Cardinality(kept) + 1
      BY <1>1, FS_AddElement
    <2> HIDE DEF all
    <2> QED BY <1>1, <2>1, HandshakeAssumption
  <1>4. DOMAIN cache' = all
    OBVIOUS
  <1>5. \A k \in all : cache'[k] = pbkdf2(k[1], k[2], k[3]) /\ k \in Keys
    <2>1. ASSUME NEW k \in all
          PROVE  cache'[k] = pbkdf2(k[1], k[2], k[3]) /\ k \in Keys
      <3>1. cache'[k] = IF k = key THEN salted ELSE cache[k]
        OBVIOUS
      <3>2. k # key => k \in DOMAIN cache
        BY <1>2
      <3> QED BY <3>1, <3>2 DEF CacheOK
    <2> QED BY <2>1
  <1> QED BY <1>3, <1>4, <1>5 DEF CacheOK

LEMMA DeriveInv ==
    ASSUME Inv, NEW t \in Dialer, Derive(t)
    PROVE  Inv'
  <1>1. /\ step[t] = "derive" /\ Typed /\ CacheOK
        /\ login[t].mechanism = "scram" /\ login[t] \in Logins
        /\ UNCHANGED <<toServer, toClient, member, verifier, kind, NONCE>>
    BY Still DEF Inv, Derive, Typed, Quiet
  <1>2. toServer[t] = <<>> /\ toClient[t] = <<>> /\ Met(t)
    BY <1>1 DEF Inv, Dialog
  <1>3. verifier' \in Credentials /\ NONCE' \in Nat
    BY <1>1 DEF Typed
  <1> DEFINE key == CacheKey(login[t])
             salted == Salted(login[t])
             kept == IF Cardinality(DOMAIN cache) >= CacheLimit THEN {} ELSE DOMAIN cache
             l == [login[t] EXCEPT !.salted = salted]
  <1>4. /\ step' = [step EXCEPT ![t] = "prove"] /\ login' = [login EXCEPT ![t] = l]
        /\ cache' = [k \in kept \union {key} |-> IF k = key THEN salted ELSE cache[k]]
    BY DEF Derive, Goto
  <1>5. key \in Keys /\ salted = pbkdf2(key[1], key[2], key[3]) /\ salted \in SaltedPasswords
    <2>1. /\ login[t].password \in Password /\ login[t].challenge[1] \in Salt
          /\ login[t].challenge[2] \in Iterations
      BY <1>1, <1>2, Stored DEF Met, Challenged, Logins
    <2> DEFINE p == login[t].password
               s == login[t].challenge[1]
               i == login[t].challenge[2]
    <2>2. key = <<p, s, i>> /\ salted = pbkdf2(p, s, i)
      BY DEF CacheKey, Salted, salted_password
    <2> HIDE DEF key, salted, p, s, i
    <2>3. p \in Password /\ s \in Salt /\ i \in Iterations
      BY <2>1 DEF p, s, i
    <2>4. key \in Keys /\ key[1] = p /\ key[2] = s /\ key[3] = i
      BY <2>2, <2>3 DEF Keys
    <2>5. salted \in SaltedPasswords
      BY <2>2, <2>3 DEF SaltedPasswords
    <2> QED BY <2>2, <2>4, <2>5
  <1>6. CacheOK'
    <2> HIDE DEF key, salted, l
    <2>1. cache' = [k \in (IF Cardinality(DOMAIN cache) >= CacheLimit THEN {} ELSE DOMAIN cache)
                             \union {key} |-> IF k = key THEN salted ELSE cache[k]]
      BY <1>4
    <2> QED BY <1>1, <1>5, <2>1, Cached
  <1> HIDE DEF key, kept
  <1>7. /\ l \in Logins /\ l.mechanism = "scram" /\ l.challenge = login[t].challenge
        /\ l.nonce = login[t].nonce /\ l.salted = Salted(l)
    <2>1. /\ l \in Logins /\ l.mechanism = "scram" /\ l.challenge = login[t].challenge
          /\ l.nonce = login[t].nonce /\ l.salted = salted /\ l.password = login[t].password
      <3> HIDE DEF salted
      <3> QED BY <1>1, <1>5 DEF Logins
    <2> HIDE DEF l
    <2> QED BY <2>1 DEF Salted
  <1> HIDE DEF l
  <1>8. /\ Only(t) /\ login'[t] = l /\ step'[t] = "prove" /\ toServer'[t] = <<>>
        /\ toClient'[t] = <<>> /\ member'[t] = member[t]
    BY <1>1, <1>2, <1>4, Put, Still DEF Only
  <1>9. Typed' /\ \A u \in Dialer \ {t} : Untouched(u)
    BY <1>1, <1>3, <1>7, <1>8, TypedStep DEF Steps, Ended
  <1>10. Met(t)'
    BY <1>2, <1>7, <1>8 DEF Met, Challenged
  <1>11. Dialog(t)'
    BY <1>7, <1>8, <1>10 DEF Dialog, Ended, Salted
  <1> QED BY <1>1, <1>6, <1>9, <1>11, OneDial

LEMMA ProveInv ==
    ASSUME Inv, NEW t \in Dialer, Prove(t)
    PROVE  Inv'
  <1>1. /\ step[t] = "prove" /\ Typed /\ CacheOK
        /\ login[t].mechanism = "scram" /\ login[t] \in Logins
        /\ UNCHANGED <<login, toClient, cache, member, verifier, kind, NONCE>>
    BY Still DEF Inv, Prove, Typed, Quiet
  <1>2. /\ toServer[t] = <<>> /\ toClient[t] = <<>> /\ Met(t)
        /\ login[t].salted = Salted(login[t])
    BY <1>1 DEF Inv, Dialog
  <1>3. CacheOK' /\ verifier' \in Credentials /\ NONCE' \in Nat
    BY <1>1 DEF CacheOK, Typed
  <1> DEFINE f == <<"finish", client_proof_salted(login[t].salted, AuthMessage(login[t]))>>
  <1>4. step' = [step EXCEPT ![t] = "outcome"] /\ toServer' = [toServer EXCEPT ![t] = <<f>>]
    <2>1. step' = [step EXCEPT ![t] = "outcome"] /\ Write(t, <<f>>)
      BY DEF Prove, Goto
    <2> HIDE DEF f
    <2>2. toServer' = [toServer EXCEPT ![t] = toServer[t] \o <<f>>]
      BY <2>1 DEF Write
    <2>3. toServer[t] \o <<f>> = <<f>>
      BY <1>2, OneFrame
    <2> QED BY <2>1, <2>2, <2>3
  <1> HIDE DEF f
  <1>5. /\ Only(t) /\ login'[t] = login[t] /\ step'[t] = "outcome" /\ toServer'[t] = <<f>>
        /\ toClient'[t] = <<>> /\ member'[t] = member[t]
    BY <1>1, <1>2, <1>4, Put, Still DEF Only
  <1>6. Typed' /\ \A u \in Dialer \ {t} : Untouched(u)
    BY <1>1, <1>3, <1>5, TypedStep DEF Steps, Ended
  <1>7. Met(t)'
    BY <1>2, <1>5 DEF Met, Challenged
  <1>8. f = <<"finish", client_proof_salted(login[t].salted, AuthMessage(login[t]))>>
    BY DEF f
  <1>9. Dialog(t)'
    BY <1>2, <1>5, <1>7, <1>8 DEF Dialog, Ended, Salted, AuthMessage
  <1> QED BY <1>1, <1>3, <1>6, <1>9, OneDial

\* The driver's verdict is the member's, and it trusts no member that has no
\* key to sign with.
LEMMA Judged ==
    ASSUME NEW t \in Dialer, login[t].mechanism = "scram", Met(t),
           login[t].salted = Salted(login[t]), NEW f, Verdict(t, f),
           login[t].password # NoPassword
    PROVE  /\ Outcome(login[t], f) = "ok" => Proves(t)
           /\ Outcome(login[t], f) = "Auth" => ~Proves(t)
  <1> DEFINE am == AuthMessage(login[t])
             expected == server_signature_salted(login[t].salted, am)
  <1>1. CASE kind = "trusting"
    <2>1. f = <<"ok", <<>>>> /\ f[1] = "ok" /\ f[2] = <<>>
      BY <1>1 DEF Verdict
    <2>2. expected # <<>>
      BY NoHmac DEF server_signature_salted
    <2> HIDE DEF expected
    <2>3. Outcome(login[t], f) = "Auth"
      BY <2>1, <2>2 DEF Outcome, expected
    <2> QED BY <1>1, <2>3 DEF Proves
  <1>2. CASE kind # "trusting" /\ member[t].cred.of = login[t].password
    <2>1. f = <<"ok", Signature(member[t].cred, am)>>
      BY <1>2 DEF Verdict
    <2>2. Signature(member[t].cred, am) = expected
      <3>1. /\ member[t].cred = NewCredential(login[t].password, login[t].challenge[1],
                                              login[t].challenge[2])
        BY <1>2, Stored DEF Met, Challenged
      <3>2. login[t].salted = pbkdf2(login[t].password, login[t].challenge[1],
                                     login[t].challenge[2])
        BY DEF Salted, salted_password
      <3> QED BY <3>1, <3>2, Signed
    <2> HIDE DEF expected, am
    <2>3. f[1] = "ok" /\ f[2] = expected
      BY <2>1, <2>2
    <2>4. Outcome(login[t], f) = "ok"
      BY <2>3 DEF Outcome, expected, am
    <2> QED BY <1>2, <2>4 DEF Proves
  <1>3. CASE kind # "trusting" /\ member[t].cred.of # login[t].password
    <2>1. f = <<"denied", "credentials">>
      BY <1>3 DEF Verdict
    <2>2. Outcome(login[t], f) = "Auth"
      BY <2>1 DEF Outcome, denied
    <2> QED BY <1>3, <2>2 DEF Proves
  <1> QED BY <1>1, <1>2, <1>3

LEMMA Results ==
    ASSUME NEW l, NEW f
    PROVE  Outcome(l, f) \in {"ok", "Auth", "Io", "Proto"}
  BY DEF Outcome, denied

LEMMA ReadOutcomeInv ==
    ASSUME Inv, NEW t \in Dialer, ReadOutcome(t)
    PROVE  Inv'
  <1> DEFINE s == Outcome(login[t], Head(toClient[t]))
  <1>1. /\ step[t] = "outcome" /\ toClient[t] # <<>> /\ Return(t, s) /\ UNCHANGED cache /\ Quiet
        /\ s \in {"ok", "Auth", "Io", "Proto"}
    BY Results DEF ReadOutcome, HasFrame
  <1>2. ASSUME login[t].mechanism = "scram", Entered(t)
        PROVE  (s = "ok" => Proves(t)) /\ (s = "Auth" => ~Proves(t))
    <2>1. Dialog(t)
      BY <1>2 DEF Inv
    <2>2. PICK f : toClient[t] = <<f>> /\ Verdict(t, f)
      BY <1>1, <2>1 DEF Dialog
    <2>3. Head(toClient[t]) = f
      BY <2>2, OneFrame
    <2>4. Met(t) /\ login[t].salted = Salted(login[t]) /\ login[t].password # NoPassword
      BY <1>1, <1>2, <2>1 DEF Dialog, Entered
    <2> QED BY <1>2, <2>2, <2>3, <2>4, Judged
  <1> HIDE DEF s
  <1> QED BY <1>1, <1>2, ReturnedInv

\* The legs of a GSS context are no SCRAM dial's.
LEMMA ReadTokenInv ==
    ASSUME Inv, NEW t \in Dialer, ReadToken(t)
    PROVE  Inv'
  <1> DEFINE f == Head(toClient[t])
  <1>1. /\ step[t] = "tokens" /\ Typed /\ CacheOK /\ login[t].mechanism = "gssapi"
        /\ login[t] \in Logins /\ UNCHANGED <<cache, member, verifier, kind, NONCE>> /\ Quiet
    BY Still DEF Inv, ReadToken, Typed, Quiet
  <1>2. \/ \E s \in {"ok", "Auth", "Io", "Proto"} : Return(t, s)
        \/ /\ Took(t) /\ Write(t, GssFinal(f[2], login[t].legs)) /\ UNCHANGED step
           /\ login' = [login EXCEPT ![t].context = ~Finished(f[2], login[t].legs)]
    BY Results DEF ReadToken
  <1>3. CASE \E s \in {"ok", "Auth", "Io", "Proto"} : Return(t, s)
    BY <1>1, <1>3, ReturnedInv
  <1>4. CASE /\ Took(t) /\ Write(t, GssFinal(f[2], login[t].legs)) /\ UNCHANGED step
             /\ login' = [login EXCEPT ![t].context = ~Finished(f[2], login[t].legs)]
    <2> DEFINE c == ~Finished(f[2], login[t].legs)
               l == [login[t] EXCEPT !.context = c]
    <2>1. c \in BOOLEAN
      BY DEF Finished
    <2>2. /\ login' = [login EXCEPT ![t] = l] /\ UNCHANGED step
          /\ toServer' = [toServer EXCEPT ![t] = toServer[t] \o GssFinal(f[2], login[t].legs)]
          /\ toClient' = [toClient EXCEPT ![t] = Tail(toClient[t])]
      BY <1>4 DEF Took, Write
    <2> HIDE DEF c
    <2>3. l \in Logins /\ l.mechanism = "gssapi"
      BY <1>1, <2>1 DEF Logins
    <2> HIDE DEF l
    <2>4. Only(t) /\ login'[t] = l /\ step'[t] = "tokens"
      BY <1>1, <2>2, Put, Still DEF Only
    <2>5. Typed' /\ \A u \in Dialer \ {t} : Untouched(u)
      BY <1>1, <2>3, <2>4, TypedStep DEF Steps, Ended, Typed
    <2>6. CacheOK'
      BY <1>1 DEF CacheOK
    <2> QED BY <1>1, <2>3, <2>4, <2>5, <2>6, OneDial
  <1> QED BY <1>2, <1>3, <1>4

-----------------------------------------------------------------------------
(* The steps of the member *)

\* The member takes a frame and answers: the dial goes on, in its own types.
LEMMA MemberTook ==
    ASSUME Inv, NEW t \in Dialer, toServer[t] # <<>>, MemberTakes(t),
           \E frames : Answer(t, frames), Elsewhere,
           member' = [member EXCEPT ![t] = member'[t]],
           login[t].mechanism = "scram" => Dialog(t)'
    PROVE  Inv'
  <1>1. Typed /\ CacheOK /\ UNCHANGED <<login, step, cache, verifier, kind, NONCE>>
    BY DEF Inv, Elsewhere
  <1>2. PICK frames : toClient' = [toClient EXCEPT ![t] = toClient[t] \o frames]
    BY DEF Answer
  <1>3. toServer' = [toServer EXCEPT ![t] = Tail(toServer[t])]
    BY DEF MemberTakes
  <1>4. Only(t) /\ login'[t] = login[t] /\ step'[t] = step[t]
    BY <1>1, <1>2, <1>3, Put, Still DEF Only
  <1>5. /\ step[t] \notin Ended /\ step[t] \in Steps /\ login[t] \in Logins
        /\ verifier' \in Credentials /\ NONCE' \in Nat
        /\ step[t] \in {"challenge", "lookup", "derive", "prove"} => login[t].mechanism = "scram"
        /\ step[t] = "tokens" => login[t].mechanism = "gssapi"
    BY <1>1 DEF Typed
  <1>6. Typed' /\ \A u \in Dialer \ {t} : Untouched(u)
    BY <1>1, <1>4, <1>5, TypedStep
  <1>7. CacheOK'
    BY <1>1 DEF CacheOK
  <1> QED BY <1>1, <1>4, <1>6, <1>7, OneDial

\* What a SCRAM dial has sent and the member has not read.
LEMMA Waiting ==
    ASSUME Inv, NEW t \in Dialer, login[t].mechanism = "scram", toServer[t] # <<>>
    PROVE  /\ toClient[t] = <<>>
           /\ \/ /\ step[t] = "challenge" /\ login[t].challenge = <<>>
                 /\ toServer[t] = <<(<<"start", "scram", login[t].nonce>>)>>
                 /\ Head(toServer[t]) = <<"start", "scram", login[t].nonce>>
              \/ /\ step[t] = "outcome" /\ Met(t) /\ login[t].salted = Salted(login[t])
                 /\ toServer[t] = <<(<<"finish", client_proof_salted(login[t].salted,
                                                                     AuthMessage(login[t]))>>)>>
                 /\ Head(toServer[t]) = <<"finish", client_proof_salted(login[t].salted,
                                                                        AuthMessage(login[t]))>>
           /\ Tail(toServer[t]) = <<>>
  <1>1. Typed /\ Dialog(t) /\ step[t] \in Steps
    BY DEF Inv, Typed
  <1>2. step[t] \in {"challenge", "outcome"}
    BY <1>1 DEF Typed, Dialog, Steps
  <1> DEFINE f == <<"start", "scram", login[t].nonce>>
             g == <<"finish", client_proof_salted(login[t].salted, AuthMessage(login[t]))>>
  <1>3. CASE step[t] = "challenge"
    <2>1. toServer[t] = <<f>> /\ toClient[t] = <<>> /\ login[t].challenge = <<>>
      BY <1>1, <1>3 DEF Dialog
    <2> HIDE DEF f
    <2>2. Head(toServer[t]) = f /\ Tail(toServer[t]) = <<>>
      BY <2>1, OneFrame
    <2> QED BY <1>3, <2>1, <2>2 DEF f
  <1>4. CASE step[t] = "outcome"
    <2>1. /\ toServer[t] = <<g>> /\ toClient[t] = <<>> /\ Met(t)
          /\ login[t].salted = Salted(login[t])
      BY <1>1, <1>4 DEF Dialog
    <2> HIDE DEF g
    <2>2. Head(toServer[t]) = g /\ Tail(toServer[t]) = <<>>
      BY <2>1, OneFrame
    <2> QED BY <1>4, <2>1, <2>2 DEF g
  <1> QED BY <1>2, <1>3, <1>4

LEMMA MemberStartInv ==
    ASSUME Inv, NEW t \in Dialer, MemberStart(t)
    PROVE  Inv'
  <1> DEFINE f == Head(toServer[t])
  <1>1. /\ toServer[t] # <<>> /\ f[1] = "start" /\ MemberTakes(t) /\ Elsewhere
        /\ Typed /\ verifier \in Credentials
        /\ member' = IF f[2] = "scram"
                       THEN [member EXCEPT ![t] = [cred |-> verifier, nonce |-> f[3]]] ELSE member
    BY DEF MemberStart, Inv, Typed
  <1>2. \/ Answer(t, CASE f[2] = "scram" \/ kind = "old" ->
                            <<(<<"challenge", verifier.salt, verifier.iterations>>)>>
                       [] f[2] = "external" /\ kind # "old" -> <<(<<"ok", <<>>>>)>>
                       [] OTHER -> <<>>)
        \/ \E reason \in {"capacity", "credentials"} : Answer(t, <<(<<"denied", reason>>)>>)
    BY DEF MemberStart
  <1>3. \E frames : Answer(t, frames)
    BY <1>2
  <1>4. member' = [member EXCEPT ![t] = member'[t]]
    BY <1>1, Put, Still
  <1>5. ASSUME login[t].mechanism = "scram"
        PROVE  Dialog(t)'
    <2>1. /\ toClient[t] = <<>> /\ Tail(toServer[t]) = <<>> /\ step[t] = "challenge"
          /\ f = <<"start", "scram", login[t].nonce>> /\ login[t].challenge = <<>>
      BY <1>1, <1>5, Waiting
    <2>2. f[2] = "scram" /\ f[3] = login[t].nonce
      BY <2>1
    <2>3. /\ member'[t] = [cred |-> verifier, nonce |-> login[t].nonce]
          /\ toServer'[t] = <<>> /\ login'[t] = login[t] /\ step'[t] = "challenge"
      <3>1. /\ member' = [member EXCEPT ![t] = [cred |-> verifier, nonce |-> login[t].nonce]]
            /\ toServer' = [toServer EXCEPT ![t] = <<>>]
        BY <1>1, <2>1, <2>2 DEF MemberTakes
      <3>2. Typed
        BY <1>1
      <3>3. member'[t] = [cred |-> verifier, nonce |-> login[t].nonce] /\ toServer'[t] = <<>>
        BY <3>1, <3>2 DEF Typed
      <3>4. login'[t] = login[t] /\ step'[t] = step[t]
        BY <1>1 DEF Elsewhere
      <3> QED BY <2>1, <3>3, <3>4
    <2>4. Challenged(t)'
      BY <1>1, <2>3 DEF Challenged
    <2>5. ASSUME NEW g, Answer(t, <<g>>)
          PROVE  toClient'[t] = <<g>>
      <3>1. toClient' = [toClient EXCEPT ![t] = <<>> \o <<g>>]
        BY <2>1, <2>5 DEF Answer
      <3>2. toClient' = [toClient EXCEPT ![t] = <<g>>]
        BY <3>1, OneFrame
      <3> QED BY <1>1, <3>2, Put
    <2>6. CASE Answer(t, <<(<<"challenge", verifier.salt, verifier.iterations>>)>>)
      <3>1. toClient' = [toClient EXCEPT ![t] = <<(<<"challenge", verifier.salt, verifier.iterations>>)>>]
        <4> DEFINE g == <<"challenge", verifier.salt, verifier.iterations>>
        <4>1. toClient' = [toClient EXCEPT ![t] = <<>> \o <<g>>]
          BY <2>1, <2>6 DEF Answer
        <4> HIDE DEF g
        <4>2. toClient' = [toClient EXCEPT ![t] = <<g>>]
          BY <4>1, OneFrame
        <4> QED BY <4>2 DEF g
      <3>2. toClient'[t] = <<(<<"challenge", verifier.salt, verifier.iterations>>)>>
        BY <1>1, <3>1 DEF Typed
      <3>3. toClient'[t] = <<(<<"challenge", member'[t].cred.salt, member'[t].cred.iterations>>)>>
        BY <2>3, <3>2
      <3> QED BY <2>1, <2>3, <2>4, <3>3 DEF Dialog, Ended
    <2>7. CASE \E reason \in {"capacity", "credentials"} : Answer(t, <<(<<"denied", reason>>)>>)
      <3>1. PICK reason : Answer(t, <<(<<"denied", reason>>)>>)
        BY <2>7
      <3>2. toClient'[t] = <<(<<"denied", reason>>)>>
        BY <2>5, <3>1
      <3> QED BY <2>1, <2>3, <3>2 DEF Dialog, Ended
    <2> QED BY <1>2, <2>2, <2>6, <2>7
  <1> QED BY <1>1, <1>3, <1>4, <1>5, MemberTook

\* The proof verifies exactly when the verifier is of the login's password.
LEMMA MemberFinishInv ==
    ASSUME Inv, NEW t \in Dialer, MemberFinish(t)
    PROVE  Inv'
  <1> DEFINE cred == member[t].cred
             am == auth_message(member[t].nonce, cred.salt, cred.iterations)
             f == Head(toServer[t])
             g == CASE kind = "trusting" -> <<"ok", <<>>>>
                    [] kind # "trusting" /\ verify(cred, am, f[2]) -> <<"ok", Signature(cred, am)>>
                    [] OTHER -> <<"denied", "credentials">>
  <1>1. /\ toServer[t] # <<>> /\ f[1] = "finish" /\ MemberTakes(t) /\ Elsewhere
        /\ Typed /\ UNCHANGED member /\ Answer(t, <<g>>)
    BY DEF MemberFinish, Inv
  <1>2. member' = [member EXCEPT ![t] = member'[t]]
    BY <1>1, Still
  <1>3. ASSUME login[t].mechanism = "scram"
        PROVE  Dialog(t)'
    <2>1. /\ toClient[t] = <<>> /\ Tail(toServer[t]) = <<>> /\ step[t] = "outcome" /\ Met(t)
          /\ login[t].salted = Salted(login[t])
          /\ f = <<"finish", client_proof_salted(login[t].salted, AuthMessage(login[t]))>>
      BY <1>1, <1>3, Waiting
    <2>2. /\ cred = NewCredential(cred.of, cred.salt, cred.iterations)
          /\ am = AuthMessage(login[t])
          /\ login[t].salted = pbkdf2(login[t].password, cred.salt, cred.iterations)
      <3>1. /\ cred = NewCredential(cred.of, cred.salt, cred.iterations)
            /\ login[t].challenge[1] = cred.salt /\ login[t].challenge[2] = cred.iterations
            /\ member[t].nonce = login[t].nonce
        <4>1. Challenged(t) /\ login[t].challenge = <<cred.salt, cred.iterations>>
          BY <2>1, Zenon DEF Met
        <4>2. member[t] = [cred |-> cred, nonce |-> login[t].nonce] /\ cred \in Credentials
          BY <4>1, Zenon DEF Challenged
        <4>3. cred = NewCredential(cred.of, cred.salt, cred.iterations)
          BY <4>2, Stored, Zenon
        <4>4. login[t].challenge[1] = cred.salt /\ login[t].challenge[2] = cred.iterations
          <5> DEFINE c == login[t].challenge
                     a == cred.salt
                     b == cred.iterations
          <5>1. c = <<a, b>>
            BY <4>1
          <5> HIDE DEF a, b, c
          <5>2. c[1] = a /\ c[2] = b
            BY <5>1
          <5> QED BY <5>2 DEF a, b, c
        <4>5. member[t].nonce = login[t].nonce
          <5> DEFINE x == login[t].nonce
                     y == cred
                     m == member[t]
          <5>1. m = [cred |-> y, nonce |-> x]
            BY <4>2
          <5> HIDE DEF x, y, m
          <5>2. m.nonce = x
            BY <5>1
          <5> QED BY <5>2 DEF x, m
        <4> QED BY <4>3, <4>4, <4>5
      <3> QED BY <2>1, <3>1 DEF AuthMessage, Salted, salted_password
    <2>3. f[2] = client_proof_salted(pbkdf2(login[t].password, cred.salt, cred.iterations), am)
      <3> DEFINE c == client_proof_salted(login[t].salted, AuthMessage(login[t]))
      <3>1. f = <<"finish", c>>
        BY <2>1
      <3>2. c = client_proof_salted(pbkdf2(login[t].password, cred.salt, cred.iterations), am)
        BY <2>2, Zenon
      <3> HIDE DEF c, f, am
      <3>3. f[2] = c
        BY <3>1
      <3> QED BY <3>2, <3>3, Zenon
    <2> HIDE DEF f
    <2>4. verify(cred, am, f[2]) <=> cred.of = login[t].password
      <3> DEFINE p == login[t].password
                 q == cred.of
                 s == cred.salt
                 i == cred.iterations
      <3>1. cred = NewCredential(q, s, i) /\ f[2] = client_proof_salted(pbkdf2(p, s, i), am)
        BY <2>2, <2>3
      <3> HIDE DEF p, q, s, i, am, cred
      <3>2. verify(NewCredential(q, s, i), am, client_proof_salted(pbkdf2(p, s, i), am)) <=> p = q
        BY Verified
      <3>3. verify(cred, am, f[2]) <=> p = q
        BY <3>1, <3>2
      <3> QED BY <3>3 DEF p, q
    <2>5. Verdict(t, g)
      <3>1. CASE kind = "trusting"
        BY <3>1 DEF Verdict
      <3>2. CASE kind # "trusting" /\ cred.of = login[t].password
        BY <2>2, <2>4, <3>2 DEF Verdict
      <3>3. CASE kind # "trusting" /\ cred.of # login[t].password
        BY <2>4, <3>3 DEF Verdict
      <3> QED BY <3>1, <3>2, <3>3
    <2> HIDE DEF g
    <2>6. /\ toClient'[t] = <<g>> /\ toServer'[t] = <<>> /\ login'[t] = login[t]
          /\ step'[t] = "outcome" /\ member'[t] = member[t] /\ kind' = kind
      <3>1. /\ toClient' = [toClient EXCEPT ![t] = <<>> \o <<g>>]
            /\ toServer' = [toServer EXCEPT ![t] = <<>>]
        BY <1>1, <2>1 DEF Answer, MemberTakes
      <3>2. toClient' = [toClient EXCEPT ![t] = <<g>>]
        BY <3>1, OneFrame
      <3>3. toClient'[t] = <<g>> /\ toServer'[t] = <<>>
        BY <1>1, <3>1, <3>2 DEF Typed
      <3> QED BY <1>1, <2>1, <3>3 DEF Elsewhere
    <2>7. Met(t)'
      BY <2>1, <2>6 DEF Met, Challenged
    <2>8. \A x : Verdict(t, x)' <=> Verdict(t, x)
      BY <2>6 DEF Verdict, AuthMessage
    <2>9. \E x : toClient'[t] = <<x>> /\ Verdict(t, x)'
      <3>1. \E x : toClient'[t] = <<x>> /\ Verdict(t, x)
        BY <2>5, <2>6
      <3> QED BY <2>8, <3>1
    <2> QED BY <2>1, <2>6, <2>7, <2>9 DEF Dialog, Ended, Salted
  <1>4. \E frames : Answer(t, frames)
    BY <1>1
  <1> QED BY <1>1, <1>2, <1>3, <1>4, MemberTook

LEMMA MemberTokenInv ==
    ASSUME Inv, NEW t \in Dialer, MemberToken(t)
    PROVE  Inv'
  <1>1. /\ toServer[t] # <<>> /\ Head(toServer[t])[1] = "token" /\ MemberTakes(t) /\ Elsewhere
        /\ Typed /\ UNCHANGED member
    BY DEF MemberToken, Inv
  <1>2. \E frames : Answer(t, frames)
    BY DEF MemberToken
  <1>3. member' = [member EXCEPT ![t] = member'[t]]
    BY <1>1, Still
  <1>4. login[t].mechanism # "scram"
    BY <1>1, Waiting
  <1> QED BY <1>1, <1>2, <1>3, <1>4, MemberTook

-----------------------------------------------------------------------------
(* The invariant *)

LEMMA InitInv ==
    ASSUME HandshakeInit
    PROVE  Inv
  <1>1. verifier \in Credentials
    <2>1. (CHOOSE p \in Password : p # NoPassword) \in Password
      BY HandshakeAssumption
    <2>2. (CHOOSE s \in Salt : TRUE) \in Salt /\ (CHOOSE i \in Iterations : TRUE) \in Iterations
      BY HandshakeAssumption
    <2> DEFINE p == CHOOSE p \in Password : p # NoPassword
               s == CHOOSE s \in Salt : TRUE
               i == CHOOSE i \in Iterations : TRUE
    <2>3. verifier = NewCredential(p, s, i) /\ p \in Password /\ s \in Salt /\ i \in Iterations
      BY <2>1, <2>2 DEF HandshakeInit
    <2> HIDE DEF p, s, i
    <2> QED BY <2>3 DEF Credentials
  <1>2. Typed
    BY <1>1, Nobody DEF HandshakeInit, Typed, Steps, Ended
  <1>3. CacheOK
    <2>1. DOMAIN cache = {}
      BY DEF HandshakeInit
    <2>2. IsFiniteSet(DOMAIN cache) /\ Cardinality(DOMAIN cache) = 0
      BY <2>1, FS_EmptySet
    <2>3. 0 <= CacheLimit
      BY HandshakeAssumption
    <2> QED BY <2>1, <2>2, <2>3 DEF CacheOK
  <1>4. \A t \in Dialer : login[t].mechanism # "scram"
    BY Nobody DEF HandshakeInit
  <1> QED BY <1>2, <1>3, <1>4 DEF Inv

LEMMA StepInv ==
    ASSUME Inv, [HandshakeNext]_hsVars
    PROVE  Inv'
  <1>1. ASSUME NEW t \in Dialer, Step(t)
        PROVE  Inv'
    BY <1>1, ReadChallengeInv, LookupInv, DeriveInv, ProveInv, ReadOutcomeInv, ReadTokenInv DEF Step
  <1>2. ASSUME NEW t \in Dialer, MemberStep(t)
        PROVE  Inv'
    BY <1>2, MemberStartInv, MemberFinishInv, MemberTokenInv DEF MemberStep
  <1>3. ASSUME NEW t \in Dialer, Break(t)
        PROVE  Inv'
    BY <1>3, ReturnedInv DEF Break
  <1>4. ASSUME UNCHANGED <<login, step, toServer, toClient, member, cache, kind, NONCE>>,
               verifier' \in Credentials
        PROVE  Inv'
    <2>1. Typed' /\ CacheOK'
      BY <1>4 DEF Inv, Typed, CacheOK
    <2>2. ASSUME NEW t \in Dialer, login'[t].mechanism = "scram"
          PROVE  Dialog(t)'
      <3>1. Dialog(t) /\ Untouched(t) /\ UNCHANGED kind
        BY <1>4, <2>2 DEF Inv, Untouched
      <3> QED BY <3>1, OthersDialog
    <2> QED BY <2>1, <2>2 DEF Inv
  <1>5. CASE SetPassword
    <2>1. PICK p \in Password, s \in Salt, i \in Iterations : verifier' = NewCredential(p, s, i)
      BY <1>5 DEF SetPassword
    <2>2. verifier' \in Credentials
      BY <2>1 DEF Credentials
    <2>3. UNCHANGED <<login, step, toServer, toClient, member, cache, kind, NONCE>>
      BY <1>5 DEF SetPassword
    <2> QED BY <1>4, <2>2, <2>3
  <1>6. CASE UNCHANGED hsVars
    BY <1>4, <1>6 DEF hsVars, Inv, Typed
  <1> QED BY <1>1, <1>2, <1>3, <1>5, <1>6, DialInv DEF HandshakeNext

\* A login by password that succeeds has reached a member that holds a verifier
\* of this very password, one refused after the challenge has not, and the cache
\* keeps its bound: for any number of threads, dials and changes of the verifier,
\* whatever the threads share through the cache (handshake,
\* cached_salted_password).
THEOREM LoginsAreMutual == HandshakeSpec => []LoginMutual
  <1>1. HandshakeInit => Inv
    BY InitInv
  <1>2. Inv /\ [HandshakeNext]_hsVars => Inv'
    BY StepInv
  <1>3. Inv => LoginMutual
    <2> SUFFICES ASSUME Inv
                 PROVE  LoginMutual
      OBVIOUS
    <2>1. ASSUME NEW t \in Dialer, Entered(t)
          PROVE  (step[t] = "ok" => Proves(t)) /\ (step[t] = "Auth" => ~Proves(t))
      <3>1. Dialog(t)
        BY <2>1 DEF Inv, Entered
      <3> QED BY <2>1, <3>1 DEF Dialog, Ended
    <2> QED BY <2>1 DEF Inv, CacheOK, LoginMutual
  <1> QED BY <1>1, <1>2, <1>3, PTL DEF HandshakeSpec
=============================================================================
