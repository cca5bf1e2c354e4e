----------------------- MODULE ClientSessionInvariant -----------------------
(***************************************************************************)
(* The inductive invariant of a Client's session (ClientSession), and that *)
(* the calls of the user, dialling, writing, failing and every read of the *)
(* client keep it.  ClientSessionProofs proves the rest.                   *)
(*                                                                         *)
(* The invariant follows the conversation on the stream: how many of the   *)
(* exchange's requests have been written, served, answered and read, and   *)
(* that what stands on the stream are their answers, in their order.       *)
(***************************************************************************)
EXTENDS ClientSession, TLAPS

Ops == {"connect", "reconnect", "execute", "pipeline", "stream", "prepare", "run",
        "use", "budget"}

Abouts == Statement \cup Ids \cup {None}

RequestSet == [op : {"hello", "use", "budget", "prepare", "run", "execute", "stream"},
               arg : Abouts \cup Database \cup Rows, tag : 0 .. Batch]

StreamSet ==
    [at : Endpoint \cup {None}, state : {"up", "closed", "dead"}, db : Database \cup {None},
     budget : Rows, ids : [Ids -> Statement \cup {None}], sent : Seq(RequestSet),
     answers : Seq(Answers), rows : 0 .. Chunks + 1]

Types ==
    /\ stream \in StreamSet
    /\ stream.state # "up" => stream.sent = <<>> /\ stream.rows = 0
    /\ endpoints \subseteq Endpoint /\ todo \subseteq endpoints
    /\ phase = "dial" <=> todo # {}
    /\ phase # "none" => endpoints # {}
    /\ database \in Database \cup {None} /\ budget \in Rows
    /\ handles \in [Handle -> [id : Ids \cup {None}, sql : Statement \cup {None}]]
    /\ phase \in Phase /\ exchange \in {"main", "prepare", "hello", "database", "budget"}
    /\ written \in 0 .. Batch
    /\ result \in {"ok", "error", "io"}
    /\ runs \in [1 .. Batch -> 0 .. 3]

\* A call has the statements and the handle of its kind, and a slot for every
\* answer; only calls that can be retried have been.
CallOK ==
    /\ call \in [op : Ops, sqls : Seq(Statement), handle : Handle \cup {None},
                 arg : Database \cup {None} \cup Rows, large : SUBSET LargeAt,
                 left : BOOLEAN, again : BOOLEAN]
    /\ got \in Seq(Abouts) /\ Len(got) = Len(call.sqls)
    /\ call.op \in {"execute", "stream", "prepare", "run"} => Len(call.sqls) = 1
    /\ call.op = "pipeline" => Len(call.sqls) \in 1 .. Batch
    /\ call.op \in {"use", "budget", "connect", "reconnect"} => call.sqls = <<>>
    /\ call.op \in {"use", "budget"} => call.left
    /\ call.op \in {"prepare", "run"} => call.handle \in Handle
    /\ call.op = "run" => handles[call.handle].id \in Ids
                          /\ handles[call.handle].sql = call.sqls[1]
    /\ call.op = "use" => call.arg \in Database \cup {None}
    /\ call.op = "budget" => call.arg \in Rows
    /\ \A h \in Handle : handles[h].id # None => handles[h].sql \in Statement

\* How many requests the exchange in progress has.
Width == IF exchange = "main" /\ call.op = "pipeline" THEN Len(call.sqls) ELSE 1

InExchange == phase \in {"write", "read"}

PhaseOK ==
    /\ InExchange /\ exchange = "prepare" => call.op = "run"
    /\ InExchange /\ exchange = "main" => call.op \notin {"connect", "reconnect"}
    /\ phase \in {"rows", "drain"} => call.op = "stream" /\ got = call.sqls
    /\ phase \in {"dial", "write"} => \A i \in 1 .. Len(got) : got[i] = None
    /\ phase = "write" => written < Width
    /\ phase = "read" => written = Width
    /\ phase \in {"read", "rows", "drain"} => stream.state # "dead"

\* How often a statement may have been run so far.
MayHaveRun == IF call.op = "stream" \/ call.left THEN 1 ELSE 2

\* Before the call's own exchange is on the stream, a run is left, and so there
\* is for a statement that has not been written.
RunsOK ==
    /\ \A i \in 1 .. Batch : runs[i] <= MayHaveRun
    /\ InExchange => \A i \in 1 .. Batch : i > written => runs[i] < MayHaveRun
    /\ phase = "dial" \/ (InExchange /\ exchange # "main")
          => \A i \in 1 .. Batch : runs[i] < MayHaveRun

\* A single frame that answers the request r.
Replies(r, a) ==
    /\ a.tag = r.tag /\ a.kind \in {"done", "error", "id"}
    /\ a.kind = "id" => r.op = "prepare" /\ a.about \in Ids
    /\ r.op \in {"execute", "stream"} => a.about = r.arg
    /\ r.op # "prepare" => a.about \in Statement \cup {None}

\* The client has read the answers to the first k requests of the exchange;
\* those to the next stand on the stream, followed by the requests the server
\* has yet to take.
Served(k) == k + Len(stream.answers)

Progress(k) ==
    /\ k > 0 => phase = "read" /\ exchange = "main" /\ call.op = "pipeline"
    /\ k < Width /\ Served(k) <= written

Read(k) == \A i \in 1 .. Len(got) : got[i] = IF i <= k THEN call.sqls[i] ELSE None

Unread(k) == \A i \in 1 .. Len(stream.answers) : Replies(Requests[k + i], stream.answers[i])

Awaited(k) ==
    stream.state = "up" =>
        /\ Served(k) + Len(stream.sent) = written /\ stream.rows = 0
        /\ \A i \in 1 .. Len(stream.sent) : stream.sent[i] = Requests[Served(k) + i]
        /\ \A i \in 1 .. Batch : i > Served(k) => runs[i] < MayHaveRun

Conversation(k) == Progress(k) /\ Read(k) /\ Unread(k) /\ Awaited(k)

\* From the given frame on, the rows of a stream: chunks, then its last frame.
Flow(from) ==
    LET n == Len(stream.answers)
    IN  /\ \A i \in from .. n : i < n => stream.answers[i].kind = "chunk"
        /\ stream.state = "up" =>
              /\ stream.sent = <<>>
              /\ stream.rows > 0 => \A i \in from .. n : stream.answers[i].kind = "chunk"
              /\ stream.rows = 0 => n >= from /\ stream.answers[n].kind # "chunk"

\* The server has opened a stream of rows, and the client has read nothing.
Opened ==
    /\ phase = "read" /\ exchange = "main" /\ call.op = "stream"
    /\ stream.answers # <<>>
    /\ stream.answers[1].kind = "header" /\ stream.answers[1].about = call.sqls[1]
    /\ stream.answers[1].tag = 0
    /\ Read(0) /\ Flow(2)

\* Nothing asked and unanswered, nothing answered and unread.
Quiet ==
    /\ stream.state # "dead" => stream.answers = <<>>
    /\ stream.state = "up" => stream.sent = <<>> /\ stream.rows = 0

Talk ==
    /\ InExchange /\ stream.state # "dead" => Opened \/ \E k \in 0 .. Batch : Conversation(k)
    /\ phase \in {"none", "rest", "dial"} => Quiet
    /\ phase \in {"rows", "drain"} => Flow(1)

\* The server's answer on the stream, if there is one, accepts the request.
Accepted == stream.answers # <<>> /\ stream.answers[1].kind # "error"

\* What the replay has put back so far.
SessionOK ==
    InExchange /\ stream.state = "up" =>
        /\ exchange = "hello" => stream.db = None /\ stream.budget = 0
        /\ exchange = "database" => stream.budget = 0 /\ (Accepted => stream.db = database)
        /\ exchange = "budget" => stream.db = database
                                  /\ (Accepted => stream.budget = budget)
        /\ exchange \in {"main", "prepare"} /\ ~call.left => InSession
        /\ exchange = "prepare" /\ stream.answers # <<>> /\ stream.answers[1].kind = "id"
              => stream.ids[stream.answers[1].about] = call.sqls[1]
        /\ exchange = "main" /\ call.op = "run" /\ ~call.left
              => stream.ids[handles[call.handle].id] = handles[call.handle].sql

Inv == Types /\ CallOK /\ PhaseOK /\ RunsOK /\ Talk /\ SessionOK /\ OwnAnswers

-----------------------------------------------------------------------------
(* Where a step can leave the client *)

\* Between two calls.
LEMMA Landing ==
    ASSUME Types', CallOK', phase' \in {"none", "rest"}, Quiet', OwnAnswers',
           \A i \in 1 .. Batch : runs'[i] <= MayHaveRun'
    PROVE  Inv'
  BY DEF Inv, PhaseOK, RunsOK, Talk, SessionOK, InExchange

\* About to dial.
LEMMA Dialing ==
    ASSUME Types', CallOK', phase' = "dial", Quiet', \A i \in 1 .. Len(got') : got'[i] = None,
           \A i \in 1 .. Batch : runs'[i] < MayHaveRun'
    PROVE  Inv'
  <1>1. \A i \in 1 .. Batch : runs'[i] <= MayHaveRun'
    BY DEF Types, MayHaveRun
  <1> QED BY <1>1 DEF Inv, PhaseOK, RunsOK, Talk, SessionOK, InExchange, OwnAnswers

\* The exchange has at least one request, and at most Batch.
LEMMA WidthBounds ==
    ASSUME CallOK
    PROVE  Width \in 1 .. Batch
  BY SessionAssumption DEF CallOK, Width

\* At the beginning of an exchange.
LEMMA Starting ==
    ASSUME Types', CallOK', phase' = "write", written' = 0, Quiet', SessionOK',
           \A i \in 1 .. Len(got') : got'[i] = None,
           exchange' = "prepare" => call'.op = "run",
           exchange' = "main" => call'.op \notin {"connect", "reconnect"},
           \A i \in 1 .. Batch : runs'[i] < MayHaveRun'
    PROVE  Inv'
  <1>1. \A i \in 1 .. Batch : runs'[i] <= MayHaveRun'
    BY DEF Types, MayHaveRun
  <1>2. Width' \in 1 .. Batch
    BY SessionAssumption DEF CallOK, Width
  <1>3. PhaseOK'
    BY <1>2 DEF PhaseOK, InExchange
  <1>4. RunsOK'
    BY <1>1 DEF RunsOK
  <1>5. ASSUME stream'.state # "dead"
        PROVE  Conversation(0)'
    <2>1. Len(stream'.answers) = 0 /\ (stream'.state = "up" => Len(stream'.sent) = 0)
      BY <1>5 DEF Quiet
    <2> QED BY <1>2, <1>5, <2>1 DEF Conversation, Progress, Read, Unread, Awaited, Served,
                                    Quiet, CallOK
  <1>6. Talk'
    BY <1>5, SessionAssumption DEF Talk, InExchange
  <1>7. OwnAnswers'
    BY DEF OwnAnswers
  <1> QED BY <1>3, <1>4, <1>6, <1>7 DEF Inv

-----------------------------------------------------------------------------
(* The calls *)

\* A call that starts its own exchange on the stream as it stands.
LEMMA StartInv ==
    ASSUME Inv, NEW op \in Ops \ {"connect", "reconnect"}, NEW sqls \in Seq(Statement),
           NEW h, NEW arg, NEW large, Start(op, sqls, h, arg, large),
           database' \in Database \cup {None}, Types', CallOK'
    PROVE  Inv'
  <1>1. /\ phase = "rest" /\ phase' = "write" /\ written' = 0 /\ exchange' = "main"
        /\ UNCHANGED stream /\ call'.op = op /\ call'.left
        /\ got' = [i \in DOMAIN sqls |-> None]
        /\ runs' = [i \in 1 .. Batch |-> 0]
    BY DEF Start, Call, Begin
  <1>2. Quiet'
    BY <1>1 DEF Inv, Talk, Quiet
  <1>3. SessionOK'
    BY <1>1 DEF SessionOK
  <1>4. \A i \in 1 .. Batch : runs'[i] < MayHaveRun'
    BY <1>1 DEF MayHaveRun
  <1>5. \A i \in 1 .. Len(got') : got'[i] = None
    BY <1>1
  <1> QED BY <1>1, <1>2, <1>3, <1>4, <1>5, Starting

\* The types after the start of a call.
LEMMA StartTypes ==
    ASSUME Inv, NEW op \in Ops \ {"connect", "reconnect"}, NEW sqls \in Seq(Statement),
           NEW h, NEW arg, NEW large, Start(op, sqls, h, arg, large),
           database' \in Database \cup {None}, UNCHANGED handles
    PROVE  Types'
  <1>1. /\ phase = "rest" /\ phase' = "write" /\ written' = 0 /\ exchange' = "main"
        /\ UNCHANGED <<stream, endpoints, budget, handles, todo, result>>
        /\ runs' = [i \in 1 .. Batch |-> 0]
    BY DEF Start, Call, Begin
  <1>2. Types
    BY DEF Inv
  <1> QED BY <1>1, <1>2, SessionAssumption DEF Types, Phase

\* The slots of a new call are those of its statements.
LEMMA NewSlots ==
    ASSUME NEW sqls \in Seq(Statement)
    PROVE  LET g == [i \in DOMAIN sqls |-> None]
           IN  g \in Seq(Abouts) /\ Len(g) = Len(sqls)
  <1>1. Len(sqls) \in Nat /\ DOMAIN sqls = 1 .. Len(sqls)
    OBVIOUS
  <1>2. [i \in 1 .. Len(sqls) |-> None] \in Seq(Abouts)
    BY <1>1 DEF Abouts
  <1>3. Len([i \in 1 .. Len(sqls) |-> None]) = Len(sqls)
    BY <1>1
  <1> QED BY <1>1, <1>2, <1>3

\* Every call of the user but connect and reconnect.
LEMMA CallsInv ==
    ASSUME Inv,
           \/ \E s \in Statement, large \in Large(1) :
                 Execute(s, large) \/ QueryStream(s, large)
           \/ \E n \in 1 .. Batch :
                 \E sqls \in [1 .. n -> Statement], large \in Large(n) : Pipeline(sqls, large)
           \/ \E h \in Handle, s \in Statement, large \in Large(1) : Prepare(h, s, large)
           \/ \E h \in Handle, large \in Large(1) : ExecutePrepared(h, large)
           \/ \E d \in Database, large \in Large(1) : UseDatabase(d, large)
           \/ \E n \in Rows : SetScanBudget(n)
    PROVE  Inv'
  <1>1. Types /\ CallOK
    BY DEF Inv
  <1>2. {} \in SUBSET LargeAt /\ \A n : \A large \in Large(n) : large \in SUBSET LargeAt
    BY DEF Large
  <1>3. ASSUME NEW op \in {"execute", "stream"}, NEW s \in Statement,
               NEW large \in SUBSET LargeAt,
               Start(op, <<s>>, None, None, large), UNCHANGED <<database, handles>>
        PROVE  Inv'
    <2>1. <<s>> \in Seq(Statement) /\ Len(<<s>>) = 1
      OBVIOUS
    <2>2. Types'
      BY Zenon, <1>1, <1>3, <2>1, StartTypes DEF Ops, Types
    <2>3. CallOK'
      BY Zenon, <1>1, <1>3, <2>1, NewSlots DEF Start, Call, CallOK, Ops
    <2> QED BY Zenon, <1>1, <1>3, <2>1, <2>2, <2>3, StartInv DEF Ops, Types
  <1>4. ASSUME NEW n \in 1 .. Batch, NEW sqls \in [1 .. n -> Statement],
               NEW large \in SUBSET LargeAt, Pipeline(sqls, large)
        PROVE  Inv'
    <2>1. sqls \in Seq(Statement) /\ Len(sqls) = n
      BY SessionAssumption
    <2>2. Types'
      BY <1>1, <1>4, <2>1, StartTypes DEF Ops, Types, Pipeline
    <2>3. CallOK'
      BY Zenon, <1>1, <1>4, <2>1, NewSlots DEF Start, Call, CallOK, Ops, Pipeline
    <2> QED BY <1>1, <1>4, <2>1, <2>2, <2>3, StartInv DEF Ops, Types, Pipeline
  <1>5. ASSUME NEW h \in Handle, NEW s \in Statement, NEW large \in SUBSET LargeAt,
               Prepare(h, s, large)
        PROVE  Inv'
    <2>1. <<s>> \in Seq(Statement) /\ Len(<<s>>) = 1
      OBVIOUS
    <2>2. Types'
      BY Zenon, <1>1, <1>5, <2>1, StartTypes DEF Ops, Types, Prepare
    <2>3. CallOK'
      BY Zenon, <1>1, <1>5, <2>1, NewSlots DEF Start, Call, CallOK, Ops, Prepare
    <2> QED BY Zenon, <1>1, <1>5, <2>1, <2>2, <2>3, StartInv DEF Ops, Types, Prepare
  <1>6. ASSUME NEW h \in Handle, NEW large \in SUBSET LargeAt, ExecutePrepared(h, large)
        PROVE  Inv'
    <2> DEFINE s == handles[h].sql
    <2>1. s \in Statement /\ handles[h].id \in Ids
      BY <1>1, <1>6 DEF Types, CallOK, ExecutePrepared
    <2>2. Start("run", <<s>>, h, None, large) /\ UNCHANGED <<database, handles>>
      BY <1>6 DEF ExecutePrepared
    <2>3. call' = [op |-> "run", sqls |-> <<s>>, handle |-> h, arg |-> None,
                   large |-> large, left |-> TRUE, again |-> TRUE]
      BY <2>2 DEF Start, Call
    <2>4. /\ call'.op = "run" /\ call'.handle = h /\ call'.sqls = <<s>>
          /\ handles'[call'.handle].sql = s /\ handles'[call'.handle].id \in Ids
      BY <2>1, <2>2, <2>3
    <2>5. got' = [i \in DOMAIN <<s>> |-> None]
      BY <2>2 DEF Start, Call
    <2> HIDE DEF s
    <2>6. <<s>> \in Seq(Statement) /\ Len(<<s>>) = 1 /\ <<s>>[1] = s
      BY <2>1
    <2>7. Types'
      BY Zenon, <1>1, <2>2, <2>6, StartTypes DEF Ops, Types
    <2>8. CallOK'
      BY Zenon, <1>1, <1>6, <2>2, <2>3, <2>4, <2>5, <2>6, NewSlots DEF CallOK, Ops
    <2> QED BY Zenon, <1>1, <2>2, <2>6, <2>7, <2>8, StartInv DEF Ops, Types
  <1>7. ASSUME NEW d \in Database, NEW large \in SUBSET LargeAt, UseDatabase(d, large)
        PROVE  Inv'
    <2>1. <<>> \in Seq(Statement) /\ Len(<<>>) = 0
      OBVIOUS
    <2>2. Types'
      BY Zenon, <1>1, <1>7, <2>1, StartTypes DEF Ops, Types, UseDatabase
    <2>3. CallOK'
      BY <1>1, <1>7, <2>1, NewSlots DEF Start, Call, CallOK, Ops, UseDatabase, Types
    <2> QED BY Zenon, <1>1, <1>7, <2>1, <2>2, <2>3, StartInv DEF Ops, Types, UseDatabase
  <1>8. ASSUME NEW n \in Rows, SetScanBudget(n)
        PROVE  Inv'
    <2>1. <<>> \in Seq(Statement) /\ Len(<<>>) = 0
      OBVIOUS
    <2>2. Types'
      BY Zenon, <1>1, <1>8, <2>1, StartTypes DEF Ops, Types, SetScanBudget
    <2>3. CallOK'
      BY <1>1, <1>8, <1>2, <2>1, NewSlots DEF Start, Call, CallOK, Ops, SetScanBudget
    <2> QED BY Zenon, <1>1, <1>8, <2>1, <2>2, <2>3, StartInv DEF Ops, Types, SetScanBudget
  <1> QED BY Zenon, <1>3, <1>4, <1>5, <1>6, <1>7, <1>8, <1>2 DEF Execute, QueryStream

\* connect, add_endpoints, reconnect and the drop of a RowStream.
LEMMA OthersInv ==
    ASSUME Inv,
           \/ \E eps \in SUBSET Endpoint : Connect(eps) \/ AddEndpoints(eps)
           \/ Reconnect \/ Drop
    PROVE  Inv'
  <1>1. Types /\ CallOK
    BY DEF Inv
  <1>2. <<>> \in Seq(Statement) /\ Len(<<>>) = 0 /\ \A g : g = [i \in DOMAIN <<>> |-> None] => g = <<>>
    OBVIOUS
  <1>3. CASE Reconnect \/ \E eps \in SUBSET Endpoint : Connect(eps)
    <2>1. /\ phase' = "dial" /\ todo' = endpoints' /\ endpoints' # {} /\ endpoints' \subseteq Endpoint
          /\ UNCHANGED <<stream, database, budget, handles, exchange, written, result>>
          /\ phase \in {"none", "rest"}
      BY <1>1, <1>3 DEF Reconnect, Redial, Connect, Types
    <2>2. /\ got' = <<>> /\ runs' = [i \in 1 .. Batch |-> 0]
          /\ \E op \in {"connect", "reconnect"} :
                call' = [op |-> op, sqls |-> <<>>, handle |-> None, arg |-> None,
                         large |-> {}, left |-> TRUE, again |-> TRUE]
      BY <1>2, <1>3 DEF Reconnect, Connect, Call
    <2>3. Types'
      BY <1>1, <2>1, <2>2 DEF Types, Phase
    <2>4. CallOK'
      BY <1>1, <1>2, <2>1, <2>2 DEF CallOK, Ops
    <2>5. Quiet'
      BY <2>1 DEF Inv, Talk, Quiet
    <2>6. \A i \in 1 .. Batch : runs'[i] < MayHaveRun'
      BY <2>2 DEF MayHaveRun
    <2>7. \A i \in 1 .. Len(got') : got'[i] = None
      BY <2>2, <1>2
    <2> QED BY <2>1, <2>3, <2>4, <2>5, <2>6, <2>7, Dialing
  <1>4. CASE \E eps \in SUBSET Endpoint : AddEndpoints(eps)
    <2>1. /\ phase = "rest" /\ endpoints \subseteq endpoints' /\ endpoints' \subseteq Endpoint
          /\ UNCHANGED <<stream, database, budget, handles, call, phase, exchange,
                         written, todo, got, result, runs>>
      BY <1>1, <1>4 DEF AddEndpoints, Types
    <2>2. Types' /\ CallOK'
      BY <1>1, <2>1 DEF Types, CallOK
    <2>3. Quiet' /\ OwnAnswers'
      BY <2>1 DEF Inv, Talk, Quiet, OwnAnswers
    <2>4. \A i \in 1 .. Batch : runs'[i] <= MayHaveRun'
      BY <2>1 DEF Inv, RunsOK, MayHaveRun
    <2> QED BY <2>1, <2>2, <2>3, <2>4, Landing
  <1>5. CASE Drop
    <2>1. /\ phase = "rows" /\ phase' = "drain"
          /\ UNCHANGED <<stream, endpoints, database, budget, handles, call, exchange,
                         written, todo, got, result, runs>>
      BY <1>5 DEF Drop
    <2>2. Types' /\ CallOK'
      BY <1>1, <2>1 DEF Types, CallOK, Phase
    <2>3. PhaseOK' /\ RunsOK'
      BY <2>1 DEF Inv, PhaseOK, RunsOK, InExchange, MayHaveRun
    <2>4. Flow(1)'
      BY <2>1 DEF Inv, Talk, Flow
    <2>5. Talk' /\ SessionOK' /\ OwnAnswers'
      BY <2>1, <2>4 DEF Talk, SessionOK, OwnAnswers, InExchange
    <2> QED BY <2>2, <2>3, <2>5 DEF Inv
  <1> QED BY <1>3, <1>4, <1>5

-----------------------------------------------------------------------------
(* Dialing, and what follows a lost stream *)

\* A dial that answers starts Hello on the fresh stream; one that fails leaves
\* the next candidate, or ends the call.
LEMMA DialInv ==
    ASSUME Inv, NEW ep \in Endpoint, DialAnswers(ep) \/ DialFails(ep)
    PROVE  Inv'
  <1>1. Types /\ CallOK /\ phase = "dial" /\ Quiet
    BY DEF Inv, DialAnswers, DialFails, Candidate, Talk
  <1>2. /\ \A i \in 1 .. Len(got) : got[i] = None
        /\ \A i \in 1 .. Batch : runs[i] < MayHaveRun
    BY <1>1 DEF Inv, PhaseOK, RunsOK
  <1>3. CASE DialAnswers(ep)
    <2>1. /\ phase' = "write" /\ exchange' = "hello" /\ written' = 0 /\ todo' = {}
          /\ UNCHANGED <<endpoints, database, budget, handles, call, got, result, runs>>
          /\ stream' = Fresh(ep)
      BY <1>3 DEF DialAnswers
    <2>2. /\ stream' \in StreamSet /\ stream'.answers = <<>> /\ stream'.sent = <<>>
          /\ stream'.rows = 0 /\ stream'.db = None /\ stream'.budget = 0
          /\ stream'.state = "up"
      <3>1. /\ ep \in Endpoint \cup {None} /\ 0 \in Rows /\ 0 \in 0 .. Chunks + 1
            /\ [i \in Ids |-> None] \in [Ids -> Statement \cup {None}]
        BY SessionAssumption
      <3>2. <<>> \in Seq(RequestSet) /\ <<>> \in Seq(Answers)
        OBVIOUS
      <3> QED BY Zenon, <2>1, <3>1, <3>2 DEF Fresh, StreamSet
    <2>3. Types'
      <3>1. /\ written' \in 0 .. Batch /\ phase' \in Phase /\ phase' # "none" /\ phase' # "dial"
            /\ exchange' \in {"main", "prepare", "hello", "database", "budget"}
        BY <2>1, SessionAssumption DEF Phase
      <3>2. endpoints # {}
        BY <1>1 DEF Types
      <3> QED BY Zenon, <1>1, <2>1, <2>2, <3>1, <3>2 DEF Types
    <2>4. CallOK'
      BY <1>1, <2>1 DEF CallOK
    <2>5. Quiet' /\ SessionOK'
      BY <2>1, <2>2 DEF Quiet, SessionOK
    <2> QED BY <1>2, <2>1, <2>3, <2>4, <2>5, Starting DEF MayHaveRun
  <1>4. CASE DialFails(ep)
    <2>1. /\ UNCHANGED <<stream, endpoints, database, budget, handles, call, exchange,
                         written, got, runs>>
          /\ todo' \subseteq todo
          /\ \/ phase' = "dial" /\ todo' # {} /\ UNCHANGED result
             \/ phase' \in {"none", "rest"} /\ result' = "error" /\ todo' = {}
      BY <1>1, <1>4 DEF DialFails, Candidate
    <2>2. Types' /\ CallOK' /\ Quiet'
      BY <1>1, <2>1 DEF Types, CallOK, Quiet, Phase
    <2>3. \A i \in 1 .. Batch : runs'[i] < MayHaveRun' /\ runs'[i] <= MayHaveRun'
      BY <1>1, <1>2, <2>1 DEF Types, MayHaveRun
    <2>4. CASE phase' = "dial"
      BY <1>2, <2>1, <2>2, <2>3, <2>4, Dialing
    <2>5. CASE phase' \in {"none", "rest"} /\ result' = "error"
      <3>1. OwnAnswers'
        BY <2>5 DEF OwnAnswers
      <3> QED BY <2>2, <2>3, <2>5, <3>1, Landing
    <2> QED BY <2>1, <2>4, <2>5
  <1> QED BY <1>3, <1>4

\* The types after a step inside a call that touches the stream, the handles
\* and the control alone.
LEMMA StepTypes ==
    ASSUME Types, UNCHANGED endpoints, stream' \in StreamSet,
           stream'.state # "up" => stream'.sent = <<>> /\ stream'.rows = 0,
           phase' \in Phase \ {"none"}, phase # "none",
           todo' \subseteq endpoints, phase' = "dial" <=> todo' # {},
           database' \in Database \cup {None}, budget' \in Rows,
           handles' \in [Handle -> [id : Ids \cup {None}, sql : Statement \cup {None}]],
           exchange' \in {"main", "prepare", "hello", "database", "budget"},
           written' \in 0 .. Batch, result' \in {"ok", "error", "io"},
           runs' \in [1 .. Batch -> 0 .. 3]
    PROVE  Types'
  BY DEF Types

\* What a step of the replay may not touch.
ReplayKeeps == UNCHANGED <<endpoints, database, budget, handles, call, got, runs>>

\* What the finished exchange of the replay has put back on a stream still up.
PutBack ==
    stream'.state = "up" =>
        /\ exchange = "hello" => stream'.db = None /\ stream'.budget = 0
        /\ exchange = "database" => stream'.db = database /\ stream'.budget = 0
        /\ exchange = "budget" => stream'.db = database /\ stream'.budget = budget

\* The replay goes on, and after its last exchange the call resumes in its
\* session.
LEMMA ProceedInv ==
    ASSUME Types, CallOK, InExchange, exchange \in {"hello", "database", "budget"},
           Proceed, ReplayKeeps, PutBack, Quiet', stream' \in StreamSet,
           stream'.state # "up" => stream'.sent = <<>> /\ stream'.rows = 0,
           \A i \in 1 .. Len(got) : got[i] = None,
           \A i \in 1 .. Batch : runs[i] < MayHaveRun
    PROVE  Inv'
  <1>1. /\ todo' = todo /\ written' = 0 /\ phase' \in {"rest", "write"}
        /\ exchange' \in {"main", "prepare", "hello", "database", "budget"}
        /\ result' \in {"ok", "error", "io"}
    BY DEF Proceed, Return, Begin, Replayed, Resumed, Types
  <1>2. phase \notin {"none", "dial"}
    BY DEF InExchange
  <1>3. Types'
    <2>1. todo' = {} /\ endpoints' = endpoints
      BY <1>1, <1>2 DEF Types, ReplayKeeps
    <2> QED BY <1>1, <1>2, <2>1, StepTypes, SessionAssumption DEF Types, ReplayKeeps, Phase
  <1>4. CallOK'
    BY DEF CallOK, ReplayKeeps
  <1>5. /\ \A i \in 1 .. Len(got') : got'[i] = None
        /\ \A i \in 1 .. Batch : runs'[i] < MayHaveRun'
    BY Zenon DEF ReplayKeeps, MayHaveRun
  <1>6. CASE Replayed = "done"
    <2>1. call.op \in {"connect", "reconnect"} /\ Return("ok")
      BY <1>6 DEF Proceed, Replayed, Resumed
    <2>2. OwnAnswers'
      BY <2>1 DEF OwnAnswers, ReplayKeeps
    <2>3. \A i \in 1 .. Batch : runs'[i] <= MayHaveRun'
      BY <1>3, <1>5 DEF Types, MayHaveRun
    <2> QED BY <1>3, <1>4, <2>1, <2>2, <2>3, Landing DEF Return
  <1>7. CASE Replayed # "done"
    <2>1. Begin(Replayed)
      BY <1>7 DEF Proceed
    <2>2. exchange' = Replayed /\ phase' = "write" /\ written' = 0
      BY <2>1 DEF Begin
    <2>3. /\ exchange' = "prepare" => call'.op = "run"
          /\ exchange' = "main" => call'.op \notin {"connect", "reconnect", "run"}
      BY <1>7, <2>2 DEF Replayed, Resumed, ReplayKeeps
    <2>4. /\ exchange' # "hello"
          /\ exchange' = "database" => exchange = "hello"
          /\ exchange' = "budget" => exchange = "database" \/ (exchange = "hello" /\ database = None)
          /\ exchange' \in {"main", "prepare"} =>
                \/ exchange = "budget"
                \/ exchange = "database" /\ budget = 0
                \/ exchange = "hello" /\ database = None /\ budget = 0
      BY <1>7, <2>2 DEF Replayed, Resumed
    <2>5. ASSUME stream'.state = "up"
          PROVE  /\ exchange' = "database" => stream'.budget = 0
                 /\ exchange' = "budget" => stream'.db = database'
                 /\ exchange' \in {"main", "prepare"} =>
                       stream'.db = database' /\ stream'.budget = budget'
      BY <2>4, <2>5 DEF PutBack, ReplayKeeps
    <2>6. stream'.state = "up" => stream'.answers = <<>>
      BY DEF Quiet
    <2>7. SessionOK'
      BY <2>3, <2>4, <2>5, <2>6 DEF SessionOK, Accepted, InSession
    <2> QED BY <1>3, <1>4, <1>5, <2>2, <2>3, <2>7, Starting
  <1> QED BY <1>6, <1>7

\* Outside the call's own exchange no answer of the call has been read.
LEMMA NothingRead ==
    ASSUME Inv, InExchange, exchange # "main"
    PROVE  \A i \in 1 .. Len(got) : got[i] = None
  <1>1. CASE phase = "write"
    BY <1>1 DEF Inv, PhaseOK
  <1>2. CASE phase = "read"
    <2>1. PICK k \in 0 .. Batch : Conversation(k)
      BY <1>2 DEF Inv, Talk, PhaseOK, InExchange, Opened
    <2>2. k = 0
      BY <2>1, SessionAssumption DEF Conversation, Progress
    <2> QED BY <2>1, <2>2 DEF Conversation, Read, Inv, CallOK
  <1> QED BY <1>1, <1>2 DEF InExchange

\* The slots of a retried call are empty again.
LEMMA EmptiedSlots ==
    ASSUME CallOK, got' = [i \in DOMAIN got |-> None]
    PROVE  /\ got' \in Seq(Abouts) /\ Len(got') = Len(got)
           /\ \A i \in 1 .. Len(got') : got'[i] = None
  <1>1. Len(got) \in Nat /\ DOMAIN got = 1 .. Len(got)
    BY DEF CallOK
  <1>2. got' = [i \in 1 .. Len(got) |-> None]
    BY <1>1
  <1>3. got' \in Seq(Abouts) /\ Len(got') = Len(got)
    BY <1>1, <1>2 DEF Abouts
  <1> QED BY <1>1, <1>2, <1>3

\* A transport error: the replay goes on after a lost Hello, a call fails over
\* while it may, and otherwise it ends.
LEMMA LostInv ==
    ASSUME Inv, InExchange, Lost, UNCHANGED <<endpoints, budget, handles, runs>>,
           stream' \in StreamSet, Quiet',
           stream'.state # "up" => stream'.sent = <<>> /\ stream'.rows = 0,
           exchange = "hello" => stream'.state # "up"
    PROVE  Inv'
  <1>1. Types /\ CallOK /\ phase \notin {"none", "dial"}
    BY DEF Inv, InExchange
  <1>2. /\ \A i \in 1 .. Batch : runs[i] <= MayHaveRun
        /\ \A i \in 1 .. Batch : i > written => runs[i] < MayHaveRun
        /\ exchange # "main" => \A i \in 1 .. Batch : runs[i] < MayHaveRun
    BY DEF Inv, RunsOK
  <1>3. CASE exchange = "hello"
    <2>1. Proceed /\ ReplayKeeps
      BY <1>3 DEF Lost, ReplayKeeps
    <2>2. PutBack
      BY <1>3 DEF PutBack
    <2> QED BY <1>1, <1>2, <1>3, <2>1, <2>2, NothingRead, ProceedInv
  <1>4. ASSUME \/ exchange = "main" /\ MayFailOver
               \/ exchange = "prepare" /\ call.again,
               FailOver
        PROVE  Inv'
    <2>1. /\ phase' = "dial" /\ todo' = endpoints
          /\ UNCHANGED <<exchange, written, result, database>>
          /\ got' = [i \in DOMAIN got |-> None]
          /\ call' = IF exchange = "main" THEN [call EXCEPT !.left = FALSE]
                                          ELSE [call EXCEPT !.again = FALSE]
      BY <1>4 DEF FailOver, Redial
    <2>2. Types'
      <3>1. endpoints # {}
        BY <1>1 DEF Types
      <3> QED BY <1>1, <2>1, <3>1, StepTypes DEF Types, Phase
    <2>3. /\ call'.op = call.op /\ call'.sqls = call.sqls /\ call'.handle = call.handle
          /\ call'.arg = call.arg
          /\ call'.left = IF exchange = "main" THEN FALSE ELSE call.left
          /\ call' \in [op : Ops, sqls : Seq(Statement), handle : Handle \cup {None},
                        arg : Database \cup {None} \cup Rows, large : SUBSET LargeAt,
                        left : BOOLEAN, again : BOOLEAN]
      BY Zenon, <1>1, <2>1 DEF CallOK
    <2>4. call.op \notin {"use", "budget"}
      BY <1>4 DEF MayFailOver, Inv, PhaseOK
    <2>5. CallOK'
      <3>1. got' \in Seq(Abouts) /\ Len(got') = Len(got)
        BY Zenon, <1>1, <2>1, EmptiedSlots
      <3>2. call'.op \notin {"use", "budget"}
        BY Zenon, <2>3, <2>4
      <3> QED BY Zenon, <1>1, <2>3, <3>1, <3>2 DEF CallOK
    <2>6. \A i \in 1 .. Batch : runs'[i] < MayHaveRun'
      <3>1. CASE exchange = "main" /\ call.op = "stream"
        <4>1. Width = 1 /\ phase = "write"
          BY <1>4, <3>1 DEF MayFailOver, Width
        <4>2. written = 0
          BY <1>1, <4>1 DEF Inv, PhaseOK, Types
        <4> QED BY <1>2, <2>3, <3>1, <4>2, SessionAssumption DEF MayHaveRun
      <3>2. CASE exchange = "main" /\ call.op # "stream"
        <4>1. call.left /\ ~call'.left
          BY <1>4, <2>3, <3>2 DEF MayFailOver
        <4> QED BY <1>1, <1>2, <2>3, <3>2, <4>1 DEF MayHaveRun, Types
      <3>3. CASE exchange # "main"
        BY <1>2, <2>3, <3>3 DEF MayHaveRun
      <3> QED BY <3>1, <3>2, <3>3
    <2> QED BY <1>1, <2>1, <2>2, <2>5, <2>6, EmptiedSlots, Dialing
  <1>5. ASSUME Return("io"), UNCHANGED <<call, got>>,
               database' = IF exchange = "main" /\ call.op = "use" THEN call.arg ELSE database
        PROVE  Inv'
    <2>1. database' \in Database \cup {None}
      BY <1>1, <1>5 DEF CallOK, Types
    <2>2. Types'
      <3>1. todo' = {}
        BY <1>1, <1>5 DEF Return, Types
      <3>2. /\ phase' = "rest" /\ exchange' = "main" /\ written' = 0 /\ result' = "io"
        BY <1>5 DEF Return
      <3>3. 0 \in 0 .. Batch /\ "rest" \in Phase \ {"none"}
        BY SessionAssumption DEF Phase
      <3> QED BY <1>1, <2>1, <3>1, <3>2, <3>3, StepTypes DEF Types
    <2>3. CallOK' /\ OwnAnswers' /\ phase' = "rest"
      BY <1>1, <1>5 DEF CallOK, OwnAnswers, Return
    <2>4. \A i \in 1 .. Batch : runs'[i] <= MayHaveRun'
      BY <1>2, <1>5 DEF MayHaveRun
    <2> QED BY <2>2, <2>3, <2>4, Landing
  <1> QED BY <1>3, <1>4, <1>5 DEF Lost

\* The two ways to lose the stream.
LEMMA FailsInv ==
    ASSUME Inv, WriteFails \/ ReadFails
    PROVE  Inv'
  <1>1. Types /\ stream \in StreamSet
    BY DEF Inv, Types
  <1>2. CASE WriteFails
    <2>1. stream' = [stream EXCEPT !.state = "dead"] /\ stream.state # "up"
      BY <1>2 DEF WriteFails
    <2>2. /\ stream' \in StreamSet /\ stream'.state = "dead"
          /\ stream'.sent = stream.sent /\ stream'.rows = stream.rows
      BY <1>1, <2>1 DEF StreamSet
    <2>3. Quiet' /\ stream'.sent = <<>> /\ stream'.rows = 0
      BY <1>1, <2>1, <2>2 DEF Quiet, Types
    <2> QED BY <1>2, <2>2, <2>3, LostInv DEF WriteFails, InExchange
  <1>3. CASE ReadFails
    <2>1. UNCHANGED stream /\ stream.state # "up" /\ stream.answers = <<>>
      BY <1>3 DEF ReadFails, AtEnd
    <2>2. Quiet' /\ stream'.sent = <<>> /\ stream'.rows = 0
      BY <1>1, <2>1 DEF Quiet, Types
    <2> QED BY <1>1, <1>3, <2>1, <2>2, LostInv DEF ReadFails, InExchange
  <1> QED BY <1>2, <1>3

\* No request but the first of a call is too large, and a refusal finds nothing
\* of the exchange on the stream: it may be up, and is at a request boundary.
LEMMA RefusedInv ==
    ASSUME LargeAt \subseteq {1}, Inv, WriteRefused
    PROVE  Inv'
  <1>1. /\ Types /\ CallOK /\ stream \in StreamSet /\ InExchange /\ phase = "write"
        /\ exchange = "main" /\ UNCHANGED stream
    BY DEF Inv, Types, WriteRefused, TooLarge, InExchange
  <1>2. written = 0
    <2>1. written + 1 \in call.large /\ call.large \subseteq LargeAt
      BY <1>1 DEF CallOK, WriteRefused, TooLarge
    <2>2. written \in 0 .. Batch
      BY <1>1 DEF Types
    <2> QED BY <2>1, <2>2, SessionAssumption
  <1>3. ASSUME stream.state # "dead"
        PROVE  /\ Len(stream.answers) = 0
               /\ stream.state = "up" => Len(stream.sent) = 0 /\ stream.rows = 0
    <2>1. PICK k \in 0 .. Batch : Conversation(k)
      BY <1>1, <1>3 DEF Inv, Talk, Opened
    <2>2. k = 0
      BY <1>1, <2>1, SessionAssumption DEF Conversation, Progress
    <2> DEFINE n == Len(stream.answers)
               m == Len(stream.sent)
    <2>3. n \in Nat /\ m \in Nat
      BY <1>1 DEF StreamSet
    <2>4. 0 + n <= 0 /\ (stream.state = "up" => (0 + n) + m = 0 /\ stream.rows = 0)
      BY Zenon, <1>2, <2>1, <2>2 DEF Conversation, Progress, Awaited, Served
    <2> HIDE DEF n, m
    <2>5. n = 0 /\ (stream.state = "up" => m = 0 /\ stream.rows = 0)
      BY <2>3, <2>4
    <2> QED BY <2>5 DEF n, m
  <1>4. Quiet'
    BY <1>1, <1>3 DEF Quiet, StreamSet
  <1>5. stream'.state # "up" => stream'.sent = <<>> /\ stream'.rows = 0
    BY <1>1 DEF Types
  <1> QED BY <1>1, <1>4, <1>5, LostInv DEF WriteRefused

-----------------------------------------------------------------------------
(* Writing *)

\* The requests of an exchange: tagged with their places in a pipeline, a single
\* untagged one otherwise.
LEMMA RequestsShape ==
    ASSUME Types, CallOK, PhaseOK, InExchange
    PROVE  /\ Requests \in Seq(RequestSet) /\ Len(Requests) = Width /\ Width \in 1 .. Batch
           /\ \A i \in 1 .. Width :
                 Requests[i].tag = IF exchange = "main" /\ call.op = "pipeline" THEN i ELSE 0
  <1>1. Width \in 1 .. Batch
    BY WidthBounds
  <1>2. \A op, arg, tag : /\ Request(op, arg, tag).op = op /\ Request(op, arg, tag).arg = arg
                          /\ Request(op, arg, tag).tag = tag
    BY DEF Request
  <1>3. \A op \in {"hello", "use", "budget", "prepare", "run", "execute", "stream"},
           arg \in Abouts \cup Database \cup Rows, tag \in 0 .. Batch :
              Request(op, arg, tag) \in RequestSet
    BY DEF Request, RequestSet
  <1>4. CASE exchange = "main" /\ call.op = "pipeline"
    <2> DEFINE n == Len(call.sqls)
    <2>1. n \in 1 .. Batch /\ n = Width /\ DOMAIN call.sqls = 1 .. n
          /\ \A i \in 1 .. n : call.sqls[i] \in Statement
      BY <1>1, <1>4 DEF CallOK, Width
    <2>2. Requests = [i \in 1 .. n |-> Request("execute", call.sqls[i], i)]
      BY <1>4, <2>1 DEF Requests
    <2> HIDE DEF n
    <2>3. \A i \in 1 .. n : i \in 0 .. Batch /\ Requests[i] = Request("execute", call.sqls[i], i)
      BY <2>1, <2>2, SessionAssumption
    <2>4. \A i \in 1 .. n : Requests[i] \in RequestSet
      BY <1>3, <2>1, <2>3 DEF Abouts
    <2>5. Requests \in Seq(RequestSet) /\ Len(Requests) = n
      BY <2>1, <2>2, <2>4
    <2> QED BY <1>2, <1>4, <2>1, <2>3, <2>5
  <1>5. CASE ~(exchange = "main" /\ call.op = "pipeline")
    <2>1. Width = 1
      BY <1>5 DEF Width
    <2>2. PICK op \in {"hello", "use", "budget", "prepare", "run", "execute", "stream"},
               arg \in Abouts \cup Database \cup Rows : Requests = <<Request(op, arg, 0)>>
      <3>1. CASE exchange = "main"
        <4>1. call.op \in Ops \ {"connect", "reconnect", "pipeline"}
          BY <1>5, <3>1 DEF CallOK, PhaseOK
        <4>2. CASE call.op \in {"execute", "stream", "prepare"}
          <5>1. call.sqls[1] \in Statement
            BY <4>2 DEF CallOK
          <5>2. Requests = <<Request(call.op, call.sqls[1], 0)>>
            BY <3>1, <4>2 DEF Requests
          <5> QED BY <4>2, <5>1, <5>2 DEF Abouts
        <4>3. CASE call.op = "run"
          BY <3>1, <4>3 DEF Requests, CallOK, Abouts
        <4>4. CASE call.op = "use"
          BY <3>1, <4>4 DEF Requests, Types, Abouts
        <4>5. CASE call.op = "budget"
          BY <3>1, <4>5 DEF Requests, CallOK
        <4> QED BY <4>1, <4>2, <4>3, <4>4, <4>5 DEF Ops
      <3>2. CASE exchange = "prepare"
        <4>1. call.op = "run"
          BY <3>2 DEF PhaseOK
        <4>2. handles[call.handle].sql \in Abouts
          BY <4>1 DEF CallOK, Types, Abouts
        <4> QED BY <3>2, <4>2 DEF Requests
      <3>3. CASE exchange = "hello"
        BY <3>3 DEF Requests, Abouts
      <3>4. CASE exchange = "database"
        BY <3>4 DEF Requests, Types, Abouts
      <3>5. CASE exchange = "budget"
        BY <3>5 DEF Requests, Types
      <3> QED BY <3>1, <3>2, <3>3, <3>4, <3>5 DEF Types
    <2>3. Request(op, arg, 0) \in RequestSet
      BY <1>3, SessionAssumption
    <2>4. Requests \in Seq(RequestSet) /\ Len(Requests) = 1 /\ Requests[1] = Request(op, arg, 0)
      BY <2>2, <2>3
    <2>5. Requests[1].tag = 0
      BY <1>2, <2>4
    <2> QED BY <1>1, <1>5, <2>1, <2>4, <2>5
  <1> QED BY <1>4, <1>5

\* Sequences with the same elements.
LEMMA SameFrames ==
    ASSUME NEW S, NEW T, NEW s \in Seq(S), NEW t \in Seq(T), Len(s) = Len(t),
           \A i \in 1 .. Len(t) : s[i] = t[i]
    PROVE  s = t
  OBVIOUS

\* What a frame adds to the end of a stream.
LEMMA Appending ==
    ASSUME NEW S, NEW s \in Seq(S), NEW x \in S
    PROVE  /\ Append(s, x) \in Seq(S) /\ Append(s, x) # <<>>
           /\ Len(Append(s, x)) = Len(s) + 1
           /\ \A i \in 1 .. Len(s) : Append(s, x)[i] = s[i]
           /\ Append(s, x)[Len(s) + 1] = x
  OBVIOUS

\* The exchange stays what it was.
SameExchange == UNCHANGED <<endpoints, database, budget, handles, call, exchange, todo>>

\* A request goes out, or vanishes on a stream the server has closed.
LEMMA WriteInv ==
    ASSUME Inv, WriteFrame
    PROVE  Inv'
  <1>1. /\ Types /\ CallOK /\ PhaseOK /\ InExchange /\ phase = "write"
        /\ stream.state # "dead" /\ stream \in StreamSet
    BY DEF Inv, WriteFrame, InExchange, Types
  <1>2. /\ Requests \in Seq(RequestSet) /\ Len(Requests) = Width /\ Width \in 1 .. Batch
        /\ written \in Nat /\ written < Width
    <2>1. Requests \in Seq(RequestSet) /\ Len(Requests) = Width /\ Width \in 1 .. Batch
      BY <1>1, RequestsShape
    <2>2. written < Width /\ written \in 0 .. Batch
      BY <1>1, Zenon DEF PhaseOK, Types
    <2>3. written \in Nat
      BY <2>2, SessionAssumption
    <2> QED BY <2>1, <2>2, <2>3, Zenon
  <1>3. Conversation(0)
    <2>1. PICK k \in 0 .. Batch : Conversation(k)
      BY <1>1 DEF Inv, Talk, Opened
    <2>2. k = 0
      BY <1>1, <2>1 DEF Conversation, Progress
    <2> QED BY <2>1, <2>2
  <1>4. /\ SameExchange /\ UNCHANGED <<got, result, runs>>
        /\ written' = written + 1
        /\ phase' = IF written + 1 = Width THEN "read" ELSE "write"
    BY <1>2 DEF WriteFrame, SameExchange
  <1>5. Width' = Width /\ Requests' = Requests /\ MayHaveRun' = MayHaveRun
    BY <1>4 DEF SameExchange, Width, Requests, MayHaveRun
  <1> DEFINE r == Requests[written + 1]
  <1>6. r \in RequestSet
    BY <1>2
  <1>7. /\ stream' \in StreamSet
        /\ stream'.state = stream.state /\ stream'.answers = stream.answers
        /\ stream'.db = stream.db /\ stream'.budget = stream.budget /\ stream'.ids = stream.ids
        /\ stream'.rows = stream.rows
        /\ stream'.sent = IF stream.state = "up" THEN Append(stream.sent, r) ELSE stream.sent
    <2>1. stream' = IF stream.state = "up"
                      THEN [stream EXCEPT !.sent = Append(stream.sent, r)] ELSE stream
      BY DEF WriteFrame
    <2> HIDE DEF r
    <2>2. Append(stream.sent, r) \in Seq(RequestSet)
      BY <1>1, <1>6 DEF StreamSet
    <2> QED BY Zenon, <1>1, <2>1, <2>2 DEF StreamSet
  <1>8. Types'
    <2>1. phase' # "dial" /\ phase' \in Phase /\ phase' # "none" /\ phase # "none" /\ todo' = {}
      BY <1>1, <1>4 DEF Types, Phase, SameExchange
    <2>2. written' \in 0 .. Batch
      BY <1>2, <1>4, SessionAssumption
    <2>3. stream'.state # "up" => stream'.sent = <<>> /\ stream'.rows = 0
      BY <1>1, <1>7 DEF Types
    <2> QED BY <1>1, <1>4, <1>7, <2>1, <2>2, <2>3, StepTypes DEF Types, SameExchange
  <1>9. CallOK'
    BY <1>1, <1>4 DEF CallOK, SameExchange
  <1>10. PhaseOK'
    BY <1>1, <1>2, <1>4, <1>5, <1>7 DEF PhaseOK, InExchange, SameExchange
  <1>11. RunsOK'
    BY <1>1, <1>4, <1>5 DEF Inv, RunsOK, InExchange, SameExchange, Types
  <1>12. Conversation(0)'
    <2> HIDE DEF r
    <2> DEFINE n == Len(stream.answers)
               m == Len(stream.sent)
    <2>1. /\ n \in Nat /\ m \in Nat /\ n <= written /\ Served(0) = n /\ Served(0)' = n
          /\ stream.state = "up" => n + m = written
      <3>1. n \in Nat /\ m \in Nat
        BY <1>1 DEF StreamSet
      <3>2. Served(0) = 0 + n /\ Served(0)' = 0 + n
        BY <1>7, Zenon DEF Served
      <3>3. Served(0) <= written /\ (stream.state = "up" => Served(0) + m = written)
        BY <1>3, Zenon DEF Conversation, Progress, Awaited
      <3> HIDE DEF n, m
      <3> QED BY <3>1, <3>2, <3>3
    <2>2. stream.state = "up" => /\ Len(stream'.sent) = m + 1
                                 /\ \A i \in 1 .. m : stream'.sent[i] = stream.sent[i]
                                 /\ stream'.sent[m + 1] = r
      <3>1. stream.sent \in Seq(RequestSet)
        BY Zenon, <1>1 DEF StreamSet
      <3>2. stream.state = "up" => stream'.sent = Append(stream.sent, r)
        BY Zenon, <1>7
      <3> QED BY <1>6, <3>1, <3>2, Appending
    <2>3. stream.state = "up" => \A i \in 1 .. m : stream.sent[i] = Requests[n + i]
      BY <1>3, <2>1 DEF Conversation, Awaited
    <2>4. r = Requests[written + 1]
      BY DEF r
    <2>5. Read(0)' /\ Unread(0)'
      BY <1>3, <1>4, <1>5, <1>7 DEF Conversation, Read, Unread, Replies, SameExchange
    <2>6. stream'.state = "up" => /\ stream'.rows = 0
                                  /\ \A i \in 1 .. Batch : i > n => runs'[i] < MayHaveRun'
      BY Zenon, <1>3, <1>4, <1>5, <1>7, <2>1 DEF Conversation, Awaited
    <2> HIDE DEF n, m
    <2>7. stream.state = "up" => \A i \in 1 .. m + 1 : stream'.sent[i] = Requests'[n + i]
      <3>1. ASSUME stream.state = "up"
            PROVE  stream'.sent[m + 1] = Requests'[n + (m + 1)]
        <4>1. n + (m + 1) = written + 1
          BY <2>1, <3>1
        <4> QED BY <1>5, <2>2, <2>4, <3>1, <4>1
      <3>2. \A i \in 1 .. m + 1 : i \in 1 .. m \/ i = m + 1
        BY <2>1
      <3> QED BY <1>5, <2>2, <2>3, <3>1, <3>2, Zenon
    <2>8. n <= written' /\ (stream'.state = "up" => n + Len(stream'.sent) = written')
      BY <1>2, <1>4, <1>7, <2>1, <2>2
    <2>9. Progress(0)'
      BY <1>2, <1>5, <2>1, <2>8 DEF Progress
    <2>10. Awaited(0)'
      BY <1>7, <2>1, <2>2, <2>6, <2>7, <2>8 DEF Awaited
    <2> QED BY <2>5, <2>9, <2>10 DEF Conversation
  <1>13. Talk'
    BY <1>4, <1>12, SessionAssumption DEF Talk, InExchange
  <1>14. SessionOK'
    BY <1>1, <1>4, <1>7 DEF Inv, SessionOK, InExchange, SameExchange, Accepted, InSession
  <1>15. OwnAnswers'
    BY <1>4 DEF OwnAnswers
  <1> QED BY <1>8, <1>9, <1>10, <1>11, <1>13, <1>14, <1>15 DEF Inv

-----------------------------------------------------------------------------
(* Reading *)

\* read_frame takes the first frame off the stream and leaves the others.
LEMMA ConsumedStream ==
    ASSUME Types, stream.answers # <<>>, Consumed
    PROVE  /\ stream' \in StreamSet /\ stream'.state = stream.state
           /\ stream'.db = stream.db /\ stream'.budget = stream.budget
           /\ stream'.ids = stream.ids /\ stream'.sent = stream.sent
           /\ stream'.rows = stream.rows
           /\ stream'.state # "up" => stream'.sent = <<>> /\ stream'.rows = 0
           /\ Frame = stream.answers[1] /\ Frame \in Answers
           /\ Len(stream.answers) \in Nat /\ Len(stream.answers) >= 1
           /\ Len(stream'.answers) = Len(stream.answers) - 1
           /\ \A i \in 1 .. Len(stream'.answers) : stream'.answers[i] = stream.answers[i + 1]
  <1> DEFINE s == stream.answers
  <1>1. s \in Seq(Answers) /\ stream \in StreamSet /\ s # <<>>
    BY Zenon DEF Types, StreamSet
  <1>2. stream' = [stream EXCEPT !.answers = Tail(s)] /\ Frame = Head(s)
    BY DEF Consumed, Frame
  <1> HIDE DEF s
  <1>3. /\ Tail(s) \in Seq(Answers) /\ Head(s) = s[1] /\ Head(s) \in Answers
        /\ Len(s) \in Nat /\ Len(s) >= 1 /\ Len(Tail(s)) = Len(s) - 1
        /\ \A i \in 1 .. Len(Tail(s)) : Tail(s)[i] = s[i + 1]
    BY SMTT(30), <1>1
  <1>4. /\ stream' \in StreamSet /\ stream'.state = stream.state
        /\ stream'.db = stream.db /\ stream'.budget = stream.budget
        /\ stream'.ids = stream.ids /\ stream'.sent = stream.sent
        /\ stream'.rows = stream.rows /\ stream'.answers = Tail(s)
    BY Zenon, <1>1, <1>2, <1>3 DEF StreamSet
  <1>5. stream'.state # "up" => stream'.sent = <<>> /\ stream'.rows = 0
    BY <1>4 DEF Types
  <1> QED BY <1>2, <1>3, <1>4, <1>5 DEF s

\* The frame of a single answer is the answer to the exchange's request, and
\* nothing follows it.
LEMMA ReadSingle ==
    ASSUME Inv, phase = "read", Width = 1, ~Opened, stream.answers # <<>>, Consumed
    PROVE  /\ Quiet' /\ Replies(Requests[1], Frame)
           /\ \A i \in 1 .. Len(got) : got[i] = None
  <1>1. Types /\ CallOK /\ written = 1 /\ stream.state # "dead" /\ stream \in StreamSet
    BY DEF Inv, PhaseOK, Types
  <1>2. PICK k \in 0 .. Batch : Conversation(k)
    BY <1>1 DEF Inv, Talk, InExchange
  <1>3. k = 0
    BY <1>2 DEF Conversation, Progress
  <1>4. Len(stream.answers) = 1 /\ Len(stream'.answers) = 0 /\ stream' \in StreamSet
    <2> DEFINE n == Len(stream.answers)
               rest == Len(stream'.answers)
    <2>1. n \in Nat /\ n >= 1 /\ stream' \in StreamSet /\ rest = n - 1
      BY <1>1, ConsumedStream
    <2>2. n <= 1
      BY <1>1, <1>2, <1>3, <2>1 DEF Conversation, Progress, Served
    <2> HIDE DEF n, rest
    <2>3. n = 1 /\ rest = 0
      BY <2>1, <2>2
    <2> QED BY <2>1, <2>3 DEF n, rest
  <1>5. stream.state = "up" => Len(stream.sent) = 0 /\ stream.rows = 0
    BY <1>1, <1>2, <1>3, <1>4 DEF Conversation, Awaited, Served, StreamSet
  <1>6. stream'.answers = <<>> /\ (stream.state = "up" => stream.sent = <<>>)
    BY <1>1, <1>4, <1>5 DEF StreamSet
  <1>7. Quiet'
    BY <1>1, <1>5, <1>6, ConsumedStream DEF Quiet
  <1>8. Replies(Requests[1], Frame)
    <2>1. Replies(Requests[0 + 1], stream.answers[1])
      BY <1>2, <1>3, <1>4 DEF Conversation, Unread
    <2> QED BY <1>1, <2>1, ConsumedStream
  <1>9. \A i \in 1 .. Len(got) : got[i] = None
    BY <1>1, <1>2, <1>3 DEF Conversation, Read, CallOK
  <1> QED BY <1>7, <1>8, <1>9

\* A call that returns after its last frame.
LEMMA ReadReturns ==
    ASSUME Inv, phase \in {"read", "rows", "drain"}, stream.answers # <<>>, Consumed, Quiet',
           NEW r \in {"ok", "error"}, Return(r), UNCHANGED <<endpoints, call, runs>>,
           CallOK', OwnAnswers', database' \in Database \cup {None}, budget' \in Rows,
           handles' \in [Handle -> [id : Ids \cup {None}, sql : Statement \cup {None}]]
    PROVE  Inv'
  <1>1. Types /\ phase \notin {"none", "dial"}
    BY DEF Inv
  <1>2. /\ phase' = "rest" /\ exchange' = "main" /\ written' = 0 /\ result' = r /\ todo' = todo
    BY DEF Return
  <1>3. todo' = {}
    BY <1>1, <1>2 DEF Types
  <1>4. Types'
    <2>1. /\ phase' \in Phase \ {"none"} /\ phase # "none" /\ (phase' = "dial" <=> todo' # {})
          /\ todo' \subseteq endpoints /\ written' \in 0 .. Batch
          /\ exchange' \in {"main", "prepare", "hello", "database", "budget"}
          /\ result' \in {"ok", "error", "io"}
      <3>1. 0 \in 0 .. Batch
        BY SessionAssumption
      <3> QED BY Zenon, <1>1, <1>2, <1>3, <3>1 DEF Phase
    <2>2. /\ stream' \in StreamSet
          /\ stream'.state # "up" => stream'.sent = <<>> /\ stream'.rows = 0
      BY Zenon, <1>1, ConsumedStream
    <2>3. runs' \in [1 .. Batch -> 0 .. 3]
      BY Zenon, <1>1 DEF Types
    <2> QED BY Zenon, <1>1, <2>1, <2>2, <2>3, StepTypes
  <1>5. \A i \in 1 .. Batch : runs'[i] <= MayHaveRun'
    BY Zenon DEF Inv, RunsOK, MayHaveRun
  <1> QED BY <1>2, <1>4, <1>5, Landing

\* The answers to what reconnect replays.
LEMMA ReadReplayInv ==
    ASSUME Inv, ReadReplay
    PROVE  Inv'
  <1>1. /\ phase = "read" /\ exchange \in {"hello", "database", "budget"}
        /\ stream.answers # <<>> /\ Consumed /\ ReplayKeeps
        /\ IF exchange # "hello" /\ Frame.kind = "error" THEN Return("error") ELSE Proceed
    BY DEF ReadReplay, ReplayKeeps
  <1>2. Types /\ CallOK /\ InExchange /\ Width = 1 /\ ~Opened
    BY <1>1 DEF Inv, InExchange, Width, Opened
  <1>3. CASE exchange # "hello" /\ Frame.kind = "error"
    <2>1. Return("error") /\ CallOK' /\ OwnAnswers'
      BY <1>1, <1>2, <1>3 DEF Return, CallOK, ReplayKeeps, OwnAnswers
    <2> QED BY <1>1, <1>2, <2>1, ReadSingle, ReadReturns DEF ReplayKeeps, Types
  <1>4. CASE ~(exchange # "hello" /\ Frame.kind = "error")
    <2>1. Proceed
      BY <1>1, <1>4
    <2>2. exchange # "hello" => Accepted
      BY <1>1, <1>2, <1>4, ConsumedStream DEF Accepted
    <2>3. PutBack
      BY <1>1, <1>2, <2>2, ConsumedStream DEF PutBack, Inv, SessionOK
    <2>4. \A i \in 1 .. Batch : runs[i] < MayHaveRun
      BY <1>1, <1>2 DEF Inv, RunsOK
    <2> QED BY Zenon, <1>1, <1>2, <2>1, <2>3, <2>4, ReadSingle, ConsumedStream, ProceedInv
  <1> QED BY <1>3, <1>4

\* The answer to a prepare, of the user or of a retried execute_prepared.
LEMMA ReadPreparedInv ==
    ASSUME Inv, ReadPrepared
    PROVE  Inv'
  <1>1. /\ phase = "read" /\ stream.answers # <<>> /\ Consumed
        /\ \/ exchange = "prepare"
           \/ exchange = "main" /\ call.op = "prepare"
        /\ UNCHANGED <<endpoints, database, budget, call, got, runs>>
    BY DEF ReadPrepared
  <1>2. /\ Types /\ CallOK /\ PhaseOK /\ InExchange /\ Width = 1 /\ ~Opened
        /\ phase \notin {"none", "dial"}
    BY <1>1 DEF Inv, InExchange, Width, Opened
  <1>3. /\ call.op = IF exchange = "prepare" THEN "run" ELSE "prepare"
        /\ call.handle \in Handle /\ call.sqls[1] \in Statement
    <2>1. call.op = IF exchange = "prepare" THEN "run" ELSE "prepare"
      BY <1>1, <1>2 DEF PhaseOK
    <2>2. call.handle \in Handle /\ call.sqls \in Seq(Statement) /\ Len(call.sqls) = 1
      BY <1>2, <2>1 DEF CallOK
    <2> QED BY <2>1, <2>2
  <1>4. CASE Frame.kind # "id"
    <2>1. Return("error") /\ UNCHANGED handles
      BY <1>4 DEF ReadPrepared
    <2>2. CallOK' /\ OwnAnswers'
      BY Zenon, <1>1, <1>2, <2>1 DEF Return, CallOK, OwnAnswers
    <2> QED BY <1>1, <1>2, <2>1, <2>2, ReadSingle, ReadReturns DEF Types
  <1>5. CASE Frame.kind = "id"
    <2> DEFINE new == [id |-> Frame.about, sql |-> call.sqls[1]]
    <2>1. /\ handles' = [handles EXCEPT ![call.handle] = new]
          /\ IF exchange = "prepare" THEN Begin("main") ELSE Return("ok")
      BY <1>5 DEF ReadPrepared
    <2>2. Frame.about \in Ids
      BY <1>1, <1>2, <1>5, ReadSingle DEF Replies
    <2>3. new \in [id : Ids, sql : Statement] /\ new.id = Frame.about /\ new.sql = call.sqls[1]
      BY <1>3, <2>2
    <2> HIDE DEF new
    <2>4. /\ handles' \in [Handle -> [id : Ids \cup {None}, sql : Statement \cup {None}]]
          /\ handles'[call.handle] = new
          /\ \A h \in Handle : h # call.handle => handles'[h] = handles[h]
      BY <1>2, <1>3, <2>1, <2>3 DEF Types
    <2>5. /\ handles'[call.handle].id \in Ids
          /\ handles'[call.handle].sql = call.sqls[1]
          /\ \A h \in Handle : handles'[h].id # None => handles'[h].sql \in Statement
      <3>1. \A h \in Handle : handles[h].id # None => handles[h].sql \in Statement
        BY <1>2 DEF CallOK
      <3> QED BY <1>3, <2>3, <2>4, <3>1
    <2>6. CallOK'
      BY <1>1, <1>2, <2>5 DEF CallOK
    <2>7. CASE exchange = "main"
      <3>1. Return("ok") /\ OwnAnswers'
        BY <1>1, <1>3, <2>1, <2>7 DEF OwnAnswers
      <3> QED BY <1>1, <1>2, <2>4, <2>6, <3>1, ReadSingle, ReadReturns DEF Types
    <2>8. CASE exchange = "prepare"
      <3>1. exchange' = "main" /\ phase' = "write" /\ written' = 0 /\ UNCHANGED <<todo, result>>
        BY <2>1, <2>8 DEF Begin
      <3>2. todo' = {}
        BY <1>2, <3>1 DEF Types
      <3>3. Types'
        <4>1. /\ phase' \in Phase \ {"none"} /\ phase # "none" /\ (phase' = "dial" <=> todo' # {})
              /\ todo' \subseteq endpoints /\ written' \in 0 .. Batch
              /\ exchange' \in {"main", "prepare", "hello", "database", "budget"}
          <5>1. 0 \in 0 .. Batch
            BY SessionAssumption
          <5> QED BY Zenon, <1>1, <3>1, <3>2, <5>1 DEF Phase
        <4>2. /\ stream' \in StreamSet
              /\ stream'.state # "up" => stream'.sent = <<>> /\ stream'.rows = 0
          BY Zenon, <1>1, <1>2, ConsumedStream
        <4>3. /\ database' \in Database \cup {None} /\ budget' \in Rows
              /\ result' \in {"ok", "error", "io"} /\ runs' \in [1 .. Batch -> 0 .. 3]
          BY Zenon, <1>1, <1>2, <3>1 DEF Types
        <4> QED BY Zenon, <1>1, <1>2, <2>4, <4>1, <4>2, <4>3, StepTypes
      <3>4. ASSUME stream'.state = "up"
            PROVE  /\ ~call'.left => InSession'
                   /\ stream'.ids[handles'[call'.handle].id] = handles'[call'.handle].sql
        <4>1. stream.state = "up" /\ stream'.db = stream.db /\ stream'.budget = stream.budget
              /\ stream'.ids = stream.ids /\ Frame = stream.answers[1]
          BY <1>1, <1>2, <3>4, ConsumedStream
        <4>2. ~call.left => InSession
          BY <1>2, <2>8, <4>1 DEF Inv, SessionOK
        <4>3. stream.ids[Frame.about] = call.sqls[1]
          BY <1>1, <1>2, <1>5, <2>8, <4>1 DEF Inv, SessionOK
        <4> QED BY Zenon, <1>1, <2>3, <2>4, <4>1, <4>2, <4>3 DEF InSession
      <3>5. SessionOK'
        BY <3>1, <3>4 DEF SessionOK
      <3>6. \A i \in 1 .. Batch : runs'[i] < MayHaveRun'
        BY <1>1, <1>2, <2>8 DEF Inv, RunsOK, MayHaveRun
      <3>7. \A i \in 1 .. Len(got') : got'[i] = None
        BY <1>1, <1>2, ReadSingle
      <3>8. call'.op = "run"
        BY <1>1, <1>3, <2>8
      <3> QED BY <1>1, <1>2, <2>6, <3>1, <3>3, <3>5, <3>6, <3>7, <3>8, ReadSingle, Starting
    <2> QED BY <1>1, <2>7, <2>8
  <1> QED BY <1>4, <1>5

\* The answer to execute, execute_prepared, use_database and
\* set_scan_budget_rows.
LEMMA ReadAnswerInv ==
    ASSUME Inv, ReadAnswer
    PROVE  Inv'
  <1>0. PICK kind \in Decoded : LET ok == kind # "error" IN
           /\ Return(IF ok THEN "ok" ELSE "error")
           /\ got' = IF ok /\ call.sqls # <<>> THEN <<Frame.about>> ELSE got
           /\ database' = IF call.op = "use" /\ ~ok THEN call.arg ELSE database
           /\ budget' = IF call.op = "budget" /\ ok THEN call.arg ELSE budget
    BY DEF ReadAnswer
  <1> DEFINE ok == kind # "error"
  <1>1. /\ phase = "read" /\ exchange = "main" /\ stream.answers # <<>> /\ Consumed
        /\ call.op \in {"execute", "run", "use", "budget"}
        /\ UNCHANGED <<endpoints, handles, call, runs>>
        /\ Return(IF ok THEN "ok" ELSE "error")
        /\ got' = IF ok /\ call.sqls # <<>> THEN <<Frame.about>> ELSE got
        /\ database' = IF call.op = "use" /\ ~ok THEN call.arg ELSE database
        /\ budget' = IF call.op = "budget" /\ ok THEN call.arg ELSE budget
    BY <1>0 DEF ReadAnswer
  <1>2. Types /\ CallOK /\ InExchange /\ Width = 1 /\ ~Opened
    BY <1>1 DEF Inv, InExchange, Width, Opened
  <1>3. Quiet' /\ Replies(Requests[1], Frame) /\ Frame.about \in Abouts
    BY <1>1, <1>2, ReadSingle, ConsumedStream DEF Answers, Abouts
  <1>4. CallOK'
    <2>1. CASE ok /\ call.sqls # <<>>
      <3>1. got' = <<Frame.about>> /\ Len(call.sqls) = 1
        BY <1>1, <1>2, <2>1 DEF CallOK
      <3>2. got' \in Seq(Abouts) /\ Len(got') = 1
        BY <1>3, <3>1
      <3> QED BY Zenon, <1>1, <1>2, <3>1, <3>2 DEF CallOK
    <2>2. CASE ~(ok /\ call.sqls # <<>>)
      <3>1. got' = got
        BY <1>1, <2>2
      <3> QED BY Zenon, <1>1, <1>2, <3>1 DEF CallOK
    <2> QED BY <2>1, <2>2
  <1>5. OwnAnswers'
    <2>1. CASE call.op = "execute" /\ ok
      <3>1. Len(call.sqls) = 1 /\ call.sqls \in Seq(Statement)
        BY <1>2, <2>1 DEF CallOK
      <3>2. Requests[1].op = "execute" /\ Requests[1].arg = call.sqls[1]
        BY <1>1, <2>1 DEF Requests, Request
      <3>3. Frame.about = call.sqls[1]
        BY <1>3, <3>2 DEF Replies
      <3>4. got' = <<call.sqls[1]>> /\ call.sqls = <<call.sqls[1]>>
        BY <1>1, <2>1, <3>1, <3>3
      <3> QED BY <1>1, <3>4 DEF OwnAnswers
    <2>2. CASE ~(call.op = "execute" /\ ok)
      BY <1>1, <2>2 DEF OwnAnswers, Return
    <2> QED BY <2>1, <2>2
  <1>6. database' \in Database \cup {None} /\ budget' \in Rows
    BY <1>1, <1>2 DEF Types, CallOK
  <1>7. handles' \in [Handle -> [id : Ids \cup {None}, sql : Statement \cup {None}]]
    BY <1>1, <1>2 DEF Types
  <1> QED BY <1>1, <1>2, <1>3, <1>4, <1>5, <1>6, <1>7, ReadReturns

\* try_pipeline: the frame is the answer to the first statement without one.
LEMMA ReadSlotInv ==
    ASSUME Inv, ReadSlot
    PROVE  Inv'
  <1>1. /\ phase = "read" /\ exchange = "main" /\ call.op = "pipeline"
        /\ stream.answers # <<>> /\ Consumed
        /\ UNCHANGED <<endpoints, database, budget, handles, call, runs>>
    BY DEF ReadSlot
  <1>2. /\ Types /\ CallOK /\ PhaseOK /\ InExchange /\ Width = Len(call.sqls) /\ ~Opened
        /\ written = Width /\ stream.state # "dead" /\ stream \in StreamSet
    BY <1>1 DEF Inv, InExchange, Width, Opened, PhaseOK, Types
  <1>3. PICK k \in 0 .. Batch : Conversation(k)
    BY <1>2 DEF Inv, Talk
  <1> DEFINE w == Len(call.sqls)
             n == Len(stream.answers)
  <1>4. /\ k \in Nat /\ k < w /\ w \in Nat /\ w <= Batch /\ n \in Nat /\ n >= 1 /\ k + n <= w
        /\ Len(got) = w /\ got \in Seq(Abouts) /\ DOMAIN got = 1 .. w
        /\ call.sqls \in Seq(Statement) /\ k + 1 \in 1 .. w
    <2>1. k < Width /\ Served(k) <= written /\ Served(k) = k + n
      BY Zenon, <1>3 DEF Conversation, Progress, Served
    <2>2. /\ call.sqls \in Seq(Statement) /\ w \in 1 .. Batch
          /\ got \in Seq(Abouts) /\ Len(got) = w
      BY <1>1, <1>2 DEF CallOK
    <2>3. n \in Nat /\ n >= 1
      BY Zenon, <1>1, <1>2, ConsumedStream
    <2>4. Width = w /\ written = w
      BY Zenon, <1>2
    <2>5. DOMAIN got = 1 .. w
      BY <2>2
    <2> HIDE DEF w, n
    <2> QED BY <2>1, <2>2, <2>3, <2>4, <2>5, SessionAssumption
  <1>5. /\ \A i \in 1 .. w : got[i] = IF i <= k THEN call.sqls[i] ELSE None
        /\ \A i \in 1 .. w : call.sqls[i] \in Statement /\ call.sqls[i] # None
    <2>1. Read(k)
      BY Zenon, <1>3 DEF Conversation
    <2>2. \A i \in 1 .. w : got[i] = IF i <= k THEN call.sqls[i] ELSE None
      <3>1. Len(got) = w
        BY Zenon, <1>4
      <3> QED BY Zenon, <2>1, <3>1 DEF Read
    <2>3. \A i \in 1 .. w : call.sqls[i] \in Statement
      <3>1. call.sqls \in Seq(Statement)
        BY Zenon, <1>4
      <3> QED BY <3>1
    <2>4. None \notin Statement
      BY SessionAssumption
    <2> QED BY Zenon, <2>2, <2>3, <2>4
  <1>6. Frame.tag = k + 1 /\ Frame.about = call.sqls[k + 1] /\ Frame.about \in Abouts
    <2>1. Replies(Requests[k + 1], Frame)
      <3>1. \A i \in 1 .. n : Replies(Requests[k + i], stream.answers[i])
        BY Zenon, <1>3 DEF Conversation, Unread
      <3>2. 1 \in 1 .. n
        BY <1>4
      <3>3. Frame = stream.answers[1]
        BY Zenon, <1>1, <1>2, ConsumedStream
      <3> QED BY Zenon, <3>1, <3>2, <3>3
    <2>2. Requests[k + 1] = Request("execute", call.sqls[k + 1], k + 1)
      BY <1>1, <1>4 DEF Requests
    <2>3. /\ Requests[k + 1].op = "execute" /\ Requests[k + 1].arg = call.sqls[k + 1]
          /\ Requests[k + 1].tag = k + 1
      BY <2>2 DEF Request
    <2>4. Frame.tag = k + 1 /\ Frame.about = call.sqls[k + 1]
      BY <2>1, <2>3 DEF Replies
    <2> QED BY <1>4, <1>5, <2>4 DEF Abouts
  <1>7. {i \in DOMAIN got : got[i] = None} = k + 1 .. w
    BY <1>4, <1>5
  <1>8. /\ got' = [got EXCEPT ![k + 1] = call.sqls[k + 1]]
        /\ IF \E i \in DOMAIN got' : got'[i] = None
             THEN UNCHANGED <<phase, result, exchange, written, todo>>
             ELSE Return("ok")
    <2>1. Frame.tag \in {i \in DOMAIN got : got[i] = None}
      BY <1>4, <1>6, <1>7
    <2> QED BY <1>6, <2>1 DEF ReadSlot
  <1>9. /\ got' \in Seq(Abouts) /\ Len(got') = w /\ DOMAIN got' = 1 .. w
        /\ \A i \in 1 .. w : got'[i] = IF i <= k + 1 THEN call.sqls[i] ELSE None
    <2>1. call.sqls[k + 1] \in Abouts
      BY <1>4, <1>5 DEF Abouts
    <2>2. got' \in Seq(Abouts) /\ Len(got') = w /\ DOMAIN got' = 1 .. w
      BY <1>4, <1>8, <2>1
    <2>3. \A i \in 1 .. w : got'[i] = IF i = k + 1 THEN call.sqls[k + 1] ELSE got[i]
      BY <1>4, <1>8
    <2> QED BY <1>4, <1>5, <2>2, <2>3
  <1>10. (\E i \in DOMAIN got' : got'[i] = None) <=> k + 1 < w
    <2>1. CASE k + 1 < w
      <3>1. w \in 1 .. w /\ got'[w] = None
        BY <1>4, <1>9, <2>1
      <3> QED BY <1>9, <2>1, <3>1
    <2>2. CASE ~(k + 1 < w)
      <3>1. \A i \in 1 .. w : got'[i] # None
        BY <1>4, <1>5, <1>9, <2>2
      <3> QED BY <1>9, <2>2, <3>1
    <2> QED BY <2>1, <2>2
  <1>11. CallOK'
    BY <1>1, <1>2, <1>9 DEF CallOK
  <1>12. CASE k + 1 = w
    <2>1. Return("ok")
      BY <1>4, <1>8, <1>10, <1>12
    <2>2. got' = call.sqls
      <3>1. \A i \in 1 .. w : got'[i] = call.sqls[i]
        BY <1>4, <1>9, <1>12
      <3>2. got' \in Seq(Abouts) /\ call.sqls \in Seq(Statement) /\ Len(got') = Len(call.sqls)
        BY <1>4, <1>9
      <3> QED BY <3>1, <3>2, SameFrames
    <2>3. OwnAnswers'
      BY <1>1, <2>2 DEF OwnAnswers
    <2>4. n = 1
      <3> HIDE DEF n, w
      <3> QED BY <1>4, <1>12
    <2>5. stream'.answers = <<>> /\ (stream.state = "up" => stream.sent = <<>> /\ stream.rows = 0)
      <3>1. Len(stream'.answers) = 0 /\ stream' \in StreamSet
        <4>1. Len(stream'.answers) = n - 1 /\ stream' \in StreamSet
          BY Zenon, <1>1, <1>2, ConsumedStream
        <4> HIDE DEF n
        <4> QED BY <2>4, <4>1
      <3>2. stream.state = "up" => Len(stream.sent) = 0 /\ stream.rows = 0
        <4>1. stream.state = "up" => k + n + Len(stream.sent) = written /\ stream.rows = 0
          BY Zenon, <1>3 DEF Conversation, Awaited, Served
        <4>2. written = w /\ Len(stream.sent) \in Nat
          BY <1>2 DEF StreamSet
        <4> DEFINE m == Len(stream.sent)
        <4>3. k \in Nat /\ w \in Nat /\ n \in Nat /\ m \in Nat
          BY <1>4, <4>2
        <4>4. k + 1 = w /\ n = 1
          BY <1>12, <2>4
        <4> HIDE DEF n, w, m
        <4>5. k + n + m = w => m = 0
          BY <4>3, <4>4
        <4> QED BY Zenon, <4>1, <4>2, <4>5 DEF m
      <3> QED BY <1>2, <3>1, <3>2 DEF StreamSet
    <2>6. Quiet'
      BY <1>1, <1>2, <2>5, ConsumedStream DEF Quiet
    <2> QED BY <1>1, <1>2, <1>11, <2>1, <2>3, <2>6, ReadReturns DEF Types
  <1>13. CASE k + 1 # w
    <2>1. UNCHANGED <<phase, result, exchange, written, todo>> /\ k + 1 < w
      <3>1. k + 1 < w
        BY <1>4, <1>13
      <3> QED BY Zenon, <1>8, <1>10, <3>1
    <2>2. Types'
      BY Zenon, <1>1, <1>2, <2>1, ConsumedStream, StepTypes DEF Types
    <2>3. Width' = Width /\ Requests' = Requests /\ MayHaveRun' = MayHaveRun
      BY <1>1, <2>1 DEF Width, Requests, MayHaveRun
    <2>4. PhaseOK' /\ RunsOK'
      BY Zenon, <1>1, <1>2, <2>1, <2>3, ConsumedStream DEF Inv, PhaseOK, RunsOK, InExchange
    <2>5. Served(k + 1)' = Served(k) /\ Served(k) = k + n
      <3> DEFINE rest == Len(stream'.answers)
      <3>1. rest = n - 1
        BY <1>1, <1>2, ConsumedStream
      <3>2. Served(k + 1)' = (k + 1) + rest /\ Served(k) = k + n
        BY DEF Served
      <3> HIDE DEF n, w, rest
      <3> QED BY <1>4, <3>1, <3>2
    <2>6. Progress(k + 1)'
      BY <1>1, <1>2, <1>3, <1>4, <2>1, <2>3, <2>5 DEF Conversation, Progress
    <2>7. Read(k + 1)'
      BY <1>1, <1>9 DEF Read
    <2>8. Unread(k + 1)'
      <3>1. \A i \in 1 .. n - 1 : Replies(Requests[k + (i + 1)], stream.answers[i + 1])
        <4>1. \A j \in 1 .. n : Replies(Requests[k + j], stream.answers[j])
          BY Zenon, <1>3 DEF Conversation, Unread
        <4>2. \A i \in 1 .. n - 1 : i + 1 \in 1 .. n
          <5>1. n \in Nat
            BY <1>4
          <5> HIDE DEF n
          <5> QED BY <5>1
        <4> QED BY Zenon, <4>1, <4>2
      <3>2. \A i \in 1 .. n - 1 : k + (i + 1) = (k + 1) + i
        <4>1. n \in Nat /\ k \in Nat
          BY <1>4
        <4> HIDE DEF n
        <4> QED BY <4>1
      <3>3. /\ Len(stream'.answers) = n - 1
            /\ \A i \in 1 .. n - 1 : stream'.answers[i] = stream.answers[i + 1]
        BY <1>1, <1>2, ConsumedStream
      <3>4. \A i \in 1 .. Len(stream'.answers) :
               Replies(Requests'[(k + 1) + i], stream'.answers[i])
        BY Zenon, <2>3, <3>1, <3>2, <3>3
      <3> QED BY Zenon, <3>4 DEF Unread, Replies
    <2>9. Awaited(k + 1)'
      BY Zenon, <1>1, <1>2, <1>3, <2>1, <2>3, <2>5, ConsumedStream DEF Conversation, Awaited
    <2>10. Conversation(k + 1)' /\ k + 1 \in 0 .. Batch
      BY <1>4, <2>6, <2>7, <2>8, <2>9, SessionAssumption DEF Conversation
    <2>11. Talk' /\ SessionOK' /\ OwnAnswers'
      <3>1. Talk'
        BY <1>1, <2>1, <2>10 DEF Talk
      <3>2. SessionOK'
        BY <1>1, <1>2, <2>1, ConsumedStream DEF Inv, SessionOK, InExchange, InSession
      <3>3. OwnAnswers'
        BY <1>1, <2>1 DEF OwnAnswers
      <3> QED BY <3>1, <3>2, <3>3
    <2> QED BY <1>11, <2>2, <2>4, <2>11 DEF Inv
  <1> QED BY <1>12, <1>13

\* The rows behind the header.
LEMMA FlowShifts ==
    ASSUME Types, stream.answers # <<>>, Consumed, Flow(2)
    PROVE  Flow(1)'
  <1> DEFINE n == Len(stream.answers)
             rest == Len(stream'.answers)
  <1>1. /\ n \in Nat /\ n >= 1 /\ rest = n - 1 /\ stream'.state = stream.state
        /\ stream'.sent = stream.sent /\ stream'.rows = stream.rows
        /\ \A i \in 1 .. rest : stream'.answers[i] = stream.answers[i + 1]
    BY ConsumedStream
  <1>2. /\ \A i \in 2 .. n : i < n => stream.answers[i].kind = "chunk"
        /\ stream.state = "up" =>
              /\ stream.sent = <<>>
              /\ stream.rows > 0 => \A i \in 2 .. n : stream.answers[i].kind = "chunk"
              /\ stream.rows = 0 => n >= 2 /\ stream.answers[n].kind # "chunk"
    BY DEF Flow
  <1> HIDE DEF n, rest
  <1>3. /\ \A i \in 1 .. rest : i + 1 \in 2 .. n /\ (i < rest => i + 1 < n)
        /\ n >= 2 => rest \in 1 .. rest /\ rest + 1 = n
    BY <1>1
  <1>4. \A i \in 1 .. rest : i < rest => stream'.answers[i].kind = "chunk"
    BY <1>1, <1>2, <1>3
  <1>5. stream'.state = "up" =>
           /\ stream'.sent = <<>>
           /\ stream'.rows > 0 => \A i \in 1 .. rest : stream'.answers[i].kind = "chunk"
           /\ stream'.rows = 0 => rest >= 1 /\ stream'.answers[rest].kind # "chunk"
    BY <1>1, <1>2, <1>3
  <1> QED BY <1>4, <1>5 DEF Flow, rest

\* After a first chunk there is more to come.
LEMMA FlowGoesOn ==
    ASSUME Types, stream.answers # <<>>, Flow(1), stream.answers[1].kind = "chunk"
    PROVE  Flow(2)
  <1> DEFINE n == Len(stream.answers)
  <1>1. n \in Nat
    BY DEF Types, StreamSet
  <1>2. /\ \A i \in 1 .. n : i < n => stream.answers[i].kind = "chunk"
        /\ stream.state = "up" =>
              /\ stream.sent = <<>>
              /\ stream.rows > 0 => \A i \in 1 .. n : stream.answers[i].kind = "chunk"
              /\ stream.rows = 0 => n >= 1 /\ stream.answers[n].kind # "chunk"
    BY DEF Flow
  <1> HIDE DEF n
  <1>3. \A i \in 2 .. n : i \in 1 .. n
    BY <1>1
  <1>4. stream.state = "up" /\ stream.rows = 0 => n >= 2
    BY <1>1, <1>2
  <1> QED BY <1>2, <1>3, <1>4 DEF Flow, n

\* The answer to query_stream: a header, or the whole answer.
LEMMA ReadHeaderInv ==
    ASSUME Inv, ReadHeader
    PROVE  Inv'
  <1>1. /\ phase = "read" /\ exchange = "main" /\ call.op = "stream"
        /\ stream.answers # <<>> /\ Consumed
        /\ UNCHANGED <<endpoints, database, budget, handles, call, runs>>
    BY DEF ReadHeader
  <1>2. /\ Types /\ CallOK /\ PhaseOK /\ InExchange /\ Width = 1 /\ stream.state # "dead"
        /\ phase \notin {"none", "dial"}
        /\ call.sqls \in Seq(Statement) /\ Len(call.sqls) = 1 /\ call.sqls[1] \in Statement
    <2>1. Types /\ CallOK /\ PhaseOK /\ InExchange /\ Width = 1
      BY Zenon, <1>1 DEF Inv, InExchange, Width
    <2>2. stream.state # "dead" /\ phase \notin {"none", "dial"}
      BY <1>1, <2>1 DEF PhaseOK
    <2>3. call.sqls \in Seq(Statement) /\ Len(call.sqls) = 1
      BY <1>1, <2>1 DEF CallOK
    <2> QED BY <2>1, <2>2, <2>3
  <1>3. ASSUME got' = <<call.sqls[1]>>
        PROVE  CallOK' /\ got' = call.sqls
    <2>1. got' \in Seq(Abouts) /\ Len(got') = 1 /\ got' = call.sqls
      BY <1>2, <1>3 DEF Abouts
    <2> QED BY Zenon, <1>1, <1>2, <2>1 DEF CallOK
  <1>4. CASE Opened
    <2>1. Decoded = {"header"} /\ Frame.about = call.sqls[1] /\ Flow(2)
      BY <1>1, <1>2, <1>4, ConsumedStream DEF Opened, Decoded
    <2>2. /\ phase' = "rows" /\ result' = "ok" /\ got' = <<call.sqls[1]>>
          /\ UNCHANGED <<exchange, written, todo>>
      BY <2>1 DEF ReadHeader
    <2>3. todo' = {}
      BY <1>2, <2>2 DEF Types
    <2>4. Types'
      BY Zenon, <1>1, <1>2, <2>2, <2>3, StepTypes, ConsumedStream DEF Types, Phase
    <2>5. CallOK' /\ PhaseOK'
      BY Zenon, <1>1, <1>2, <1>3, <2>2, ConsumedStream DEF PhaseOK, InExchange
    <2>6. RunsOK'
      BY Zenon, <1>1, <2>2 DEF Inv, RunsOK, InExchange, MayHaveRun
    <2>7. Flow(1)'
      BY <1>1, <1>2, <2>1, FlowShifts
    <2>8. Talk' /\ SessionOK' /\ OwnAnswers'
      BY <1>1, <1>3, <2>2, <2>7 DEF Talk, SessionOK, OwnAnswers, InExchange
    <2> QED BY <2>4, <2>5, <2>6, <2>8 DEF Inv
  <1>5. CASE ~Opened
    <2>1. Quiet' /\ Replies(Requests[1], Frame)
      BY <1>1, <1>2, <1>5, ReadSingle
    <2>2. Requests[1].op = "stream" /\ Requests[1].arg = call.sqls[1] /\ Requests[1].tag = 0
      BY <1>1 DEF Requests, Request
    <2>3. /\ Frame.kind \in {"done", "error"} /\ Frame.about = call.sqls[1]
          /\ Decoded = {Frame.kind}
      BY <2>1, <2>2 DEF Replies, Decoded
    <2>4. CASE Frame.kind = "done"
      <3>1. Return("ok") /\ got' = <<call.sqls[1]>>
        BY <2>3, <2>4 DEF ReadHeader
      <3>2. OwnAnswers'
        BY <1>1, <1>3, <3>1 DEF OwnAnswers
      <3> QED BY Zenon, <1>1, <1>2, <1>3, <2>1, <3>1, <3>2, ReadReturns DEF Types
    <2>5. CASE Frame.kind = "error"
      <3>1. Return("error") /\ UNCHANGED got
        BY <2>3, <2>5 DEF ReadHeader
      <3>2. CallOK' /\ OwnAnswers'
        BY Zenon, <1>1, <1>2, <3>1 DEF CallOK, OwnAnswers, Return
      <3> QED BY <1>1, <1>2, <2>1, <3>1, <3>2, ReadReturns DEF Types
    <2> QED BY <2>3, <2>4, <2>5
  <1> QED BY <1>4, <1>5

\* A frame of the rows, read by the user or drained.
LEMMA NextFrameInv ==
    ASSUME Inv, NextFrame
    PROVE  Inv'
  <1>1. /\ phase \in {"rows", "drain"}
        /\ UNCHANGED <<endpoints, database, budget, handles, call, got, runs>>
    BY DEF NextFrame
  <1>2. /\ Types /\ CallOK /\ PhaseOK /\ Flow(1) /\ call.op = "stream" /\ got = call.sqls
        /\ stream.state # "dead" /\ phase \notin {"none", "dial"} /\ stream \in StreamSet
    BY <1>1 DEF Inv, PhaseOK, Talk, Types
  <1>3. CallOK'
    BY Zenon, <1>1, <1>2 DEF CallOK
  <1>4. CASE AtEnd /\ Return("io") /\ UNCHANGED stream
    <2>1. todo' = {}
      BY Zenon, <1>2, <1>4 DEF Return, Types
    <2>2. Types'
      <3>1. /\ phase' = "rest" /\ exchange' = "main" /\ written' = 0 /\ result' = "io"
            /\ stream' = stream
        BY <1>4 DEF Return
      <3>2. 0 \in 0 .. Batch /\ "rest" \in Phase \ {"none"}
        BY SessionAssumption DEF Phase
      <3> QED BY <1>1, <1>2, <2>1, <3>1, <3>2, StepTypes DEF Types
    <2>3. Quiet' /\ OwnAnswers' /\ phase' = "rest"
      BY <1>4 DEF Quiet, AtEnd, OwnAnswers, Return
    <2>4. \A i \in 1 .. Batch : runs'[i] <= MayHaveRun'
      BY <1>1 DEF Inv, RunsOK, MayHaveRun
    <2> QED BY <1>3, <2>2, <2>3, <2>4, Landing
  <1>5. CASE stream.answers # <<>> /\ Consumed /\ Frame.kind = "chunk"
    <2>1. UNCHANGED <<phase, result, exchange, written, todo>>
      <3>1. ~AtEnd
        BY <1>5 DEF AtEnd
      <3> QED BY <1>5, <3>1 DEF NextFrame
    <2>2. Types'
      BY Zenon, <1>1, <1>2, <1>5, <2>1, StepTypes, ConsumedStream DEF Types
    <2>3. Flow(1)'
      <3>1. stream.answers[1].kind = "chunk"
        BY <1>2, <1>5, ConsumedStream
      <3> QED BY <1>2, <1>5, <3>1, FlowGoesOn, FlowShifts
    <2>4. PhaseOK'
      BY <1>1, <1>2, <1>5, <2>1, ConsumedStream DEF PhaseOK, InExchange
    <2>5. RunsOK'
      BY <1>1, <2>1 DEF Inv, RunsOK, InExchange, MayHaveRun
    <2>6. Talk' /\ SessionOK' /\ OwnAnswers'
      BY <1>1, <1>2, <2>1, <2>3 DEF Talk, SessionOK, OwnAnswers, InExchange
    <2> QED BY <1>3, <2>2, <2>4, <2>5, <2>6 DEF Inv
  <1>6. CASE stream.answers # <<>> /\ Consumed /\ Frame.kind # "chunk"
    <2>1. PICK r \in {"ok", "error"} : Return(r)
      <3>1. ~AtEnd
        BY <1>6 DEF AtEnd
      <3> QED BY <1>6, <3>1 DEF NextFrame
    <2> DEFINE n == Len(stream.answers)
               rest == Len(stream'.answers)
    <2>2. n \in Nat /\ n >= 1 /\ rest = n - 1 /\ stream' \in StreamSet
      BY <1>2, <1>6, ConsumedStream
    <2>3. /\ \A i \in 1 .. n : i < n => stream.answers[i].kind = "chunk"
          /\ stream.answers[1].kind # "chunk"
          /\ stream.state = "up" =>
                /\ stream.sent = <<>>
                /\ stream.rows > 0 => \A i \in 1 .. n : stream.answers[i].kind = "chunk"
      BY <1>2, <1>6, ConsumedStream DEF Flow
    <2>4. rest = 0 /\ (stream.state = "up" => ~(stream.rows > 0))
      <3> HIDE DEF n, rest
      <3> QED BY <2>2, <2>3
    <2>5. stream'.answers = <<>> /\ (stream.state = "up" => stream.sent = <<>> /\ stream.rows = 0)
      <3>1. stream.rows \in Nat /\ stream'.answers \in Seq(Answers)
        BY <1>2, <2>2, SessionAssumption DEF StreamSet
      <3>2. stream'.answers = <<>>
        BY <2>4, <3>1
      <3>3. ~(stream.rows > 0) => stream.rows = 0
        BY <3>1
      <3> QED BY Zenon, <2>3, <2>4, <3>2, <3>3
    <2>6. Quiet'
      BY <1>2, <1>6, <2>5, ConsumedStream DEF Quiet
    <2>7. OwnAnswers'
      BY <1>1, <1>2 DEF OwnAnswers
    <2> QED BY <1>1, <1>2, <1>3, <1>6, <2>1, <2>6, <2>7, ReadReturns DEF Types
  <1> QED BY <1>4, <1>5, <1>6 DEF NextFrame
=============================================================================
