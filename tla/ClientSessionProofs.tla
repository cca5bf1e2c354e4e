------------------------ MODULE ClientSessionProofs ------------------------
(***************************************************************************)
(* Proofs about the session of a Client (ClientSession), for every set of  *)
(* endpoints, statements, handles and ids and every bound, of servers that *)
(* know the tagged-request opcode: the steps of the server keep the        *)
(* invariant of ClientSessionInvariant, and the theorems follow from it.   *)
(***************************************************************************)
EXTENDS ClientSessionInvariant

(* The server *)

\* What a request says about the exchange it belongs to.
LEMMA RequestKinds ==
    ASSUME Types, CallOK, PhaseOK, InExchange, NEW j \in 1 .. Width
    PROVE  LET r == Requests[j]
           IN  /\ r.op = "hello" => exchange = "hello"
               /\ r.op = "use" => /\ r.arg = database
                                  /\ \/ exchange = "database"
                                     \/ exchange = "main" /\ call.op = "use"
               /\ r.op = "budget" => /\ r.arg \in Rows
                                     /\ \/ exchange = "budget" /\ r.arg = budget
                                        \/ exchange = "main" /\ call.op = "budget"
               /\ r.op = "prepare" => /\ r.arg = call.sqls[1] /\ r.arg \in Statement
                                      /\ \/ exchange = "prepare"
                                         \/ exchange = "main" /\ call.op = "prepare"
               /\ r.op = "run" => /\ exchange = "main" /\ call.op = "run"
                                  /\ r.arg = handles[call.handle].id /\ r.arg \in Ids
               /\ r.op \in {"execute", "stream"} =>
                     /\ exchange = "main" /\ call.op \in {"execute", "pipeline", "stream"}
                     /\ r.arg = call.sqls[j] /\ r.arg \in Statement
               /\ r.op = "stream" <=> exchange = "main" /\ call.op = "stream"
               /\ r.op \in {"hello", "use", "budget", "prepare", "run", "execute", "stream"}
  <1>1. CASE exchange = "main" /\ call.op = "pipeline"
    <2>1. j \in DOMAIN call.sqls /\ call.sqls[j] \in Statement
      BY <1>1 DEF Width, CallOK
    <2>2. Requests[j] = Request("execute", call.sqls[j], j)
      BY <1>1, <2>1 DEF Requests
    <2> QED BY <1>1, <2>1, <2>2 DEF Request
  <1>2. CASE ~(exchange = "main" /\ call.op = "pipeline")
    <2>1. j = 1
      BY <1>2 DEF Width
    <2>2. CASE exchange = "main"
      <3>1. call.op \in Ops \ {"connect", "reconnect", "pipeline"}
        BY <1>2, <2>2 DEF CallOK, PhaseOK
      <3>2. CASE call.op \in {"execute", "stream", "prepare"}
        <4>1. call.sqls[1] \in Statement
          BY SMTT(30), <3>2 DEF CallOK
        <4>2. Requests[1] = Request(call.op, call.sqls[1], 0)
          BY <2>2, <3>2 DEF Requests
        <4> QED BY SMTT(30), <2>1, <2>2, <3>2, <4>1, <4>2 DEF Request
      <3>3. CASE call.op = "run"
        <4>1. Requests[1] = Request("run", handles[call.handle].id, 0)
          BY <2>2, <3>3 DEF Requests
        <4> QED BY SMTT(30), <2>1, <2>2, <3>3, <4>1 DEF Request, CallOK
      <3>4. CASE call.op = "use"
        <4>1. Requests[1] = Request("use", database, 0)
          BY <2>2, <3>4 DEF Requests
        <4> QED BY SMTT(30), <2>1, <2>2, <3>4, <4>1 DEF Request
      <3>5. CASE call.op = "budget"
        <4>1. Requests[1] = Request("budget", call.arg, 0)
          BY <2>2, <3>5 DEF Requests
        <4> QED BY SMTT(30), <2>1, <2>2, <3>5, <4>1 DEF Request, CallOK
      <3> QED BY <3>1, <3>2, <3>3, <3>4, <3>5 DEF Ops
    <2>3. CASE exchange = "prepare"
      <3>1. call.op = "run" /\ handles[call.handle].sql = call.sqls[1] /\ call.sqls[1] \in Statement
        BY <2>3 DEF PhaseOK, CallOK
      <3>2. Requests[1] = Request("prepare", handles[call.handle].sql, 0)
        BY <2>3 DEF Requests
      <3> QED BY SMTT(30), <2>1, <2>3, <3>1, <3>2 DEF Request
    <2>4. CASE exchange = "hello"
      <3>1. Requests[1] = Request("hello", None, 0)
        BY <2>4 DEF Requests
      <3> QED BY SMTT(30), <2>1, <2>4, <3>1 DEF Request
    <2>5. CASE exchange = "database"
      <3>1. Requests[1] = Request("use", database, 0)
        BY <2>5 DEF Requests
      <3> QED BY <2>1, <2>5, <3>1 DEF Request
    <2>6. CASE exchange = "budget"
      <3>1. Requests[1] = Request("budget", budget, 0)
        BY <2>6 DEF Requests
      <3> QED BY SMTT(30), <2>1, <2>6, <3>1 DEF Request, Types
    <2> QED BY <2>2, <2>3, <2>4, <2>5, <2>6 DEF Types
  <1> QED BY <1>1, <1>2

\* Where the conversation stands when the server takes a request.
LEMMA Asked ==
    ASSUME Inv, stream.state = "up", stream.sent # <<>>
    PROVE  /\ InExchange /\ ~Opened
           /\ \E k \in 0 .. Batch : /\ Conversation(k)
                                    /\ Served(k) \in Nat /\ Served(k) + 1 \in 1 .. written
                                    /\ Head(stream.sent) = Requests[Served(k) + 1]
  <1>1. Types /\ PhaseOK /\ stream \in StreamSet /\ phase \in Phase
    BY DEF Inv, Types
  <1>2. InExchange /\ ~Opened
    BY <1>1 DEF Inv, Talk, Quiet, Flow, Opened, InExchange, Phase
  <1>3. PICK k \in 0 .. Batch : Conversation(k)
    BY <1>2 DEF Inv, Talk
  <1> DEFINE n == Len(stream.answers)
             m == Len(stream.sent)
  <1>4. /\ n \in Nat /\ m \in Nat /\ m >= 1 /\ Head(stream.sent) = stream.sent[1]
        /\ 1 \in 1 .. m
    BY <1>1 DEF StreamSet
  <1>5. Served(k) = k + n /\ Served(k) + m = written /\ written \in Nat /\ k \in Nat
    <2>1. Served(k) = k + n
      BY DEF Served
    <2>2. Served(k) + m = written
      BY <1>3 DEF Conversation, Awaited
    <2>3. written \in Nat /\ k \in Nat
      BY <1>1, SessionAssumption DEF Types
    <2> QED BY Zenon, <2>1, <2>2, <2>3
  <1>6. stream.sent[1] = Requests[Served(k) + 1]
    BY <1>3, <1>4 DEF Conversation, Awaited
  <1> HIDE DEF n, m
  <1>7. Served(k) \in Nat /\ Served(k) + 1 \in 1 .. written
    BY <1>4, <1>5
  <1> QED BY <1>2, <1>3, <1>4, <1>6, <1>7

\* The stream after an answer: the request is off, the answer at the end.
LEMMA AnsweredStream ==
    ASSUME Types, stream.state = "up", stream.sent # <<>>,
           NEW a \in Answers, NEW db \in Database \cup {None}, NEW n \in Rows,
           NEW ids \in [Ids -> Statement \cup {None}], NEW rows \in 0 .. Chunks + 1,
           Answered(a, db, n, ids, rows)
    PROVE  /\ stream' \in StreamSet /\ stream'.state = "up" /\ stream'.db = db
           /\ stream'.budget = n /\ stream'.ids = ids /\ stream'.rows = rows
           /\ Len(stream.answers) \in Nat /\ Len(stream'.answers) = Len(stream.answers) + 1
           /\ \A i \in 1 .. Len(stream.answers) : stream'.answers[i] = stream.answers[i]
           /\ stream'.answers[Len(stream.answers) + 1] = a
           /\ Len(stream.sent) \in Nat /\ Len(stream'.sent) = Len(stream.sent) - 1
           /\ \A i \in 1 .. Len(stream'.sent) : stream'.sent[i] = stream.sent[i + 1]
           /\ stream'.answers # <<>>
  <1> DEFINE s == stream.answers
             q == stream.sent
  <1>1. s \in Seq(Answers) /\ q \in Seq(RequestSet) /\ q # <<>> /\ stream \in StreamSet
    BY DEF Types, StreamSet
  <1>2. stream' = [stream EXCEPT !.sent = Tail(q), !.answers = Append(s, a),
                                 !.db = db, !.budget = n, !.ids = ids, !.rows = rows]
    BY DEF Answered
  <1> HIDE DEF s, q
  <1>3. /\ Tail(q) \in Seq(RequestSet) /\ Len(q) \in Nat /\ Len(Tail(q)) = Len(q) - 1
        /\ \A i \in 1 .. Len(Tail(q)) : Tail(q)[i] = q[i + 1]
    BY <1>1
  <1>4. /\ Append(s, a) \in Seq(Answers) /\ Len(s) \in Nat /\ Len(Append(s, a)) = Len(s) + 1
        /\ \A i \in 1 .. Len(s) : Append(s, a)[i] = s[i]
        /\ Append(s, a)[Len(s) + 1] = a /\ Append(s, a) # <<>>
    BY <1>1, Appending
  <1>5. /\ stream' \in StreamSet /\ stream'.state = "up" /\ stream'.db = db
        /\ stream'.budget = n /\ stream'.ids = ids /\ stream'.rows = rows
        /\ stream'.sent = Tail(q) /\ stream'.answers = Append(s, a)
    BY Zenon, <1>1, <1>2, <1>3, <1>4 DEF StreamSet
  <1> QED BY <1>3, <1>4, <1>5 DEF s, q

\* What the server leaves alone.
ServerKeeps ==
    UNCHANGED <<endpoints, database, budget, handles, call, phase, exchange, written, todo,
                got, result>>

\* An answer in one frame carries the conversation on.
LEMMA AnsweredInv ==
    ASSUME Inv, stream.state = "up", stream.sent # <<>>, ServerKeeps,
           NEW k \in 0 .. Batch, Conversation(k), Served(k) \in Nat,
           Served(k) + 1 \in 1 .. written, ~Opened, InExchange,
           NEW a \in Answers, NEW db \in Database \cup {None}, NEW n \in Rows,
           NEW ids \in [Ids -> Statement \cup {None}], Answered(a, db, n, ids, 0),
           Replies(Requests[Served(k) + 1], a),
           runs' \in [1 .. Batch -> 0 .. 3], RunsOK',
           \A i \in 1 .. Batch : i > Served(k) + 1 => runs'[i] < MayHaveRun,
           SessionOK'
    PROVE  Inv'
  <1>1. /\ Types /\ CallOK /\ PhaseOK /\ phase \notin {"none", "dial"} /\ written \in Nat
        /\ k \in Nat /\ stream \in StreamSet
    BY SMTT(30), SessionAssumption DEF Inv, InExchange, Types
  <1>2. Width' = Width /\ Requests' = Requests /\ MayHaveRun' = MayHaveRun
    BY DEF ServerKeeps, Width, Requests, MayHaveRun
  <1>3. 0 \in 0 .. Chunks + 1
    BY SMTT(30), SessionAssumption
  <1> DEFINE len == Len(stream.answers)
             left == Len(stream.sent)
  <1>4. /\ stream' \in StreamSet /\ stream'.state = "up" /\ stream'.rows = 0
        /\ len \in Nat /\ Len(stream'.answers) = len + 1
        /\ \A i \in 1 .. len : stream'.answers[i] = stream.answers[i]
        /\ stream'.answers[len + 1] = a
        /\ left \in Nat /\ Len(stream'.sent) = left - 1
        /\ \A i \in 1 .. Len(stream'.sent) : stream'.sent[i] = stream.sent[i + 1]
    BY Zenon, <1>1, <1>3, AnsweredStream
  <1>5. Types'
    BY <1>1, <1>4, StepTypes DEF Types, ServerKeeps
  <1>6. CallOK' /\ PhaseOK' /\ OwnAnswers'
    <2>1. CallOK'
      BY <1>1, Zenon DEF Inv, CallOK, ServerKeeps
    <2>2. InExchange' <=> InExchange
      BY <1>1, Zenon DEF InExchange, ServerKeeps
    <2>3. PhaseOK'
      BY <1>1, <1>2, <1>4, <2>2, Zenon DEF Inv, PhaseOK, ServerKeeps
    <2>4. OwnAnswers'
      BY <1>1, Zenon DEF Inv, OwnAnswers, ServerKeeps
    <2> QED BY <2>1, <2>3, <2>4
  <1>7. Served(k) = k + len /\ Served(k)' = k + (len + 1) /\ Served(k) + left = written
    BY Zenon, <1>4 DEF Served, Conversation, Awaited
  <1>8. Progress(k)' /\ Read(k)'
    <2>1. Served(k)' <= written'
      <3> HIDE DEF len, left
      <3> QED BY SMTT(30), <1>1, <1>4, <1>7 DEF ServerKeeps
    <2> QED BY <1>2, <2>1 DEF Conversation, Progress, Read, ServerKeeps
  <1>9. Unread(k)'
    <2>1. \A i \in 1 .. len : Replies(Requests[k + i], stream.answers[i])
      BY DEF Conversation, Unread
    <2>2. Replies(Requests[k + (len + 1)], a)
      <3>1. k + (len + 1) = Served(k) + 1
        <4> HIDE DEF len
        <4> QED BY SMTT(30), <1>1, <1>4, <1>7
      <3> QED BY <3>1
    <2>3. \A i \in 1 .. len + 1 : i \in 1 .. len \/ i = len + 1
      <3> HIDE DEF len
      <3> QED BY SMTT(30), <1>4
    <2>4. \A i \in 1 .. len + 1 : Replies(Requests[k + i], stream'.answers[i])
      <3> HIDE DEF len
      <3> QED BY <1>4, <2>1, <2>2, <2>3, Zenon
    <2> QED BY <1>2, <1>4, <2>4 DEF Unread, Replies
  <1>10. Awaited(k)'
    <2>1. \A i \in 1 .. left : stream.sent[i] = Requests[(k + len) + i]
      BY <1>7 DEF Conversation, Awaited
    <2>2. (k + (len + 1)) + (left - 1) = written /\ Served(k) + 1 = k + (len + 1)
      <3> HIDE DEF len, left
      <3> QED BY SMTT(30), <1>1, <1>4, <1>7
    <2>3. \A i \in 1 .. left - 1 : stream'.sent[i] = Requests[(k + (len + 1)) + i]
      <3> HIDE DEF len, left
      <3>1. SUFFICES ASSUME NEW i \in 1 .. left - 1
                     PROVE  stream'.sent[i] = Requests[(k + (len + 1)) + i]
        OBVIOUS
      <3>2. i + 1 \in 1 .. left /\ (k + len) + (i + 1) = (k + (len + 1)) + i
        BY SMTT(30), <1>1, <1>4
      <3>3. stream'.sent[i] = stream.sent[i + 1]
        BY <1>4
      <3>4. stream.sent[i + 1] = Requests[(k + len) + (i + 1)]
        BY <2>1, <3>2
      <3> QED BY <3>2, <3>3, <3>4
    <2>4. \A i \in 1 .. Batch : i > k + (len + 1) => runs'[i] < MayHaveRun
      BY <2>2
    <2> HIDE DEF len, left
    <2> QED BY <1>2, <1>4, <1>7, <2>2, <2>3, <2>4 DEF Awaited, ServerKeeps
  <1>11. Talk'
    BY <1>8, <1>9, <1>10 DEF Talk, Conversation, InExchange, ServerKeeps
  <1> QED BY <1>5, <1>6, <1>11 DEF Inv

\* A statement that runs uses up the run that was left for its place.
LEMMA RunCounts ==
    ASSUME Types, RunsOK, InExchange, exchange = "main", NEW j \in 1 .. written,
           runs[j] < MayHaveRun, \A i \in 1 .. Batch : i > j => runs[i] < MayHaveRun,
           ServerKeeps, runs' = [runs EXCEPT ![j] = IF @ = 3 THEN 3 ELSE @ + 1]
    PROVE  /\ runs' \in [1 .. Batch -> 0 .. 3] /\ RunsOK'
           /\ \A i \in 1 .. Batch : i > j => runs'[i] < MayHaveRun
  <1>1. j \in 1 .. Batch /\ MayHaveRun \in {1, 2} /\ MayHaveRun' = MayHaveRun
    BY SMTT(30), SessionAssumption DEF Types, MayHaveRun, ServerKeeps
  <1>2. /\ runs \in [1 .. Batch -> 0 .. 3] /\ runs[j] \in {0, 1}
        /\ runs' = [runs EXCEPT ![j] = runs[j] + 1]
    <2>1. runs \in [1 .. Batch -> 0 .. 3] /\ runs[j] \in 0 .. 3
      BY <1>1 DEF Types
    <2>2. runs[j] \in {0, 1}
      BY <1>1, <2>1
    <2>3. (IF runs[j] = 3 THEN 3 ELSE runs[j] + 1) = runs[j] + 1
      BY <2>2
    <2> QED BY <2>1, <2>2, <2>3, Zenon
  <1>3. /\ runs'[j] = runs[j] + 1
        /\ \A i \in 1 .. Batch : i # j => runs'[i] = runs[i]
        /\ runs' \in [1 .. Batch -> 0 .. 3]
    BY <1>1, <1>2
  <1>4. \A i \in 1 .. Batch : runs'[i] <= MayHaveRun'
    BY <1>1, <1>2, <1>3 DEF RunsOK
  <1>5. \A i \in 1 .. Batch : i > j => runs'[i] < MayHaveRun
    BY <1>1, <1>3
  <1>6. \A i \in 1 .. Batch : i > written => i > j
    BY <1>1, SessionAssumption DEF Types
  <1>7. RunsOK'
    BY <1>1, <1>4, <1>5, <1>6 DEF RunsOK, InExchange, ServerKeeps
  <1> QED BY <1>3, <1>5, <1>7

\* The server takes the next request.
LEMMA ServeInv ==
    ASSUME Old = {}, Inv, Serve
    PROVE  Inv'
  <1>1. stream.state = "up" /\ stream.sent # <<>> /\ stream.rows = 0 /\ ServerKeeps
    BY DEF Serve, ServerKeeps
  <1>2. Types /\ CallOK /\ PhaseOK /\ RunsOK /\ SessionOK /\ InExchange /\ ~Opened
        /\ stream \in StreamSet
    BY <1>1, Asked DEF Inv, Types
  <1>3. PICK k \in 0 .. Batch : /\ Conversation(k)
                                /\ Served(k) \in Nat /\ Served(k) + 1 \in 1 .. written
                                /\ Head(stream.sent) = Requests[Served(k) + 1]
    BY <1>1, Asked
  <1> DEFINE j == Served(k) + 1
             r == Requests[j]
  <1>4. j \in 1 .. Width /\ Width \in 1 .. Batch /\ j \in 1 .. written
    <2>1. Width \in 1 .. Batch /\ written \in Nat /\ written <= Width
      BY SMTT(30), <1>2, WidthBounds, SessionAssumption DEF PhaseOK, InExchange, Types
    <2> QED BY <1>3, <2>1
  <1>5. r.tag = IF exchange = "main" /\ call.op = "pipeline" THEN j ELSE 0
    BY <1>2, <1>4, RequestsShape
  <1>6. ~(exchange = "main" /\ call.op = "pipeline") => j = 1 /\ Len(stream.answers) = 0
    <2>1. ASSUME ~(exchange = "main" /\ call.op = "pipeline")
          PROVE  j = 1 /\ Len(stream.answers) = 0
      <3> DEFINE len == Len(stream.answers)
      <3>1. Width = 1 /\ len \in Nat /\ k \in Nat /\ Served(k) = k + len
        BY <1>2, <2>1, SessionAssumption DEF Width, StreamSet, Served
      <3> HIDE DEF len
      <3>2. j = 1 /\ len = 0
        BY <1>3, <1>4, <3>1
      <3> QED BY <3>2 DEF len
    <2> QED BY <2>1
  <1>7. \A i \in 1 .. Batch : i > Served(k) => runs[i] < MayHaveRun
    BY <1>1, <1>3 DEF Conversation, Awaited
  <1>8. /\ stream.db \in Database \cup {None} /\ stream.budget \in Rows
        /\ stream.ids \in [Ids -> Statement \cup {None}]
    BY <1>2 DEF StreamSet
  <1>9. 0 \in 0 .. Chunks + 1 /\ 0 \in 0 .. Batch
    BY SessionAssumption
  \* A request that is no statement.
  <1>10. ASSUME ~(exchange = "main" /\ call.op = "pipeline"),
                NEW a \in Answers, NEW db \in Database \cup {None}, NEW n \in Rows,
                NEW ids \in [Ids -> Statement \cup {None}], Answered(a, db, n, ids, 0),
                Replies(r, a), UNCHANGED runs,
                exchange = "hello" => db = None /\ n = 0,
                exchange = "database" => n = 0 /\ (a.kind # "error" => db = database),
                exchange = "budget" => db = database /\ (a.kind # "error" => n = budget),
                exchange \in {"main", "prepare"} /\ ~call.left => db = database /\ n = budget,
                exchange = "prepare" /\ a.kind = "id" => ids[a.about] = call.sqls[1],
                exchange = "main" /\ call.op = "run" => ids = stream.ids
         PROVE  Inv'
    <2>1. /\ stream'.state = "up" /\ stream'.db = db /\ stream'.budget = n
          /\ stream'.ids = ids /\ stream'.answers[1] = a
      <3>1. Len(stream.answers) + 1 = 1
        BY SMTT(30), <1>6, <1>10
      <3>2. /\ stream'.state = "up" /\ stream'.db = db /\ stream'.budget = n
            /\ stream'.ids = ids /\ stream'.answers[Len(stream.answers) + 1] = a
        <4>1. Types /\ stream.state = "up" /\ stream.sent # <<>> /\ Answered(a, db, n, ids, 0)
          BY <1>1, <1>2, <1>10
        <4> QED BY <1>9, <4>1, AnsweredStream
      <3> QED BY <3>1, <3>2
    <2>2. SessionOK'
      <3>1. exchange = "main" /\ call.op = "run" /\ ~call.left =>
               ids[handles[call.handle].id] = handles[call.handle].sql
        BY <1>1, <1>2, <1>10 DEF SessionOK
      <3> QED BY <1>1, <1>10, <2>1, <3>1 DEF SessionOK, Accepted, InSession, ServerKeeps
    <2>3. RunsOK' /\ runs' \in [1 .. Batch -> 0 .. 3] /\ MayHaveRun' = MayHaveRun
      BY <1>1, <1>2, <1>10 DEF RunsOK, MayHaveRun, InExchange, ServerKeeps, Types
    <2>4. \A i \in 1 .. Batch : i > Served(k) + 1 => runs'[i] < MayHaveRun
      <3> DEFINE m == Served(k)
      <3>1. m \in Nat /\ runs' = runs /\ \A i \in 1 .. Batch : i > m => runs[i] < MayHaveRun
        BY <1>3, <1>7, <1>10
      <3>2. Batch \in Nat
        BY SessionAssumption
      <3> HIDE DEF m
      <3>3. \A i \in 1 .. Batch : i > m + 1 => runs'[i] < MayHaveRun
        BY <3>1, <3>2
      <3> QED BY <3>3 DEF m
    <2> QED BY Zenon, <1>1, <1>2, <1>3, <1>10, <2>2, <2>3, <2>4, AnsweredInv
  <1>11. ASSUME NEW kind \in {"done", "error", "id"}, NEW about \in Ids \cup {None},
                r.op \notin {"execute", "stream"}, r.tag = 0,
                IF kind = "id" THEN r.op = "prepare" /\ about \in Ids ELSE about = None
         PROVE  /\ Answer(kind, about, 0) \in Answers /\ Replies(r, Answer(kind, about, 0))
                /\ Answer(kind, about, 0).kind = kind /\ Answer(kind, about, 0).about = about
    BY <1>9, <1>11 DEF Answer, Answers, Replies
  <1> DEFINE Refused == Answered(Answer("error", None, 0), stream.db, stream.budget, stream.ids, 0)
  \* A request the server refuses leaves the session as it is.
  <1>12. ASSUME r.op \in {"use", "budget", "prepare", "run"}, Refused, UNCHANGED runs
         PROVE  Inv'
    <2>1. ~(exchange = "main" /\ call.op = "pipeline")
      BY <1>2, <1>4, <1>12, RequestKinds
    <2> DEFINE a == Answer("error", None, 0)
    <2>2. a \in Answers /\ Replies(r, a) /\ a.kind = "error"
      BY <1>5, <1>11, <1>12, <2>1
    <2>3. /\ exchange # "hello"
          /\ exchange = "database" => stream.budget = 0
          /\ exchange = "budget" => stream.db = database
          /\ exchange \in {"main", "prepare"} /\ ~call.left
                => stream.db = database /\ stream.budget = budget
      <3>1. exchange # "hello"
        BY <1>2, <1>4, <1>12, RequestKinds
      <3> QED BY <1>1, <1>2, <3>1 DEF SessionOK, InSession
    <2>4. Answered(a, stream.db, stream.budget, stream.ids, 0)
      BY <1>12
    <2> HIDE DEF a
    <2> QED BY <1>8, <1>10, <1>12, <2>1, <2>2, <2>3, <2>4
  <1>13. CASE r.op = "hello"
    <2>1. PICK kind \in {"done", "error"} :
             Answered(Answer(kind, None, 0), stream.db, stream.budget, stream.ids, 0)
      BY <1>3, <1>13 DEF Serve
    <2> DEFINE a == Answer(kind, None, 0)
    <2>2. exchange = "hello" /\ UNCHANGED runs
      BY <1>2, <1>3, <1>4, <1>13, RequestKinds DEF Serve
    <2>3. a \in Answers /\ Replies(r, a) /\ a.kind = kind
      BY SMTT(30), <1>5, <1>11, <1>13, <2>2
    <2>4. stream.db = None /\ stream.budget = 0
      BY <1>1, <1>2, <2>2 DEF SessionOK
    <2> HIDE DEF a
    <2> QED BY <1>8, <1>10, <2>1, <2>2, <2>3, <2>4 DEF a
  <1>14. CASE r.op = "use"
    <2>1. /\ r.arg = database /\ UNCHANGED runs /\ exchange \in {"database", "main"}
          /\ exchange = "main" => call.op = "use" /\ call.left
      BY Zenon, <1>2, <1>3, <1>4, <1>14, RequestKinds DEF Serve, CallOK
    <2> DEFINE a == Answer("done", None, 0)
    <2>2. \/ Refused
          \/ Answered(a, database, stream.budget, stream.ids, 0)
      BY Zenon, <1>3, <1>14, <2>1 DEF Serve
    <2>3. a \in Answers /\ Replies(r, a) /\ a.kind = "done"
      BY <1>5, <1>11, <1>14, <2>1
    <2>4. exchange = "database" => stream.budget = 0
      BY <1>1, <1>2 DEF SessionOK
    <2>5. database \in Database \cup {None}
      BY <1>2 DEF Types
    <2> HIDE DEF a
    <2>6. CASE Answered(a, database, stream.budget, stream.ids, 0)
      BY <1>8, <1>10, <2>1, <2>3, <2>4, <2>5, <2>6
    <2> QED BY <1>12, <1>14, <2>1, <2>2, <2>6
  <1>15. CASE r.op = "budget"
    <2>1. /\ r.arg \in Rows /\ UNCHANGED runs /\ exchange \in {"budget", "main"}
          /\ exchange = "budget" => r.arg = budget
          /\ exchange = "main" => call.op = "budget" /\ call.left
      BY Zenon, <1>2, <1>3, <1>4, <1>15, RequestKinds DEF Serve, CallOK
    <2> DEFINE a == Answer("done", None, 0)
    <2>2. \/ Refused
          \/ Answered(a, stream.db, r.arg, stream.ids, 0)
      BY Zenon, <1>3, <1>15, <2>1 DEF Serve
    <2>3. a \in Answers /\ Replies(r, a) /\ a.kind = "done"
      BY <1>5, <1>11, <1>15, <2>1
    <2>4. exchange = "budget" => stream.db = database
      BY <1>1, <1>2 DEF SessionOK
    <2> HIDE DEF a
    <2>5. CASE Answered(a, stream.db, r.arg, stream.ids, 0)
      BY <1>8, <1>10, <2>1, <2>3, <2>4, <2>5
    <2> QED BY <1>12, <1>15, <2>1, <2>2, <2>5
  <1>16. CASE r.op = "prepare"
    <2>1. /\ r.arg = call.sqls[1] /\ r.arg \in Statement /\ UNCHANGED runs
          /\ exchange \in {"prepare", "main"}
          /\ exchange = "main" => call.op = "prepare"
      BY Zenon, <1>2, <1>3, <1>4, <1>16, RequestKinds DEF Serve
    <2>2. \/ Refused
          \/ \E i \in {h \in Ids : stream.ids[h] = None} :
                Answered(Answer("id", i, 0), stream.db, stream.budget,
                         [stream.ids EXCEPT ![i] = r.arg], 0)
      BY <1>3, <1>16, <2>1 DEF Serve
    <2>3. ASSUME NEW i \in Ids,
                 Answered(Answer("id", i, 0), stream.db, stream.budget,
                          [stream.ids EXCEPT ![i] = r.arg], 0)
          PROVE  Inv'
      <3> DEFINE a == Answer("id", i, 0)
                 ids == [stream.ids EXCEPT ![i] = r.arg]
      <3>1. a \in Answers /\ Replies(r, a) /\ a.kind = "id" /\ a.about = i
        BY <1>5, <1>11, <1>16, <2>1
      <3>2. ids \in [Ids -> Statement \cup {None}] /\ ids[i] = call.sqls[1]
        BY <1>8, <2>1
      <3>3. exchange \in {"main", "prepare"} /\ ~call.left
               => stream.db = database /\ stream.budget = budget
        BY <1>1, <1>2 DEF SessionOK, InSession
      <3>4. Answered(a, stream.db, stream.budget, ids, 0)
        BY <2>3
      <3> HIDE DEF a, ids
      <3> QED BY <1>8, <1>10, <2>1, <3>1, <3>2, <3>3, <3>4
    <2> QED BY Zenon, <1>12, <1>16, <2>1, <2>2, <2>3
  \* A request that runs a statement.
  <1>17. ASSUME r.op \in {"run", "execute", "stream"}, exchange = "main",
                NEW sql \in Statement, r.op \in {"execute", "stream"} => sql = r.arg,
                RunStatement(sql, r)
         PROVE  Inv'
    <2>1. (IF r.tag = 0 THEN 1 ELSE r.tag) = j
      BY <1>4, <1>5, <1>6
    <2>2. runs' = [runs EXCEPT ![j] = IF @ = 3 THEN 3 ELSE @ + 1]
      BY Zenon, <1>17, <2>1 DEF RunStatement
    <2>3. /\ runs[j] < MayHaveRun
          /\ \A i \in 1 .. Batch : i > j => runs[i] < MayHaveRun
          /\ j \in 1 .. Batch
      <3>1. j \in 1 .. Batch
        BY <1>4, SessionAssumption
      <3> QED BY <1>3, <1>7, <3>1
    <2>4. /\ runs' \in [1 .. Batch -> 0 .. 3] /\ RunsOK'
          /\ \A i \in 1 .. Batch : i > j => runs'[i] < MayHaveRun
      BY Zenon, <1>1, <1>2, <1>4, <1>17, <2>2, <2>3, RunCounts
    <2>5. ASSUME NEW kind \in {"done", "error"},
                 Answered(Answer(kind, sql, r.tag), stream.db, stream.budget, stream.ids, 0)
          PROVE  Inv'
      <3> DEFINE a == Answer(kind, sql, r.tag)
      <3>1. r.tag \in 0 .. Batch
        BY <1>5, <1>9, <2>3, SessionAssumption
      <3>2. a \in Answers /\ Replies(r, a)
        BY <1>17, <3>1 DEF Answer, Answers, Replies
      <3>3. Answered(a, stream.db, stream.budget, stream.ids, 0)
        BY <2>5
      <3> HIDE DEF a
      <3>4. /\ stream'.state = "up" /\ stream'.db = stream.db
            /\ stream'.budget = stream.budget /\ stream'.ids = stream.ids
        BY <1>1, <1>2, <3>3 DEF Answered, StreamSet
      <3>5. SessionOK'
        BY <1>1, <1>2, <1>17, <3>4 DEF SessionOK, InSession, ServerKeeps
      <3> QED BY Zenon, <1>1, <1>2, <1>3, <1>8, <2>4, <3>2, <3>3, <3>5, AnsweredInv
    <2>6. ASSUME r.op = "stream", NEW n \in 1 .. Chunks + 1,
                 Answered(Answer("header", sql, 0), stream.db, stream.budget, stream.ids, n)
          PROVE  Inv'
      <3> DEFINE a == Answer("header", sql, 0)
      <3>1. a \in Answers /\ a.kind = "header" /\ a.about = sql /\ a.tag = 0
        BY <1>9 DEF Answer, Answers
      <3>2. Answered(a, stream.db, stream.budget, stream.ids, n) /\ n \in 0 .. Chunks + 1 /\ n > 0
        <4>1. n \in 0 .. Chunks + 1 /\ n > 0
          BY SessionAssumption
        <4> QED BY <2>6, <4>1, Zenon
      <3>3. /\ call.op = "stream" /\ sql = call.sqls[1] /\ j = 1
            /\ Len(stream.answers) = 0 /\ Served(k) = 0 /\ k = 0
        <4>1. call.op = "stream" /\ sql = call.sqls[j]
          BY <1>2, <1>4, <1>17, <2>6, RequestKinds
        <4>2. k = 0
          <5>1. k > 0 => call.op = "pipeline"
            BY <1>3, Zenon DEF Conversation, Progress
          <5>2. k \in Nat
            BY SessionAssumption
          <5> QED BY <4>1, <5>1, <5>2
        <4> QED BY <1>3, <1>6, <4>1, <4>2
      <3>4. written = 1 /\ phase = "read" /\ Len(stream.sent) = 1
        <4>1. Width = 1 /\ written \in Nat
          BY SMTT(30), <1>2, <3>3, SessionAssumption DEF Width, Types
        <4>2. written = 1 /\ phase = "read"
          BY <1>2, <1>4, <3>3, <4>1 DEF PhaseOK, InExchange
        <4>3. Served(k) + Len(stream.sent) = written
          BY <1>1, <1>3 DEF Conversation, Awaited
        <4>4. Len(stream.sent) \in Nat
          BY <1>2 DEF StreamSet
        <4> DEFINE m == Len(stream.sent)
        <4> HIDE DEF m
        <4>5. m = 1
          BY <3>3, <4>2, <4>3, <4>4 DEF m
        <4> QED BY <4>2, <4>5 DEF m
      <3> HIDE DEF a
      <3>5. /\ stream' \in StreamSet /\ stream'.state = "up" /\ stream'.db = stream.db
            /\ stream'.budget = stream.budget /\ stream'.ids = stream.ids
            /\ stream'.rows = n /\ Len(stream'.answers) = Len(stream.answers) + 1
            /\ stream'.answers[Len(stream.answers) + 1] = a
            /\ Len(stream'.sent) = Len(stream.sent) - 1 /\ stream'.answers # <<>>
        BY SMTT(30), <1>1, <1>2, <1>8, <3>1, <3>2, AnsweredStream
      <3>6. Len(stream'.answers) = 1 /\ stream'.answers[1] = a /\ stream'.sent = <<>>
        <4>1. Len(stream'.answers) = 1 /\ stream'.answers[1] = a /\ Len(stream'.sent) = 0
          BY <3>3, <3>4, <3>5
        <4>2. stream'.sent \in Seq(RequestSet)
          BY <3>5 DEF StreamSet
        <4> QED BY <4>1, <4>2
      <3>7. Types' /\ CallOK' /\ PhaseOK' /\ OwnAnswers'
        <4>1. Types'
          BY <1>2, <2>4, <3>5, <3>4, <1>1, StepTypes DEF Types, ServerKeeps
        <4>2. Width' = Width
          BY <1>1 DEF ServerKeeps, Width
        <4>3. CallOK' /\ OwnAnswers'
          <5>1. CallOK'
            BY <1>1, <1>2 DEF CallOK, ServerKeeps
          <5>2. OwnAnswers'
            BY <1>1, <3>4 DEF OwnAnswers, ServerKeeps
          <5> QED BY Zenon, <5>1, <5>2
        <4>4. PhaseOK'
          BY <1>1, <1>2, <3>4, <3>5, <4>2 DEF PhaseOK, InExchange, ServerKeeps
        <4> QED BY Zenon, <4>1, <4>3, <4>4
      <3>8. SessionOK'
        BY <1>1, <1>2, <1>17, <3>5 DEF SessionOK, InSession, ServerKeeps
      <3>9. Read(0)'
        BY <1>1, <1>3, <3>3 DEF Conversation, Read, ServerKeeps
      <3>10. Flow(2)'
        <4> DEFINE s == stream'.answers
        <4>1. Len(s) = 1 /\ stream'.rows > 0 /\ stream'.sent = <<>>
          BY <3>2, <3>5, <3>6
        <4>2. 2 .. Len(s) = {}
          BY <4>1
        <4>3. stream'.rows # 0
          BY <3>2, <3>5
        <4> HIDE DEF s
        <4>4. \A i \in 2 .. Len(s) : FALSE
          BY <4>2
        <4> QED BY <4>1, <4>3, <4>4 DEF Flow, s
      <3>11. Opened'
        BY <1>1, <1>17, <3>1, <3>3, <3>4, <3>5, <3>6, <3>9, <3>10 DEF Opened, ServerKeeps
      <3>12. Talk'
        BY <1>1, <3>4, <3>11 DEF Talk, ServerKeeps
      <3> QED BY <2>4, <3>7, <3>8, <3>12 DEF Inv
    <2> QED BY <1>17, <2>5, <2>6 DEF RunStatement
  <1>18. CASE r.op = "run"
    <2>1. exchange = "main" /\ r.arg \in Ids
      BY <1>2, <1>4, <1>18, RequestKinds
    <2>2. IF stream.ids[r.arg] = None THEN Refused /\ UNCHANGED runs
                                      ELSE RunStatement(stream.ids[r.arg], r)
      BY <1>3, <1>18 DEF Serve
    <2>3. CASE stream.ids[r.arg] = None
      BY <1>12, <1>18, <2>2, <2>3
    <2>4. CASE stream.ids[r.arg] # None
      <3>1. stream.ids[r.arg] \in Statement
        BY <1>8, <2>1, <2>4
      <3> QED BY <1>17, <1>18, <2>1, <2>2, <2>4, <3>1
    <2> QED BY <2>3, <2>4
  <1>19. CASE r.op \in {"execute", "stream"}
    <2>1. exchange = "main" /\ r.arg \in Statement
      BY <1>2, <1>4, <1>19, RequestKinds
    <2>2. RunStatement(r.arg, r)
      BY <1>3, <1>19 DEF Serve
    <2> QED BY <1>17, <1>19, <2>1, <2>2
  <1> QED BY <1>2, <1>4, <1>13, <1>14, <1>15, <1>16, <1>18, <1>19, RequestKinds

-----------------------------------------------------------------------------
(* The rows of a stream, and the end of the connection *)

\* The server adds a frame to the rows: a chunk with more to come, or the last.
LEMMA FlowGrows ==
    ASSUME Types, stream.state = "up", stream.rows > 0, ServeRows,
           NEW from \in {1, 2}, Len(stream.answers) + 1 >= from, Flow(from)
    PROVE  /\ Flow(from)' /\ stream' \in StreamSet /\ stream'.state = "up"
           /\ stream'.db = stream.db /\ stream'.budget = stream.budget
           /\ stream'.ids = stream.ids /\ stream'.answers # <<>>
           /\ stream.answers # <<>> => stream'.answers[1] = stream.answers[1]
  <1>1. PICK kind \in {IF stream.rows = 1 THEN "end" ELSE "chunk", "error"} :
           stream' = [stream EXCEPT !.answers = Append(@, Answer(kind, None, 0)),
                                    !.rows = IF kind = "chunk" THEN @ - 1 ELSE 0]
    BY Zenon DEF ServeRows
  <1> DEFINE s == stream.answers
             a == Answer(kind, None, 0)
             rows == IF kind = "chunk" THEN stream.rows - 1 ELSE 0
             n == Len(s)
  <1>2. stream \in StreamSet /\ s \in Seq(Answers) /\ stream.rows \in 0 .. Chunks + 1
    BY DEF Types, StreamSet
  <1>3. a \in Answers /\ a.kind = kind
    BY SessionAssumption DEF Answer, Answers
  <1>4. rows \in 0 .. Chunks + 1 /\ (IF kind = "chunk" THEN rows > 0 ELSE rows = 0)
    BY <1>2, SessionAssumption
  <1>5. stream' = [stream EXCEPT !.answers = Append(s, a), !.rows = rows]
    BY <1>1
  <1> HIDE DEF a, rows
  <1>6. /\ Append(s, a) \in Seq(Answers) /\ n \in Nat /\ Len(Append(s, a)) = n + 1
        /\ \A i \in 1 .. n : Append(s, a)[i] = s[i]
        /\ Append(s, a)[n + 1] = a /\ Append(s, a) # <<>>
        /\ s # <<>> => 1 \in 1 .. n
    <2> HIDE DEF s
    <2> QED BY <1>2, <1>3, Appending
  <1>7. /\ stream' \in StreamSet /\ stream'.state = "up" /\ stream'.db = stream.db
        /\ stream'.budget = stream.budget /\ stream'.ids = stream.ids
        /\ stream'.rows = rows /\ stream'.sent = stream.sent
        /\ stream'.answers = Append(s, a)
    BY Zenon, <1>2, <1>4, <1>5, <1>6 DEF StreamSet
  <1>8. /\ stream.sent = <<>>
        /\ \A i \in from .. n : stream.answers[i].kind = "chunk"
    BY DEF Flow
  <1>9. /\ Len(stream'.answers) = n + 1 /\ stream'.answers[n + 1].kind = kind
        /\ \A i \in from .. n : stream'.answers[i].kind = "chunk"
    <2>1. \A i \in from .. n : i \in 1 .. n
      <3> HIDE DEF n
      <3> QED BY <1>6
    <2>2. \A i \in 1 .. n : stream'.answers[i] = stream.answers[i]
      BY <1>6, <1>7
    <2> QED BY <1>3, <1>6, <1>7, <1>8, <2>1, <2>2
  <1>10. Flow(from)'
    <2>1. n + 1 >= from
      OBVIOUS
    <2> HIDE DEF n
    <2>2. \A i \in from .. n + 1 : i \in from .. n \/ i = n + 1
      BY <1>6
    <2>3. \A i \in from .. n + 1 : i < n + 1 => i \in from .. n
      BY <1>6
    <2> QED BY SMTT(30), <1>4, <1>7, <1>8, <1>9, <2>1, <2>2, <2>3 DEF Flow
  <1> QED BY <1>6, <1>7, <1>10

LEMMA ServeRowsInv ==
    ASSUME Inv, ServeRows
    PROVE  Inv'
  <1>1. stream.state = "up" /\ stream.rows > 0 /\ ServerKeeps /\ UNCHANGED runs
    BY DEF ServeRows, ServerKeeps
  <1>2. Types /\ CallOK /\ PhaseOK /\ RunsOK /\ SessionOK /\ Talk /\ OwnAnswers
    BY DEF Inv
  <1>3. /\ InExchange => Opened
        /\ phase \in {"read", "rows", "drain"}
    <2>1. ASSUME InExchange
          PROVE  Opened
      BY <1>1, <1>2, <2>1 DEF Talk, Conversation, Awaited
    <2>2. phase \notin {"none", "rest", "dial"}
      BY <1>1, <1>2 DEF Talk, Quiet
    <2> QED BY <1>2, <2>1, <2>2 DEF Types, Phase, InExchange, Opened
  <1>4. Len(stream.answers) \in Nat
    BY <1>2 DEF Types, StreamSet
  <1>5. ASSUME stream' \in StreamSet, stream'.state = "up", Talk', SessionOK'
        PROVE  Inv'
    <2>1. Types'
      BY <1>1, <1>2, <1>3, <1>5, StepTypes DEF Types, ServerKeeps
    <2>2. Width' = Width /\ MayHaveRun' = MayHaveRun
      BY <1>1 DEF ServerKeeps, Width, MayHaveRun
    <2>3. CallOK' /\ PhaseOK' /\ RunsOK' /\ OwnAnswers'
      <3>1. CallOK'
        BY <1>1, <1>2, Zenon DEF CallOK, ServerKeeps
      <3>2. InExchange' <=> InExchange
        BY <1>1, Zenon DEF InExchange, ServerKeeps
      <3>3. PhaseOK'
        BY <1>1, <1>2, <1>5, <2>2, <3>2, Zenon DEF PhaseOK, ServerKeeps
      <3>4. RunsOK'
        BY <1>1, <1>2, <2>2, <3>2, Zenon DEF RunsOK, ServerKeeps
      <3>5. OwnAnswers'
        BY <1>1, <1>2, Zenon DEF Inv, OwnAnswers, ServerKeeps
      <3> QED BY <3>1, <3>3, <3>4, <3>5
    <2> QED BY <1>5, <2>1, <2>3 DEF Inv
  <1>6. CASE phase = "read"
    <2>1. Opened
      BY <1>3, <1>6 DEF InExchange
    <2>2. Flow(2) /\ Len(stream.answers) + 1 >= 2 /\ stream.answers # <<>>
      <3>1. stream.answers # <<>> /\ stream.answers \in Seq(Answers)
        BY <1>2, <2>1 DEF Opened, Types, StreamSet
      <3> DEFINE s == stream.answers
      <3>2. Len(s) >= 1 /\ Len(s) \in Nat
        <4>1. s # <<>> /\ s \in Seq(Answers)
          BY <3>1
        <4> HIDE DEF s
        <4> QED BY <4>1
      <3> QED BY <2>1, <3>1, <3>2 DEF Opened
    <2>3. /\ Flow(2)' /\ stream' \in StreamSet /\ stream'.state = "up"
          /\ stream'.db = stream.db /\ stream'.budget = stream.budget
          /\ stream'.answers # <<>> /\ stream'.answers[1] = stream.answers[1]
      BY <1>1, <1>2, <2>2, FlowGrows
    <2>4. Opened'
      BY <1>1, <2>1, <2>3 DEF Opened, Read, ServerKeeps
    <2>5. Talk'
      BY <1>1, <1>6, <2>4 DEF Talk, ServerKeeps
    <2>6. SessionOK'
      BY <1>1, <1>2, <2>1, <2>3 DEF SessionOK, InSession, InExchange, Opened, ServerKeeps
    <2> QED BY <1>5, <2>3, <2>5, <2>6
  <1>7. CASE phase \in {"rows", "drain"}
    <2>1. Flow(1) /\ Len(stream.answers) + 1 >= 1
      BY <1>2, <1>4, <1>7 DEF Talk
    <2>2. Flow(1)' /\ stream' \in StreamSet /\ stream'.state = "up"
      BY <1>1, <1>2, <2>1, FlowGrows
    <2>3. Talk' /\ SessionOK'
      BY <1>1, <1>7, <2>2 DEF Talk, SessionOK, InExchange, ServerKeeps
    <2> QED BY <1>5, <2>2, <2>3
  <1> QED BY <1>3, <1>6, <1>7

\* What is left of the frames when the end of them is lost.
LEMMA Opening ==
    ASSUME NEW S, NEW s \in Seq(S), NEW n \in 0 .. Len(s)
    PROVE  /\ SubSeq(s, 1, n) \in Seq(S) /\ Len(SubSeq(s, 1, n)) = n
           /\ \A i \in 1 .. n : SubSeq(s, 1, n)[i] = s[i]
  <1>1. Len(s) \in Nat /\ n \in Nat /\ n <= Len(s)
    OBVIOUS
  <1>2. SubSeq(s, 1, n) = [i \in 1 .. n |-> s[i]]
    BY <1>1
  <1> QED BY <1>1, <1>2

\* What has arrived of the answers when the server goes away is a prefix of
\* what it sent.
LEMMA BreakInv ==
    ASSUME Inv, Break
    PROVE  Inv'
  <1>1. stream.state = "up" /\ ServerKeeps /\ UNCHANGED runs
    BY DEF Break, ServerKeeps
  <1>2. /\ Types /\ CallOK /\ PhaseOK /\ RunsOK /\ SessionOK /\ Talk /\ OwnAnswers
        /\ stream \in StreamSet
    BY DEF Inv, Types
  <1>3. PICK n \in 0 .. Len(stream.answers) :
           stream' = [stream EXCEPT !.state = "closed", !.sent = <<>>, !.rows = 0,
                                    !.answers = SubSeq(@, 1, n)]
    BY Zenon DEF Break
  <1> DEFINE s == stream.answers
             len == Len(s)
  <1>4. s \in Seq(Answers)
    BY <1>2 DEF StreamSet
  <1>5. /\ len \in Nat /\ n \in Nat /\ n <= len
        /\ SubSeq(s, 1, n) \in Seq(Answers) /\ Len(SubSeq(s, 1, n)) = n
        /\ \A i \in 1 .. n : SubSeq(s, 1, n)[i] = s[i]
    <2>1. n \in 0 .. Len(s)
      OBVIOUS
    <2> HIDE DEF s
    <2>2. Len(s) \in Nat /\ n \in Nat /\ n <= Len(s)
      BY <1>4, <2>1
    <2> QED BY <1>4, <2>1, <2>2, Opening
  <1>6. /\ stream' \in StreamSet /\ stream'.state = "closed" /\ stream'.sent = <<>>
        /\ stream'.rows = 0 /\ Len(stream'.answers) = n
        /\ \A i \in 1 .. n : stream'.answers[i] = stream.answers[i]
        /\ n = 0 => stream'.answers = <<>>
        /\ n # 0 => stream'.answers # <<>>
    <2>1. stream' = [stream EXCEPT !.state = "closed", !.sent = <<>>, !.rows = 0,
                                   !.answers = SubSeq(s, 1, n)]
      BY <1>3
    <2>2. /\ stream' \in StreamSet /\ stream'.state = "closed" /\ stream'.sent = <<>>
          /\ stream'.rows = 0 /\ stream'.answers = SubSeq(s, 1, n)
      <3> DEFINE q == SubSeq(s, 1, n)
      <3>1. q \in Seq(Answers) /\ <<>> \in Seq(RequestSet) /\ 0 \in 0 .. Chunks + 1
        BY <1>5, SessionAssumption
      <3>2. stream' = [stream EXCEPT !.state = "closed", !.sent = <<>>, !.rows = 0,
                                     !.answers = q]
        BY <2>1
      <3> HIDE DEF q
      <3>3. /\ stream' \in StreamSet /\ stream'.state = "closed" /\ stream'.sent = <<>>
            /\ stream'.rows = 0 /\ stream'.answers = q
        BY Zenon, <1>2, <3>1, <3>2 DEF StreamSet
      <3> QED BY <3>3 DEF q
    <2>3. n = 0 => SubSeq(s, 1, n) = <<>>
      <3> HIDE DEF s
      <3> QED BY <1>5
    <2>4. n # 0 => SubSeq(s, 1, n) # <<>>
      <3> HIDE DEF s
      <3> QED BY <1>5
    <2> QED BY <1>5, <2>2, <2>3, <2>4
  <1>7. Types'
    BY <1>1, <1>2, <1>6 DEF Types, ServerKeeps
  <1>8. Width' = Width /\ Requests' = Requests /\ MayHaveRun' = MayHaveRun
    BY <1>1 DEF ServerKeeps, Width, Requests, MayHaveRun
  <1>9. CallOK' /\ PhaseOK' /\ RunsOK' /\ OwnAnswers' /\ SessionOK'
    <2>1. CallOK'
      BY <1>1, <1>2, Zenon DEF CallOK, ServerKeeps
    <2>2. InExchange' <=> InExchange
      BY <1>1, Zenon DEF InExchange, ServerKeeps
    <2>3. PhaseOK'
      BY <1>1, <1>2, <1>6, <1>8, <2>2, Zenon DEF PhaseOK, ServerKeeps
    <2>4. RunsOK'
      BY <1>1, <1>2, <1>8, <2>2, Zenon DEF RunsOK, ServerKeeps
    <2>5. OwnAnswers'
      BY <1>1, <1>2, Zenon DEF Inv, OwnAnswers, ServerKeeps
    <2>6. SessionOK'
      BY <1>6 DEF SessionOK
    <2> QED BY <2>1, <2>3, <2>4, <2>5, <2>6
  <1>10. ASSUME NEW from \in {1, 2}, Flow(from)
         PROVE  Flow(from)'
    <2>1. \A i \in from .. len : i < len => stream.answers[i].kind = "chunk"
      BY <1>10 DEF Flow
    <2>2. \A i \in from .. n : i < n => i \in from .. len /\ i < len /\ i \in 1 .. n
      <3> HIDE DEF len
      <3> QED BY <1>5
    <2>3. \A i \in from .. n : i < n => stream'.answers[i].kind = "chunk"
      BY <1>6, <2>1, <2>2
    <2> QED BY <1>6, <2>3 DEF Flow
  <1>11. ASSUME NEW k \in 0 .. Batch, Conversation(k)
         PROVE  Conversation(k)'
    <2>1. Progress(k)'
      <3>1. Served(k) = k + len /\ Served(k)' = k + n /\ k \in Nat /\ written \in Nat
        BY <1>2, <1>6, SessionAssumption DEF Served, Types
      <3>2. Served(k)' <= written
        <4>1. Served(k) <= written
          BY <1>11 DEF Conversation, Progress
        <4> HIDE DEF len
        <4> QED BY <1>5, <3>1, <4>1
      <3> QED BY <1>1, <1>8, <1>11, <3>2 DEF Conversation, Progress, ServerKeeps
    <2>2. Read(k)'
      BY <1>1, <1>11 DEF Conversation, Read, ServerKeeps
    <2>3. Unread(k)'
      <3>1. \A i \in 1 .. len : Replies(Requests[k + i], stream.answers[i])
        BY <1>11 DEF Conversation, Unread
      <3>2. \A i \in 1 .. n : i \in 1 .. len
        <4> HIDE DEF len
        <4> QED BY <1>5
      <3>3. \A i \in 1 .. n : Replies(Requests[k + i], stream'.answers[i])
        BY <1>6, <3>1, <3>2, Zenon
      <3> QED BY <1>6, <1>8, <3>3 DEF Unread, Replies
    <2>4. Awaited(k)'
      BY <1>6 DEF Awaited
    <2> QED BY <2>1, <2>2, <2>3, <2>4 DEF Conversation
  <1>12. ASSUME Opened
         PROVE  Opened' \/ Conversation(0)'
    <2>1. phase = "read" /\ exchange = "main" /\ call.op = "stream" /\ Read(0)' /\ Flow(2)'
      BY <1>1, <1>10, <1>12 DEF Opened, Read, ServerKeeps
    <2>2. CASE n # 0
      <3>1. stream'.answers # <<>> /\ stream'.answers[1] = stream.answers[1]
        BY <1>5, <1>6, <2>2
      <3> QED BY <1>1, <1>12, <2>1, <3>1 DEF Opened, ServerKeeps
    <2>3. CASE n = 0
      <3>1. Width' = 1 /\ written' \in Nat /\ Served(0)' = 0
        <4>1. Width = 1
          BY <2>1 DEF Width
        <4>2. written' \in 0 .. Batch
          BY <1>1, <1>2 DEF Types, ServerKeeps
        <4>3. written' \in Nat
          BY <4>2, SessionAssumption
        <4>4. Served(0)' = 0
          BY <1>6, <2>3 DEF Served
        <4> QED BY <1>8, <4>1, <4>3, <4>4, Zenon
      <3> QED BY SMTT(30), <1>6, <2>1, <2>3, <3>1 DEF Conversation, Progress, Unread, Awaited
    <2> QED BY <2>2, <2>3
  <1>13. Talk'
    <2>1. ASSUME InExchange
          PROVE  Opened' \/ \E k \in 0 .. Batch : Conversation(k)'
      <3>1. Opened \/ \E k \in 0 .. Batch : Conversation(k)
        BY <1>1, <1>2, <2>1 DEF Talk
      <3> QED BY <1>11, <1>12, <3>1, SessionAssumption
    <2>2. ASSUME phase \in {"none", "rest", "dial"}
          PROVE  Quiet'
      <3>1. stream.answers = <<>>
        BY <1>1, <1>2, <2>2 DEF Talk, Quiet
      <3>2. n = 0
        BY <1>5, <3>1
      <3> QED BY <1>6, <3>2 DEF Quiet
    <2>3. ASSUME phase \in {"rows", "drain"}
          PROVE  Flow(1)'
      BY <1>2, <1>10, <2>3 DEF Talk
    <2> QED BY <1>1, <2>1, <2>2, <2>3 DEF Talk, InExchange, ServerKeeps
  <1> QED BY <1>7, <1>9, <1>13 DEF Inv

-----------------------------------------------------------------------------
(* The invariant, and what it says *)

LEMMA InitInv ==
    ASSUME Init
    PROVE  Inv
  <1>1. /\ stream.at = None /\ stream.state = "dead" /\ stream.db = None /\ stream.budget = 0
        /\ stream.ids = [i \in Ids |-> None] /\ stream.sent = <<>> /\ stream.answers = <<>>
        /\ stream.rows = 0
    BY DEF Init, Fresh
  <1>2. stream \in StreamSet
    <2>1. stream = [at |-> None, state |-> "dead", db |-> None, budget |-> 0,
                    ids |-> [i \in Ids |-> None], sent |-> <<>>, answers |-> <<>>, rows |-> 0]
      BY DEF Init, Fresh
    <2>2. <<>> \in Seq(RequestSet) /\ <<>> \in Seq(Answers) /\ 0 \in 0 .. Chunks + 1 /\ 0 \in Rows
      BY SessionAssumption
    <2>3. [i \in Ids |-> None] \in [Ids -> Statement \cup {None}]
      OBVIOUS
    <2> QED BY <2>1, <2>2, <2>3 DEF StreamSet
  <1>3. Types
    BY <1>1, <1>2, SessionAssumption DEF Init, Types, Phase
  <1>4. CallOK
    BY DEF Init, CallOK, NoCall, Ops
  <1> QED BY <1>1, <1>3, <1>4 DEF Init, Inv, PhaseOK, RunsOK, Talk, Quiet, SessionOK,
                                 OwnAnswers, InExchange, MayHaveRun, NoCall

LEMMA StepInv ==
    ASSUME Old = {}, LargeAt \subseteq {1}, Inv, [Next]_vars
    PROVE  Inv'
  <1>1. CASE UserStep
    BY <1>1, CallsInv, OthersInv DEF UserStep
  <1>2. CASE ClientStep
    BY <1>2, DialInv, WriteInv, FailsInv, RefusedInv, ReadReplayInv, ReadPreparedInv, ReadAnswerInv,
       ReadSlotInv, ReadHeaderInv, NextFrameInv DEF ClientStep
  <1>3. CASE ServerStep
    BY <1>3, ServeInv, ServeRowsInv DEF ServerStep
  <1>4. CASE UNCHANGED vars
    <2>1. Width' = Width /\ MayHaveRun' = MayHaveRun /\ Requests' = Requests
      BY <1>4 DEF vars, Width, MayHaveRun, Requests
    <2>2. Types' /\ CallOK' /\ PhaseOK' /\ RunsOK'
      <3>1. Types /\ CallOK /\ PhaseOK /\ RunsOK
        BY DEF Inv
      <3>2. Types'
        BY <1>4, <3>1, Zenon DEF vars, Types
      <3>3. CallOK'
        BY <1>4, <3>1, Zenon DEF vars, CallOK
      <3>4. InExchange' <=> InExchange
        BY <1>4, Zenon DEF vars, InExchange
      <3>5. PhaseOK'
        BY <1>4, <2>1, <3>1, <3>4, Zenon DEF vars, PhaseOK
      <3>6. RunsOK'
        BY <1>4, <2>1, <3>1, <3>4, Zenon DEF vars, RunsOK
      <3> QED BY <3>2, <3>3, <3>5, <3>6
    <2>3. SessionOK' /\ OwnAnswers'
      BY <1>4 DEF vars, Inv, SessionOK, OwnAnswers, InExchange, Accepted, InSession
    <2>4. Opened' <=> Opened
      BY <1>4 DEF vars, Opened, Read, Flow
    <2>5. ASSUME NEW k \in 0 .. Batch, Conversation(k)
          PROVE  Conversation(k)'
      BY Zenon, <1>4, <2>1, <2>5 DEF vars, Conversation, Progress, Read, Unread, Awaited, Served,
                              Replies
    <2>6. Talk'
      BY Zenon, <1>4, <2>4, <2>5 DEF vars, Inv, Talk, Quiet, Flow, InExchange
    <2> QED BY <2>2, <2>3, <2>6 DEF Inv
  <1> QED BY <1>1, <1>2, <1>3, <1>4, BreakInv DEF Next

LEMMA Invariant ==
    ASSUME Old = {}, LargeAt \subseteq {1}
    PROVE  Spec => []Inv
  <1>1. Init => Inv
    BY InitInv
  <1>2. Inv /\ [Next]_vars => Inv'
    BY StepInv
  <1> QED BY <1>1, <1>2, PTL DEF Spec

\* Every variable of the session has its type, a call dials only while it has
\* an endpoint left to dial, and no more than a pipeline's requests are ever
\* on the wire: for servers that know the tagged-request opcode and batches of
\* which no statement after the first exceeds a frame, whatever the number of
\* endpoints, statements, handles and ids and the window of a connection.
THEOREM SessionTyped ==
    ASSUME Old = {}, LargeAt \subseteq {1}
    PROVE  Spec => []TypeOK
  <1>1. Inv => TypeOK
    <2> SUFFICES ASSUME Inv
                 PROVE  TypeOK
      OBVIOUS
    <2>1. Types /\ CallOK /\ PhaseOK /\ Talk /\ stream \in StreamSet
      BY DEF Inv, Types
    <2>2. stream.answers \in Seq(Answers)
      BY <2>1 DEF StreamSet
    <2>3. Len(stream.sent) <= Batch
      <3> DEFINE m == Len(stream.sent)
      <3>1. m \in Nat /\ Batch \in Nat
        BY <2>1, SessionAssumption DEF StreamSet
      <3>2. stream.sent = <<>> \/ (InExchange /\ stream.state = "up" /\ ~Opened)
        <4>1. stream.state # "up" => stream.sent = <<>>
          BY <2>1 DEF Types
        <4>2. phase \in {"none", "rest", "dial"} /\ stream.state = "up" => stream.sent = <<>>
          BY <2>1 DEF Talk, Quiet
        <4>3. phase \in {"rows", "drain"} /\ stream.state = "up" => stream.sent = <<>>
          BY <2>1 DEF Talk, Flow
        <4>4. Opened /\ stream.state = "up" => stream.sent = <<>>
          BY DEF Opened, Flow
        <4>5. phase \in Phase
          BY <2>1 DEF Types
        <4> QED BY <4>1, <4>2, <4>3, <4>4, <4>5 DEF Phase, InExchange
      <3>3. stream.sent = <<>> => m = 0
        OBVIOUS
      <3>4. ASSUME InExchange, stream.state = "up", ~Opened
            PROVE  m <= Batch
        <4>1. PICK k \in 0 .. Batch : Conversation(k)
          BY <2>1, <3>4 DEF Talk
        <4> DEFINE len == Len(stream.answers)
        <4>2. (k + len) + m = written /\ len \in Nat /\ k \in Nat /\ written \in 0 .. Batch
          <5>1. (k + len) + m = written
            BY Zenon, <3>4, <4>1 DEF Conversation, Awaited, Served
          <5>2. written \in 0 .. Batch
            BY Zenon, <2>1 DEF Types
          <5>3. len \in Nat /\ k \in Nat
            BY <2>1, <3>1 DEF StreamSet
          <5> QED BY Zenon, <5>1, <5>2, <5>3
        <4> HIDE DEF len, m
        <4> QED BY <3>1, <4>2
      <3> HIDE DEF m
      <3>5. m <= Batch
        BY <3>1, <3>2, <3>3, <3>4
      <3> QED BY <3>5 DEF m
    <2> QED BY <2>1, <2>2, <2>3 DEF TypeOK, Types, StreamSet
  <1> QED BY <1>1, Invariant, PTL

\* Between two calls a stream that is up has nothing asked and unanswered and
\* nothing answered and unread, whatever failed, was refused by write_frame or
\* was dropped before: roundtrip on it meets its own answer.  Of servers that
\* know the tagged-request opcode, and of batches of which no statement after
\* the first exceeds a frame.  Neither can be left out: an older server, or a
\* refusal in the middle of a batch, leaves a pipeline's answers on the stream.
THEOREM AlwaysPositioned ==
    ASSUME Old = {}, LargeAt \subseteq {1}
    PROVE  Spec => []Positioned
  <1>1. Inv => Positioned
    BY DEF Inv, Talk, Quiet, Positioned
  <1> QED BY <1>1, Invariant, PTL

\* What execute, pipeline and query_stream return as their answers are the
\* answers to their own statements, in their order, after any interleaving of
\* calls, answers, refused writes, lost connections and failovers; again of
\* servers that know the tagged-request opcode and batches that are not refused
\* after their first statement.
THEOREM AnswersAreOwn ==
    ASSUME Old = {}, LargeAt \subseteq {1}
    PROVE  Spec => []OwnAnswers
  <1>1. Inv => OwnAnswers
    BY DEF Inv
  <1> QED BY <1>1, Invariant, PTL

\* The servers run a statement of a call at most twice, and a streamed one at
\* most once (execute, pipeline and execute_prepared fail over once;
\* query_stream only while it sends).
THEOREM AtMostOneRetry ==
    ASSUME Old = {}, LargeAt \subseteq {1}
    PROVE  Spec => []RetriedOnce
  <1>1. Inv => RetriedOnce
    <2> SUFFICES ASSUME Inv
                 PROVE  RetriedOnce
      OBVIOUS
    <2>1. DOMAIN runs = 1 .. Batch /\ \A i \in 1 .. Batch : runs[i] \in 0 .. 3
      BY DEF Inv, Types
    <2>2. \A i \in 1 .. Batch : runs[i] <= MayHaveRun
      BY DEF Inv, RunsOK
    <2>3. MayHaveRun \in {1, 2} /\ (call.op = "stream" => MayHaveRun = 1)
      BY DEF MayHaveRun
    <2> QED BY <2>1, <2>2, <2>3 DEF RetriedOnce
  <1> QED BY <1>1, Invariant, PTL

\* A call retried after a failover runs in the bound database, under the
\* remembered scan budget, and, for a prepared statement, under an id that the
\* new connection knows for the handle's own statement (reconnect,
\* execute_prepared_with).
THEOREM RetriesAreFaithful ==
    ASSUME Old = {}, LargeAt \subseteq {1}
    PROVE  Spec => []RetriedFaithfully
  <1>1. Inv => RetriedFaithfully
    <2> SUFFICES ASSUME Inv
                 PROVE  RetriedFaithfully
      OBVIOUS
    <2>1. RetriedInSession
      BY DEF Inv, SessionOK, InExchange, RetriedInSession
    <2>2. ASSUME stream.state = "up", stream.sent # <<>>, Head(stream.sent).op = "run",
                 ~call.left
          PROVE  stream.ids[Head(stream.sent).arg] = handles[call.handle].sql
      <3>1. Types /\ CallOK /\ PhaseOK /\ SessionOK
        BY DEF Inv
      <3>2. PICK k \in 0 .. Batch : /\ InExchange
                                    /\ Served(k) \in Nat /\ Served(k) + 1 \in 1 .. written
                                    /\ Head(stream.sent) = Requests[Served(k) + 1]
        BY <2>2, Asked
      <3>3. Served(k) + 1 \in 1 .. Width
        <4>1. Width \in 1 .. Batch /\ written \in Nat /\ written <= Width
          BY SMTT(30), <3>1, <3>2, WidthBounds, SessionAssumption DEF PhaseOK, InExchange, Types
        <4> QED BY <3>2, <4>1
      <3>4. exchange = "main" /\ call.op = "run" /\ Head(stream.sent).arg = handles[call.handle].id
        BY <2>2, <3>1, <3>2, <3>3, RequestKinds
      <3> QED BY <2>2, <3>1, <3>2, <3>4 DEF SessionOK
    <2> QED BY <2>1, <2>2 DEF RetriedFaithfully, RetriedHandleRuns
  <1> QED BY <1>1, Invariant, PTL
=============================================================================
