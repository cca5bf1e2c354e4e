--------------------------- MODULE ClientSession ---------------------------
(***************************************************************************)
(* One Client outside a balanced pool (src/lib.rs, struct Client): the     *)
(* calls of its user, the stream they share, and what a failover must put  *)
(* back.  The client is sequential; it interleaves with the server, which  *)
(* answers in its own time and may go away between any two frames.         *)
(*                                                                         *)
(* Every call is made of exchanges: requests written to the stream, then   *)
(* frames read back.  "main" is the call's own exchange, "prepare" the     *)
(* re-prepare of a handle, and "hello", "database" and "budget" are what   *)
(* reconnect sends on a fresh stream.                                      *)
(*                                                                         *)
(* The server is external: it is what the client's code expects of one.    *)
(* A statement of the user does not itself change the session (no USE or   *)
(* SET inside execute).                                                    *)
(***************************************************************************)
EXTENDS Naturals, Sequences, FiniteSets

CONSTANTS
    Endpoint,       \* the servers' addresses
    Old,            \* the servers that predate the tagged-request opcode
    Statement,      \* SQL texts
    Database,       \* database names
    Rows,           \* scan budgets, 0 is none
    Handle,         \* the Prepared handles the user keeps
    Ids,            \* statement ids a server hands out on a connection
    Batch,          \* bound: the most statements of one pipeline
    LargeAt,        \* the places of a call's requests where one may exceed a frame
    Window,         \* the frames a connection holds in each direction
    Chunks,         \* bound: the most chunks of one streamed result
    None            \* no endpoint, statement, database, handle or id

ASSUME SessionAssumption ==
    /\ Endpoint # {} /\ IsFiniteSet(Endpoint) /\ Old \subseteq Endpoint
    /\ 0 \in Rows /\ Rows \subseteq Nat
    /\ Batch \in Nat \ {0} /\ Chunks \in Nat /\ Window \in Nat \ {0}
    /\ LargeAt \subseteq 1 .. Batch
    /\ None \notin Endpoint \cup Statement \cup Database \cup Handle \cup Ids

VARIABLES
    stream,     \* Client.stream with the server's end of it
    endpoints,  \* Client.endpoints; probing re-orders them at every use
    database,   \* Client.database
    budget,     \* Client.scan_budget_rows
    handles,    \* the user's Prepared values
    call,       \* the call in progress, or the last one
    phase,      \* what the client is doing, see Phase
    exchange,   \* the exchange in progress
    written,    \* requests of the exchange already written
    todo,       \* endpoints open / reconnect has yet to dial
    got,        \* the statements whose answers the call returns, by slot
    result,     \* how the last call ended
    runs        \* how often the servers ran each statement of the call

vars == <<stream, endpoints, database, budget, handles, call, phase, exchange,
          written, todo, got, result, runs>>

\* "none"   there is no client yet
\* "rest"   between two calls
\* "dial"   open / reconnect is working through todo
\* "write", "read"   inside an exchange
\* "rows"   the user holds a RowStream that is not done
\* "drain"  the RowStream is being dropped
Phase == {"none", "rest", "dial", "write", "read", "rows", "drain"}

\* A stream is "up", "closed" by the server (what has arrived can still be
\* read, a write may vanish) or "dead" (every write fails).
Fresh(ep) ==
    [at |-> ep, state |-> "up", db |-> None, budget |-> 0,
     ids |-> [i \in Ids |-> None], sent |-> <<>>, answers |-> <<>>, rows |-> 0]

\* A request, and an answer; tag 0 is an untagged frame, and `about` is the
\* statement an answer is about, or the id a Prepared answer carries.
Request(op, arg, tag) == [op |-> op, arg |-> arg, tag |-> tag]
Answer(kind, about, tag) == [kind |-> kind, about |-> about, tag |-> tag]

NoCall == [op |-> "connect", sqls |-> <<>>, handle |-> None, arg |-> None,
           large |-> {}, left |-> FALSE, again |-> FALSE]

Init ==
    /\ stream = [Fresh(None) EXCEPT !.state = "dead"]
    /\ endpoints = {}
    /\ database = None /\ budget = 0
    /\ handles = [h \in Handle |-> [id |-> None, sql |-> None]]
    /\ call = NoCall /\ phase = "none" /\ exchange = "main"
    /\ written = 0 /\ todo = {}
    /\ got = <<>> /\ result = "ok" /\ runs = [i \in 1 .. Batch |-> 0]

----------------------------------------------------------------------------
(* How a call goes on.                                                     *)

\* The requests of the exchange in progress.
Requests ==
    CASE exchange = "hello"    -> <<Request("hello", None, 0)>>
      [] exchange = "database" -> <<Request("use", database, 0)>>
      [] exchange = "budget"   -> <<Request("budget", budget, 0)>>
      [] exchange = "prepare"  -> <<Request("prepare", handles[call.handle].sql, 0)>>
      [] exchange = "main" ->
           CASE call.op = "pipeline" ->
                  [i \in DOMAIN call.sqls |-> Request("execute", call.sqls[i], i)]
             [] call.op \in {"execute", "stream", "prepare"} ->
                  <<Request(call.op, call.sqls[1], 0)>>
             [] call.op = "run"    -> <<Request("run", handles[call.handle].id, 0)>>
             [] call.op = "use"    -> <<Request("use", database, 0)>>
             [] call.op = "budget" -> <<Request("budget", call.arg, 0)>>

\* The call returns.
Return(r) ==
    /\ result' = r
    /\ phase' = "rest" /\ exchange' = "main" /\ written' = 0
    /\ UNCHANGED todo

Begin(e) ==
    /\ exchange' = e
    /\ phase' = "write"
    /\ written' = 0
    /\ UNCHANGED <<todo, result>>

\* Mutant of Resumed: a handle is executed again under its old id.
ResumedStale == IF call.op \in {"connect", "reconnect"} THEN "done" ELSE "main"

\* What follows reconnect()?: the retry, which for a prepared statement starts
\* with the re-prepare.
Resumed ==
    CASE call.op \in {"connect", "reconnect"} -> "done"
      [] call.op = "run" -> "prepare"
      [] OTHER -> "main"

\* Mutant of Replayed: the budget is only put back without a database.
ReplayedOne ==
    IF exchange = "hello" /\ database # None THEN "database"
    ELSE IF exchange = "hello" /\ budget # 0 THEN "budget"
    ELSE Resumed

\* reconnect, after the dial: Hello, then USE if a database is bound, then the
\* scan budget if there is one.
Replayed ==
    IF exchange = "hello" /\ database # None THEN "database"
    ELSE IF exchange \in {"hello", "database"} /\ budget # 0 THEN "budget"
    ELSE Resumed

Proceed ==
    IF Replayed = "done" THEN Return("ok") ELSE Begin(Replayed)

\* reconnect: every endpoint is a candidate, the one just lost last.
Redial ==
    /\ phase' = "dial"
    /\ todo' = endpoints
    /\ UNCHANGED <<exchange, written, result>>

\* Mutant of MayFailOver: a stream is retried whatever step of it failed.
MayFailOverReading ==
    call.left /\ call.op \in {"execute", "pipeline", "prepare", "run", "stream"}

\* Which failures of the call's own exchange are retried: those of execute,
\* pipeline, prepare and execute_prepared / execute_batch, once; of a stream
\* only the sending; of USE and SET SCAN BUDGET none.
MayFailOver ==
    /\ call.left
    /\ \/ call.op \in {"execute", "pipeline", "prepare", "run"}
       \/ call.op = "stream" /\ phase = "write"

\* Mutant of FailOver: the retry is not counted.
FailOverAgain ==
    /\ Redial
    /\ got' = [i \in DOMAIN got |-> None]
    /\ UNCHANGED <<call, database>>

\* One failover for the call, one more for the re-prepare inside it; the retry
\* collects its answers anew.
FailOver ==
    /\ Redial
    /\ call' = IF exchange = "main" THEN [call EXCEPT !.left = FALSE]
                                    ELSE [call EXCEPT !.again = FALSE]
    /\ got' = [i \in DOMAIN got |-> None]
    /\ UNCHANGED database

\* A transport error in the exchange in progress.  Hello's is ignored, that
\* of the replayed session ends the call, and use_database restores the
\* previous binding.
Lost ==
    \/ /\ exchange = "hello"
       /\ Proceed
       /\ UNCHANGED <<call, database, got>>
    \/ /\ \/ exchange = "main" /\ MayFailOver
          \/ exchange = "prepare" /\ call.again
       /\ FailOver
    \/ /\ \/ exchange \in {"database", "budget"}
          \/ exchange = "main" /\ ~MayFailOver
          \/ exchange = "prepare" /\ ~call.again
       /\ Return("io")
       /\ database' = IF exchange = "main" /\ call.op = "use" THEN call.arg ELSE database
       /\ UNCHANGED <<call, got>>

----------------------------------------------------------------------------
(* The calls.  Each starts its own exchange on the stream as it is.        *)

\* `large` are the places of the requests that do not fit a frame.
Call(op, sqls, h, arg, large) ==
    /\ call' = [op |-> op, sqls |-> sqls, handle |-> h, arg |-> arg,
                large |-> large, left |-> TRUE, again |-> TRUE]
    /\ got' = [i \in DOMAIN sqls |-> None]
    /\ runs' = [i \in 1 .. Batch |-> 0]

Start(op, sqls, h, arg, large) ==
    /\ phase = "rest"
    /\ Call(op, sqls, h, arg, large)
    /\ Begin("main")
    /\ UNCHANGED <<stream, endpoints, budget>>

\* connect_mode: without endpoints there is nothing to dial, and no client.
Connect(eps) ==
    /\ phase = "none"
    /\ eps # {}
    /\ endpoints' = eps
    /\ Call("connect", <<>>, None, None, {})
    /\ phase' = "dial"
    /\ todo' = eps
    /\ UNCHANGED <<stream, database, budget, handles, exchange, written, result>>

AddEndpoints(eps) ==
    /\ phase = "rest"
    /\ endpoints' = endpoints \cup eps
    /\ UNCHANGED <<stream, database, budget, handles, call, phase, exchange,
                   written, todo, got, result, runs>>

Execute(s, large) ==
    /\ Start("execute", <<s>>, None, None, large)
    /\ UNCHANGED <<database, handles>>

\* An empty pipeline returns at once and changes nothing.
Pipeline(sqls, large) ==
    /\ Start("pipeline", sqls, None, None, large)
    /\ UNCHANGED <<database, handles>>

Prepare(h, s, large) ==
    /\ Start("prepare", <<s>>, h, None, large)
    /\ UNCHANGED <<database, handles>>

\* execute_prepared and execute_batch.
ExecutePrepared(h, large) ==
    /\ handles[h].id # None
    /\ Start("run", <<handles[h].sql>>, h, None, large)
    /\ UNCHANGED <<database, handles>>

\* use_database binds first and restores the previous binding on any error.
UseDatabase(d, large) ==
    /\ Start("use", <<>>, None, database, large)
    /\ database' = d
    /\ UNCHANGED handles

SetScanBudget(n) ==
    /\ Start("budget", <<>>, None, n, {})
    /\ UNCHANGED <<database, handles>>

QueryStream(s, large) ==
    /\ Start("stream", <<s>>, None, None, large)
    /\ UNCHANGED <<database, handles>>

\* The public reconnect: the stream may well be up.
Reconnect ==
    /\ phase = "rest"
    /\ Call("reconnect", <<>>, None, None, {})
    /\ Redial
    /\ UNCHANGED <<stream, endpoints, database, budget, handles>>

\* Mutant of Drop: the frames still coming are left on the stream.
DropUndrained ==
    /\ phase = "rows"
    /\ phase' = "rest"
    /\ UNCHANGED <<stream, endpoints, database, budget, handles, call, exchange,
                   written, todo, got, result, runs>>

\* Drop for RowStream, before the stream is done.
Drop ==
    /\ phase = "rows"
    /\ phase' = "drain"
    /\ UNCHANGED <<stream, endpoints, database, budget, handles, call, exchange,
                   written, todo, got, result, runs>>

----------------------------------------------------------------------------
(* The steps inside a call.                                                *)

\* An endpoint to dial next: the one just lost only when no other is left.
Candidate(ep) == phase = "dial" /\ ep \in todo /\ (ep = stream.at => todo = {ep})

DialAnswers(ep) ==
    /\ Candidate(ep)
    /\ stream' = Fresh(ep)
    /\ exchange' = "hello" /\ phase' = "write" /\ written' = 0
    /\ todo' = {}
    /\ UNCHANGED <<endpoints, database, budget, handles, call, got, result, runs>>

\* Mutant of DialFails: nobody notices that the endpoints have run out.
DialFailsOn(ep) ==
    /\ Candidate(ep)
    /\ todo' = todo \ {ep}
    /\ UNCHANGED <<stream, endpoints, database, budget, handles, call, phase,
                   exchange, written, got, result, runs>>

\* The last candidate's failure is the call's: the old stream stays in place,
\* and a failed connect leaves no client.
DialFails(ep) ==
    /\ Candidate(ep)
    /\ todo' = todo \ {ep}
    /\ IF todo # {ep}
         THEN UNCHANGED <<phase, result>>
         ELSE /\ phase' = IF call.op = "connect" THEN "none" ELSE "rest"
              /\ result' = "error"
    /\ UNCHANGED <<stream, endpoints, database, budget, handles, call, exchange,
                   written, got, runs>>

\* write_frame refuses a payload over MAX_FRAME_LEN before it writes a byte.
\* The statement of a handle and the bound database fitted a frame before.
TooLarge == exchange = "main" /\ written + 1 \in call.large

\* write_frame: every request of the exchange goes out before anything is
\* read, and a write waits while the connection holds a window of them.  On a
\* stream the server has closed it may vanish without an error.
WriteFrame ==
    /\ phase = "write" /\ stream.state # "dead" /\ ~TooLarge
    /\ stream.state = "up" => Len(stream.sent) < Window
    /\ stream' = IF stream.state = "up"
                   THEN [stream EXCEPT !.sent = Append(@, Requests[written + 1])]
                   ELSE stream
    /\ written' = written + 1
    /\ phase' = IF written + 1 = Len(Requests) THEN "read" ELSE "write"
    /\ UNCHANGED <<endpoints, database, budget, handles, call, exchange, todo, got,
                   result, runs>>

\* The write fails on the stream.
WriteFails ==
    /\ phase = "write" /\ stream.state # "up" /\ ~TooLarge
    /\ stream' = [stream EXCEPT !.state = "dead"]
    /\ Lost
    /\ UNCHANGED <<endpoints, budget, handles, runs>>

\* The refusal is an Io error like any other to the caller, and the stream is
\* left as it is: up, with what the exchange has already written.
WriteRefused ==
    /\ phase = "write" /\ TooLarge
    /\ Lost
    /\ UNCHANGED <<stream, endpoints, budget, handles, runs>>

\* read_frame finds the stream at its end.
AtEnd == stream.state # "up" /\ stream.answers = <<>>

ReadFails ==
    /\ phase = "read" /\ AtEnd
    /\ Lost
    /\ UNCHANGED <<stream, endpoints, budget, handles, runs>>

\* The frame read_frame returns.
Frame == Head(stream.answers)
Consumed == stream' = [stream EXCEPT !.answers = Tail(@)]

\* Response::decode.  A tagged answer begins with the byte of one that carries
\* several result sets, and its id is read as their number: none for the first
\* id; with another the frame may or may not decode.
Decoded ==
    CASE Frame.tag = 0 -> {Frame.kind}
      [] Frame.tag = 1 -> {"done"}
      [] OTHER -> {"done", "error"}

\* reconnect: Hello's answer is ignored, a refusal of USE or of the budget is
\* the call's error (and leaves the stream in place).
ReadReplay ==
    /\ phase = "read" /\ exchange \in {"hello", "database", "budget"}
    /\ stream.answers # <<>> /\ Consumed
    /\ IF exchange # "hello" /\ Frame.kind = "error" THEN Return("error") ELSE Proceed
    /\ UNCHANGED <<endpoints, database, budget, handles, call, got, runs>>

\* prepare, of the user or inside a retried execute_prepared: anything but a
\* Prepared answer is an error.
ReadPrepared ==
    /\ phase = "read"
    /\ exchange = "prepare" \/ (exchange = "main" /\ call.op = "prepare")
    /\ stream.answers # <<>> /\ Consumed
    /\ \/ /\ Frame.kind # "id"
          /\ Return("error")
          /\ UNCHANGED handles
       \/ /\ Frame.kind = "id"
          /\ handles' = [handles EXCEPT ![call.handle] =
                            [id |-> Frame.about, sql |-> call.sqls[1]]]
          /\ IF exchange = "prepare" THEN Begin("main") ELSE Return("ok")
    /\ UNCHANGED <<endpoints, database, budget, call, got, runs>>

\* execute, execute_prepared, use_database, set_scan_budget_rows: one frame,
\* and anything but Error is the answer.
ReadAnswer ==
    /\ phase = "read" /\ exchange = "main"
    /\ call.op \in {"execute", "run", "use", "budget"}
    /\ stream.answers # <<>> /\ Consumed
    /\ \E kind \in Decoded : LET ok == kind # "error" IN
         /\ Return(IF ok THEN "ok" ELSE "error")
         /\ got' = IF ok /\ call.sqls # <<>> THEN <<Frame.about>> ELSE got
         /\ database' = IF call.op = "use" /\ ~ok THEN call.arg ELSE database
         /\ budget' = IF call.op = "budget" /\ ok THEN call.arg ELSE budget
    /\ UNCHANGED <<endpoints, handles, call, runs>>

\* Mutant of ReadSlot: ids are taken to count from one, not zero.
ReadSlotShifted ==
    /\ phase = "read" /\ exchange = "main" /\ call.op = "pipeline"
    /\ stream.answers # <<>> /\ Consumed
    /\ LET slot == IF Frame.tag = 0 THEN 0 ELSE (Frame.tag % Len(got)) + 1 IN
         \/ /\ slot = 0
            /\ Return("error")
            /\ UNCHANGED got
         \/ /\ slot # 0
            /\ got' = [got EXCEPT ![slot] = Frame.about]
            /\ IF \E i \in DOMAIN got' : got'[i] = None
                 THEN UNCHANGED <<phase, result, exchange, written, todo>>
                 ELSE Return("ok")
    /\ UNCHANGED <<endpoints, database, budget, handles, call, runs>>

\* try_pipeline, one frame: the answer goes to the slot of its id, errors of
\* single statements included.  An untagged answer, or one to a slot already
\* filled, ends the batch where it stands; so would a frame that does not
\* decode, which the server does not send.
ReadSlot ==
    /\ phase = "read" /\ exchange = "main" /\ call.op = "pipeline"
    /\ stream.answers # <<>> /\ Consumed
    /\ \/ /\ Frame.tag \notin {i \in DOMAIN got : got[i] = None}
          /\ Return("error")
          /\ UNCHANGED got
       \/ /\ Frame.tag \in {i \in DOMAIN got : got[i] = None}
          /\ got' = [got EXCEPT ![Frame.tag] = Frame.about]
          /\ IF \E i \in DOMAIN got' : got'[i] = None
               THEN UNCHANGED <<phase, result, exchange, written, todo>>
               ELSE Return("ok")
    /\ UNCHANGED <<endpoints, database, budget, handles, call, runs>>

\* query_stream: a header opens a RowStream, a mutation, DDL or the sets of a
\* CALL come in one frame and leave nothing to read.
ReadHeader ==
    /\ phase = "read" /\ exchange = "main" /\ call.op = "stream"
    /\ stream.answers # <<>> /\ Consumed
    /\ \/ /\ "header" \in Decoded
          /\ phase' = "rows" /\ result' = "ok"
          /\ got' = <<Frame.about>>
          /\ UNCHANGED <<exchange, written, todo>>
       \/ /\ "done" \in Decoded
          /\ Return("ok")
          /\ got' = <<Frame.about>>
       \/ /\ \E kind \in Decoded : kind \notin {"header", "done"}
          /\ Return("error")
          /\ UNCHANGED got
    /\ UNCHANGED <<endpoints, database, budget, handles, call, runs>>

\* RowStream::next_frame, for the user's next() or for Drop: chunks go on, the
\* end, an error or any other frame finishes the stream, with nothing drained
\* after it.
NextFrame ==
    /\ phase \in {"rows", "drain"}
    /\ \/ /\ stream.answers # <<>> /\ Consumed
          /\ CASE Frame.kind = "chunk" ->
                    UNCHANGED <<phase, result, exchange, written, todo>>
               [] Frame.kind = "end" -> Return("ok")
               [] OTHER -> Return("error")
       \/ /\ AtEnd
          /\ Return("io")
          /\ UNCHANGED stream
    /\ UNCHANGED <<endpoints, database, budget, handles, call, got, runs>>

----------------------------------------------------------------------------
(* The server's end of the stream (external).                              *)

\* The answer a to the request at the head, the rest of the session as given.
Answered(a, db, n, ids, rows) ==
    stream' = [stream EXCEPT !.sent = Tail(@), !.answers = Append(@, a),
                             !.db = db, !.budget = n, !.ids = ids, !.rows = rows]

\* A statement runs: its answer, or its error; a stream of rows opens with a
\* header and `rows` frames follow.
RunStatement(sql, r) ==
    /\ runs' = [runs EXCEPT ![IF r.tag = 0 THEN 1 ELSE r.tag] =
                    IF @ = 3 THEN 3 ELSE @ + 1]
    /\ \/ \E kind \in {"done", "error"} :
             Answered(Answer(kind, sql, r.tag), stream.db, stream.budget, stream.ids, 0)
       \/ /\ r.op = "stream"
          /\ \E n \in 1 .. Chunks + 1 :
                Answered(Answer("header", sql, 0), stream.db, stream.budget, stream.ids, n)

\* The server takes the next request once it has room for the answer.
Serve ==
    /\ stream.state = "up" /\ stream.sent # <<>> /\ stream.rows = 0
    /\ Len(stream.answers) < Window
    /\ LET r == Head(stream.sent)
           Plain(kind, db, n, ids) == Answered(Answer(kind, None, 0), db, n, ids, 0)
           Refused == Plain("error", stream.db, stream.budget, stream.ids)
       IN  \/ /\ r.op = "hello"
              /\ \E kind \in {"done", "error"} :
                    Plain(kind, stream.db, stream.budget, stream.ids)
              /\ UNCHANGED runs
           \/ /\ r.op = "use"
              /\ Refused \/ Plain("done", r.arg, stream.budget, stream.ids)
              /\ UNCHANGED runs
           \/ /\ r.op = "budget"
              /\ Refused \/ Plain("done", stream.db, r.arg, stream.ids)
              /\ UNCHANGED runs
           \/ /\ r.op = "prepare"
              /\ \/ Refused
                 \/ \E i \in {j \in Ids : stream.ids[j] = None} :
                       Answered(Answer("id", i, 0), stream.db, stream.budget,
                                [stream.ids EXCEPT ![i] = r.arg], 0)
              /\ UNCHANGED runs
           \/ /\ r.op = "run"
              /\ IF stream.ids[r.arg] = None
                   THEN Refused /\ UNCHANGED runs
                   ELSE RunStatement(stream.ids[r.arg], r)
           \/ /\ r.op \in {"execute", "stream"}
              /\ IF r.tag # 0 /\ stream.at \in Old
                   THEN Refused /\ UNCHANGED runs
                   ELSE RunStatement(r.arg, r)
    /\ UNCHANGED <<endpoints, database, budget, handles, call, phase, exchange,
                   written, todo, got, result>>

\* The next frame of a row stream: a chunk, the end, or an error in its place.
ServeRows ==
    /\ stream.state = "up" /\ stream.rows > 0 /\ Len(stream.answers) < Window
    /\ \E kind \in {IF stream.rows = 1 THEN "end" ELSE "chunk", "error"} :
          stream' = [stream EXCEPT !.answers = Append(@, Answer(kind, None, 0)),
                                   !.rows = IF kind = "chunk" THEN @ - 1 ELSE 0]
    /\ UNCHANGED <<endpoints, database, budget, handles, call, phase, exchange,
                   written, todo, got, result, runs>>

\* The server goes away; some of what it answered has arrived.
Break ==
    /\ stream.state = "up"
    /\ \E n \in 0 .. Len(stream.answers) :
          stream' = [stream EXCEPT !.state = "closed", !.sent = <<>>, !.rows = 0,
                                   !.answers = SubSeq(@, 1, n)]
    /\ UNCHANGED <<endpoints, database, budget, handles, call, phase, exchange,
                   written, todo, got, result, runs>>

----------------------------------------------------------------------------
\* Which of a call's n requests are too large.
Large(n) == SUBSET (LargeAt \cap 1 .. n)

UserStep ==
    \/ \E eps \in SUBSET Endpoint : Connect(eps) \/ AddEndpoints(eps)
    \/ \E s \in Statement, large \in Large(1) : Execute(s, large) \/ QueryStream(s, large)
    \/ \E n \in 1 .. Batch : \E sqls \in [1 .. n -> Statement], large \in Large(n) :
          Pipeline(sqls, large)
    \/ \E h \in Handle, s \in Statement, large \in Large(1) : Prepare(h, s, large)
    \/ \E h \in Handle, large \in Large(1) : ExecutePrepared(h, large)
    \/ \E d \in Database, large \in Large(1) : UseDatabase(d, large)
    \/ \E n \in Rows : SetScanBudget(n)
    \/ Reconnect
    \/ Drop

ClientStep ==
    \/ \E ep \in Endpoint : DialAnswers(ep) \/ DialFails(ep)
    \/ WriteFrame \/ WriteFails \/ WriteRefused
    \/ ReadFails \/ ReadReplay \/ ReadPrepared \/ ReadAnswer \/ ReadSlot \/ ReadHeader
    \/ NextFrame

ServerStep == Serve \/ ServeRows

Next == UserStep \/ ClientStep \/ ServerStep \/ Break

Spec == Init /\ [][Next]_vars

\* A thread inside a call keeps running, and a server that is up answers: the
\* client sets no read timeout, so a server that neither answers nor closes the
\* connection would hold the call for ever.
FairSpec == Spec /\ WF_vars(ClientStep) /\ WF_vars(ServerStep)

----------------------------------------------------------------------------
(* Properties.                                                             *)

Answers == [kind : {"done", "error", "id", "header", "chunk", "end"},
            about : Statement \cup Ids \cup {None}, tag : 0 .. Batch]

\* Every variable has its type; a call that has ended or not begun has dialing
\* to do no more, and a call that dials has an endpoint left to dial.
TypeOK ==
    /\ stream.at \in Endpoint \cup {None}
    /\ stream.state \in {"up", "closed", "dead"}
    /\ stream.db \in Database \cup {None}
    /\ stream.budget \in Rows
    /\ stream.ids \in [Ids -> Statement \cup {None}]
    /\ Len(stream.sent) <= Batch /\ stream.rows \in 0 .. Chunks + 1
    /\ stream.answers \in Seq(Answers)
    /\ endpoints \subseteq Endpoint
    /\ database \in Database \cup {None} /\ budget \in Rows
    /\ handles \in [Handle -> [id : Ids \cup {None}, sql : Statement \cup {None}]]
    /\ phase \in Phase
    /\ exchange \in {"main", "prepare", "hello", "database", "budget"}
    /\ written \in 0 .. Batch
    /\ todo \subseteq endpoints /\ (phase = "dial" <=> todo # {})
    /\ result \in {"ok", "error", "io"}
    /\ runs \in [1 .. Batch -> 0 .. 3]

\* Between two calls a stream that is up stands at a request boundary: nothing
\* asked and unanswered, nothing answered and unread (the comment in Drop for
\* RowStream).
Positioned ==
    phase = "rest" /\ stream.state = "up" =>
        stream.sent = <<>> /\ stream.answers = <<>> /\ stream.rows = 0

\* roundtrip is "one request/response round-trip": what execute, pipeline and
\* query_stream return as their answers are the answers to their own
\* statements, in their order, whatever was called or lost before.
OwnAnswers ==
    phase \in {"rest", "rows"} /\ result = "ok"
        /\ call.op \in {"execute", "pipeline", "stream"} => got = call.sqls

\* "Retried once": a server runs a statement of a call at most twice, and a
\* streamed one at most once, failover applying only to sending the request.
RetriedOnce ==
    \A i \in DOMAIN runs : runs[i] <= (IF call.op = "stream" THEN 1 ELSE 2)

InSession == stream.db = database /\ stream.budget = budget

\* reconnect puts the session back "before anything else runs on this socket":
\* a call retried after a failover runs in the bound database and under the
\* remembered scan budget.
RetriedInSession ==
    /\ call.op \in {"execute", "pipeline", "run", "stream"} /\ ~call.left
    /\ exchange \in {"main", "prepare"} /\ phase \in {"write", "read"}
    /\ stream.state = "up"
    => InSession

\* A prepared statement whose call failed over is executed under an id the new
\* connection knows, and knows for the handle's own statement.
RetriedHandleRuns ==
    stream.state = "up" /\ stream.sent # <<>> /\ Head(stream.sent).op = "run" /\ ~call.left =>
        stream.ids[Head(stream.sent).arg] = handles[call.handle].sql

\* A retry does what the call itself would have done, in its session and with
\* its statement (reconnect, execute_prepared_with).
RetriedFaithfully == RetriedInSession /\ RetriedHandleRuns

\* Every call returns: with a peer that answers or goes away, no call dials,
\* retries, drains or waits to write for ever.  Holds for batches of at most
\* 2 * Window statements, which is what a connection holds of a batch that is
\* written in full before its answers are read.
CallsReturn ==
    (phase \in {"dial", "write", "read", "drain"}) ~> (phase \in {"none", "rest", "rows"})

\* with_database: the session is never silently back in the default database;
\* every statement of the user meets the bound database and budget.
SessionKept ==
    stream.state = "up" /\ stream.sent # <<>>
        /\ Head(stream.sent).op \in {"execute", "stream", "run"} => InSession

\* README, Prepared statements: "callers never see a stale id"; what
\* execute_prepared returns as the answer is about the handle's own statement.
HandleRuns ==
    phase = "rest" /\ result = "ok" /\ call.op = "run" =>
        got = <<handles[call.handle].sql>>
=============================================================================
