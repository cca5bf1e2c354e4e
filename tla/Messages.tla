------------------------------ MODULE Messages ------------------------------
(***************************************************************************)
(* The messages of the binary protocol: requests and responses             *)
(* (skaidb-proto/src/message.rs) and the frames of the authentication      *)
(* exchange (handshake.rs).                                                *)
(*                                                                         *)
(* A message is its kind and the sequence of its fields.  The match arms   *)
(* of the encoders and decoders are the two tables of each enum: the byte  *)
(* that opens a kind and the types of its fields.  u32, u64 and u16 are    *)
(* one byte; a u16 count wraps at CountLimit.  Proofs and signatures of    *)
(* 32 bytes are two.                                                       *)
(***************************************************************************)
EXTENDS Codec

CountLimit == 3                 \* 2^16 in the code

Consistency == <<"One", "Quorum", "All">>
AuthMechanism == <<"ScramSha256", "Gssapi", "External">>

Untagged == -1                  \* Option::None of a request id
Malformed == <<"Err", <<>>>>     \* ProtoError::Malformed

-----------------------------------------------------------------------------
(* Layouts *)

OP_TAGGED == 6
RESP_TAGGED == 8

RequestByte ==
    [Query |-> 1, Prepare |-> 2, Execute |-> 3, Close |-> 4, QueryStream |-> 5,
     ExecuteBatch |-> 7, Hello |-> 8, QueryStreamParams |-> 9]

RequestLayout ==
    [Query |-> <<"consistency", "string">>,
     Prepare |-> <<"string">>,
     Execute |-> <<"consistency", "number", "params">>,
     Close |-> <<"number">>,
     QueryStream |-> <<"consistency", "string">>,
     ExecuteBatch |-> <<"consistency", "number", "batch">>,
     Hello |-> <<"string", "string">>,
     QueryStreamParams |-> <<"consistency", "string", "params">>]

ResponseByte ==
    [Rows |-> 0, Mutation |-> 1, Ddl |-> 2, Error |-> 3, Prepared |-> 4,
     RowsHeader |-> 5, RowsChunk |-> 6, RowsEnd |-> 7, ResultSets |-> 8]

ResponseLayout ==
    [Rows |-> <<"columns", "rows">>,
     Mutation |-> <<"number">>,
     Ddl |-> <<>>,
     Error |-> <<"string">>,
     Prepared |-> <<"number", "number">>,
     RowsHeader |-> <<"columns">>,
     RowsChunk |-> <<"rows">>,
     RowsEnd |-> <<>>,
     ResultSets |-> <<"sets">>]

\* T_OUTCOME is followed by 1 or 0: two kinds that share their first byte.
HandshakeByte ==
    [AuthStart |-> 10, AuthChallenge |-> 11, AuthFinish |-> 12, AuthOutcome |-> 13, AuthToken |-> 14]

HandshakeLayout ==
    [AuthStart |-> <<"string", "string", "mechanism">>,
     AuthChallenge |-> <<"bytes", "number", "string">>,
     AuthFinish |-> <<"digest">>,
     AuthOutcome |-> <<"outcome">>,
     AuthToken |-> <<"bytes">>]

-----------------------------------------------------------------------------
(* Encoding *)

\* A value behind a backfilled length.
Cell(v) == LET s == encode_value(v) IN <<Len(s)>> \o s

Each(s, F(_)) == FlattenSeq([i \in 1..Len(s) |-> F(s[i])])

IndexOf(names, x) == SelectInSeq(names, LAMBDA n : n = x) - 1

encode_params(params) == <<Len(params) % CountLimit>> \o Each(params, Cell)

encode_columns(columns) == <<Len(columns)>> \o Each(columns, write_bytes)

encode_row_into(row) == <<Len(row)>> \o Each(row, Cell)

encode_rows(rows) == <<Len(rows)>> \o Each(rows, encode_row_into)

EncodeField(type, x) ==
    CASE type = "number" -> <<x>>
      [] type = "consistency" -> <<IndexOf(Consistency, x)>>
      [] type = "mechanism" -> <<IndexOf(AuthMechanism, x)>>
      [] type \in {"string", "bytes"} -> write_bytes(x)
      [] type = "digest" -> x
      [] type = "outcome" -> IF x[1] = "Ok" THEN <<1>> \o x[2] ELSE <<0>> \o write_bytes(x[2])
      [] type = "params" -> encode_params(x)
      [] type = "batch" -> <<Len(x)>> \o Each(x, encode_params)
      [] type = "columns" -> encode_columns(x)
      [] type = "rows" -> encode_rows(x)
      [] type = "sets" -> <<Len(x)>> \o Each(x, LAMBDA s : encode_columns(s[1]) \o encode_rows(s[2]))

EncodeAs(byte, layout, kind, fields) ==
    <<byte[kind]>>
    \o FlattenSeq([i \in 1..Len(layout[kind]) |-> EncodeField(layout[kind][i], fields[i])])

\* ClientRequest::encode_into.  A stream without parameters keeps the opcode
\* that servers before them know.
EncodeRequest(req) ==
    IF req[1] = "QueryStream" /\ req[2][3] # <<>>
    THEN EncodeAs(RequestByte, RequestLayout, "QueryStreamParams", req[2])
    ELSE EncodeAs(RequestByte, RequestLayout, req[1], req[2])

\* Request::encode, the original query
EncodeOriginal(sql, consistency) ==
    <<RequestByte.Query, IndexOf(Consistency, consistency)>> \o write_bytes(sql)

encode_tagged_request(id, req) == <<OP_TAGGED, id>> \o EncodeRequest(req)

EncodeResponse(resp) == EncodeAs(ResponseByte, ResponseLayout, resp[1], resp[2])

tag_response(id) == <<RESP_TAGGED, id>>

EncodeHandshake(msg) == EncodeAs(HandshakeByte, HandshakeLayout, msg[1], msg[2])

\* RowsChunkEncoder: a chunk begun after what is in the buffer, a row appended
\* to it, and its count backfilled.
ChunkBegin(out) == [out |-> out \o <<ResponseByte.RowsChunk, 0>>, count_pos |-> Len(out) + 2, count |-> 0]

push_row(e, row) == [e EXCEPT !.out = @ \o encode_row_into(row), !.count = @ + 1]

ChunkFinish(e) == [e.out EXCEPT ![e.count_pos] = e.count]

-----------------------------------------------------------------------------
(* Decoding *)

DecodeCell(b, pos) == Try(bytes(b, pos), LAMBDA at, s : Try(decode(s), LAMBDA end, v : <<at, v>>))

\* A failed loop fails the message.
OrFail(r) == IF IsErr(r) THEN Err ELSE r

\* A count, and that many items.
Counted(b, pos, Item(_, _)) ==
    Try(u32(b, pos), LAMBDA from, n :
        OrFail(Times(b, n, from, <<>>, LAMBDA at, items : Read(Item(b, at), LAMBDA x : Append(items, x)))))

decode_params(b, pos) == Counted(b, pos, DecodeCell)

decode_columns(b, pos) == Counted(b, pos, string)

decode_row(b, pos) == Counted(b, pos, DecodeCell)

decode_rows(b, pos) == Counted(b, pos, decode_row)

decode_set(b, pos) ==
    Try(decode_columns(b, pos), LAMBDA at, columns :
        Read(decode_rows(b, at), LAMBDA rows : <<columns, rows>>))

\* from_u8, from_byte
Named(names, r) == Try(r, LAMBDA at, i : IF i >= Len(names) THEN Err ELSE <<at, names[i + 1]>>)

decode_outcome(b, pos) ==
    Try(u8(b, pos), LAMBDA at, t :
        CASE t = 1 -> Read(take(b, at, 2), LAMBDA s : <<"Ok", s>>)
          [] t = 0 -> Read(string(b, at), LAMBDA s : <<"Denied", s>>)
          [] OTHER -> Err)

\* An absent selector, from an older client, is SCRAM.
decode_mechanism(b, pos) ==
    IF remaining(b, pos) > 0 THEN Named(AuthMechanism, u8(b, pos)) ELSE <<pos, "ScramSha256">>

DecodeField(type, b, pos) ==
    CASE type = "number" -> u32(b, pos)
      [] type = "consistency" -> Named(Consistency, u8(b, pos))
      [] type = "mechanism" -> decode_mechanism(b, pos)
      [] type = "string" -> string(b, pos)
      [] type = "bytes" -> bytes(b, pos)
      [] type = "digest" -> take(b, pos, 2)
      [] type = "outcome" -> decode_outcome(b, pos)
      [] type = "params" -> decode_params(b, pos)
      [] type = "batch" -> Counted(b, pos, decode_params)
      [] type = "columns" -> decode_columns(b, pos)
      [] type = "rows" -> decode_rows(b, pos)
      [] type = "sets" -> Counted(b, pos, decode_set)

\* The fields of a kind, one after the other.  Bytes after them are let go.
DecodeAs(layout, kind, b) ==
    LET r == FoldLeft(LAMBDA acc, type :
                         IF IsErr(acc) THEN acc
                         ELSE OrKeep(Read(DecodeField(type, b, acc[1]), LAMBDA x : Append(acc[2], x)), <<>>),
                      <<2, <<>>>>, layout[kind])
    IN  IF IsErr(r) THEN Malformed ELSE <<kind, r[2]>>

\* The kind by its first byte: <<kind, fields>>, or Malformed.
DecodeBy(byte, layout, b) ==
    LET kinds == {k \in DOMAIN byte : b # <<>> /\ b[1] = byte[k]}
    IN  IF kinds = {} THEN Malformed ELSE DecodeAs(layout, CHOOSE k \in kinds : TRUE, b)

\* Both stream opcodes are one request.
OneStream(m) ==
    CASE m[1] = "QueryStreamParams" -> <<"QueryStream", m[2]>>
      [] m[1] = "QueryStream" -> <<"QueryStream", Append(m[2], <<>>)>>
      [] OTHER -> m

\* ClientRequest::decode
DecodeRequest(b) == OneStream(DecodeBy(RequestByte, RequestLayout, b))

\* Request::decode, on a server that knows only the original query
DecodeOriginal(b) == IF b # <<>> /\ b[1] = RequestByte.Query THEN DecodeRequest(b) ELSE Malformed

\* Mutant of decode_client_request: the wrapper may be nested.
DecodeNested(b) ==
    LET wrapped == b # <<>> /\ b[1] = OP_TAGGED
        twice == wrapped /\ Len(b) >= 3 /\ b[3] = OP_TAGGED
    IN  IF wrapped /\ Len(b) < 3 THEN <<Untagged, Malformed>>
        ELSE <<IF wrapped THEN b[2] ELSE Untagged,
               DecodeRequest(SubSeq(b, CASE twice -> 5 [] wrapped /\ ~twice -> 3 [] OTHER -> 1, Len(b)))>>

\* The id, Untagged for a plain request, and the request.
decode_client_request(b) ==
    LET wrapped == b # <<>> /\ b[1] = OP_TAGGED
    IN  IF wrapped /\ (Len(b) < 3 \/ b[3] = OP_TAGGED) THEN <<Untagged, Malformed>>
        ELSE <<IF wrapped THEN b[2] ELSE Untagged, DecodeRequest(IF wrapped THEN SubSeq(b, 3, Len(b)) ELSE b)>>

DecodeResponse(b) == DecodeBy(ResponseByte, ResponseLayout, b)

decode_tagged_response(b) ==
    LET tagged == b # <<>> /\ b[1] = RESP_TAGGED
    IN  IF tagged /\ Len(b) < 3 THEN <<Untagged, Malformed>>
        ELSE <<IF tagged THEN b[2] ELSE Untagged, DecodeResponse(IF tagged THEN SubSeq(b, 3, Len(b)) ELSE b)>>

\* AuthStart::decode and the others: the reader expects one tag.
DecodeHandshake(kind, b) ==
    IF b = <<>> \/ b[1] # HandshakeByte[kind] THEN Malformed ELSE DecodeAs(HandshakeLayout, kind, b)

result_sets(resp) ==
    CASE resp[1] = "Rows" -> <<<<resp[2][1], resp[2][2]>>>>
      [] resp[1] = "ResultSets" -> resp[2][1]
      [] OTHER -> <<>>
=============================================================================
