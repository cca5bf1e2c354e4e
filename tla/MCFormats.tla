------------------------------ MODULE MCFormats ------------------------------
(***************************************************************************)
(* The encodings, on every input of a small set.  A behaviour picks one    *)
(* format, an input for it, and then a second one: two values whose keys   *)
(* are compared, a stored row and a projection of it, two rows scanned     *)
(* into the same buffers, a message and its frames.                        *)
(***************************************************************************)
EXTENDS Messages, JsonMapping, Framing

VARIABLES
    format,     \* which encoding the behaviour is about
    a,          \* the first input
    b,          \* the second one
    picked,     \* whether there is a second one yet
    out         \* what an operation left in its caller's buffers

vars == <<format, a, b, picked, out, frameVars>>

None == <<"none">>

-----------------------------------------------------------------------------
(* Inputs *)

N == <<"Null">>
I(n) == <<"Int", n>>
S(s) == <<"String", s>>
A(items) == <<"Array", items>>
D(fields) == <<"Document", fields>>

Scalars ==
    {N, <<"Bool", FALSE>>, <<"Bool", TRUE>>, S(<<>>), S(<<0>>), S(<<0, 1>>), S(<<97>>), S(<<97, 0>>),
     <<"Bytes", <<0>>>>, <<"Bytes", <<0, 255>>>>, <<"Bytes", <<255>>>>,
     <<"Uuid", <<0, 0>>>>, <<"Uuid", <<0, 1>>>>, <<"Uuid", <<255, 0>>>>}
    \union {I(n) : n \in {-128, -1, 0, 1, 127}}
    \union {<<"Timestamp", n>> : n \in {-128, -1, 0, 1}}
    \union {<<"Float", x>> : x \in {0, 1, 127, 128, 129, 255}}
    \union {Decimal(m, s) : m \in {-127, -10, -5, 0, 1, 5, 10, 12, 100}, s \in {0, 1, 2}}

Items == {N, I(-1), I(0), S(<<>>), S(<<0>>), Decimal(1, 0), Decimal(10, 1), A(<<>>), A(<<N>>), D(<<>>)}

Names == {<<>>, <<0>>, <<97>>, <<98>>}

Nests ==
    {A(s) : s \in BoundedSeq(Items, 2)}
    \union {D(<<>>)} \union {D(<<<<n, i>>>>) : n \in Names, i \in Items}
    \union {D(<<<<(<<97>>), i>>, <<(<<98>>), j>>>>) : i \in Items, j \in {N, I(0)}}
    \union {A(<<I(0), N, I(0)>>), A(<<I(0), S(<<0>>), I(0)>>), A(<<A(<<N>>), N>>), A(<<A(<<>>), N, N>>)}

Floats == {A(<<(<<"Float", x>>)>>) : x \in {0, SIGN}}

Values == Scalars \union Nests \union Floats

Small == [mantissa : {-127, -100, -64, -13, -12, -10, -1, 0, 1, 2, 12, 13, 63, 100, 127}, scale : 0..3]

Rows ==
    {<<>>, <<<<(<<97>>), I(1)>>>>, <<<<(<<97>>), N>>, <<(<<98>>), S(<<97>>)>>>>,
     <<<<(<<>>), I(0)>>, <<(<<0>>), N>>, <<(<<1, 116>>), I(2)>>>>,
     <<<<(<<1, 116>>), A(<<I(1), N>>)>>, <<(<<97>>), Decimal(-12, 1)>>>>,
     <<<<(<<97>>), A(<<S(<<97>>)>>)>>, <<(<<98>>), D(<<<<(<<97>>), <<"Bool", TRUE>>>>>>)>>>>,
     <<<<(<<97>>), <<"Uuid", <<0, 9>>>>>>, <<(<<98>>), <<"Bytes", <<255>>>>>>>>}

Stored == {encode_document(r) : r \in Rows}

\* A row whose text is not UTF-8: only what decodes or transcodes it fails.
Garbled == encode_document(<<<<(<<97>>), S(<<255>>)>>, <<(<<98>>), S(<<97>>)>>>>)

\* A stored row cut short, with a byte after it, or with one byte changed.
Damaged ==
    UNION {{SubSeq(s, 1, k) : k \in 0..(Len(s) - 1)}
           \union {Append(s, 0)}
           \union {[s EXCEPT ![i] = x] : i \in 1..Len(s), x \in {0, 1, 2, 3, 5, 9, 10, 97, 255}} : s \in Stored}

Projections == {{}, {<<97>>}, {<<98>>}, {NAMES}, {<<97>>, <<98>>}, {<<97>>, NAMES}}

Columns == {<<>>, <<(<<97>>)>>, <<(<<98>>), (<<97>>)>>, <<(<<97>>), (<<97>>)>>}

Cells == {<<>>, <<N>>, <<I(1), S(<<97>>)>>}

Requests ==
    {<<"Query", <<c, <<97>>>>>> : c \in ToSet(Consistency)}
    \union {<<"Prepare", <<(<<>>)>>>>, <<"Close", <<6>>>>, <<"Hello", <<(<<97>>), (<<>>)>>>>}
    \union {<<"Execute", <<"One", 6, p>>>> : p \in Cells}
    \union {<<"QueryStream", <<"All", <<97>>, p>>>> : p \in Cells}
    \union {<<"ExecuteBatch", <<"Quorum", 8, <<p, q>>>>>> : p, q \in Cells}
    \union {<<"ExecuteBatch", <<"Quorum", 8, <<>>>>>>}

Heads == {<<>>, <<(<<97>>), (<<>>)>>}

Tables == {<<>>, <<(<<N>>), (<<I(1), S(<<97>>)>>)>>, <<(<<>>)>>}

Responses ==
    {<<"Rows", <<h, t>>>> : h \in Heads, t \in Tables}
    \union {<<"RowsHeader", <<h>>>> : h \in Heads} \union {<<"RowsChunk", <<t>>>> : t \in Tables}
    \union {<<"Mutation", <<8>>>>, <<"Ddl", <<>>>>, <<"RowsEnd", <<>>>>, <<"Prepared", <<8, 2>>>>, <<"Error", <<(<<97>>)>>>>}
    \union {<<"ResultSets", <<(<<>>)>>>>}
    \union {<<"ResultSets", <<<<<<h, t>>, <<h, <<(<<N>>)>>>>>>>>>> : h \in Heads, t \in Tables}

Handshakes ==
    {<<"AuthStart", <<(<<97>>), n, m>>>> : n \in {<<>>, <<98>>}, m \in ToSet(AuthMechanism)}
    \union {<<"AuthChallenge", <<(<<255>>), 4, (<<98>>)>>>>, <<"AuthFinish", <<(<<1, 255>>)>>>>,
            <<"AuthToken", <<(<<>>)>>>>, <<"AuthToken", <<(<<13, 1>>)>>>>,
            <<"AuthOutcome", <<(<<"Ok", <<0, 0>>>>)>>>>, <<"AuthOutcome", <<(<<"Denied", <<97>>>>)>>>>}

KeyLimit == 3       \* bytes of a key that the next row is added to

Payloads == {<<>>, <<7>>, <<0, 1>>, <<7, 8, 9>>, <<1, 1, 1, 1>>}

-----------------------------------------------------------------------------

Init ==
    /\ picked = FALSE /\ b = None /\ out = [vals |-> <<>>, key |-> <<>>]
    /\ \/ format = "values" /\ a \in Nests
       \/ format = "values" /\ a \in Scalars \union Floats
       \/ format = "numbers" /\ a \in Small
       \/ format = "rows" /\ a \in Stored \union Damaged
       \/ format = "requests" /\ a \in Requests
       \/ format = "responses" /\ a \in Responses
       \/ format = "handshakes" /\ a \in Handshakes
       \/ format \in {"scans", "frames"} /\ a = None
    /\ FramingInit

PickValue == format = "values" /\ ~picked /\ picked' = TRUE /\ b' \in Values /\ UNCHANGED <<format, a, out, frameVars>>

PickNumber == format = "numbers" /\ ~picked /\ picked' = TRUE /\ b' \in Small /\ UNCHANGED <<format, a, out, frameVars>>

PickProjection == format = "rows" /\ ~picked /\ picked' = TRUE /\ b' \in Projections /\ UNCHANGED <<format, a, out, frameVars>>

Torn == {SubSeq(s, 1, Len(s) - 1) : s \in Stored}

\* scan_group_row over a row, into the buffers the last row left; the caller
\* may clear the key first.
ScanRow ==
    /\ format = "scans"
    /\ \E row \in Stored \union Torn \union {Garbled}, keys, fields \in Columns, before \in {<<>>, out.key} :
          LET r == scan_group_row(row, keys, fields, before, out.vals)
          IN  /\ Len(before) <= KeyLimit
              /\ a' = row /\ b' = [keys |-> keys, fields |-> fields, before |-> before, ok |-> ~IsErr(r)]
              /\ picked' = TRUE /\ out' = r[2]
    /\ UNCHANGED <<format, frameVars>>

Framed == format = "frames" /\ FramingNext /\ UNCHANGED <<format, a, b, picked, out>>

Next == PickValue \/ PickNumber \/ PickProjection \/ ScanRow \/ Framed

FormatsSpec == Init /\ [][Next]_vars

-----------------------------------------------------------------------------
(* Keys *)

TwoValues == format = "values" /\ picked /\ Unambiguous(a) /\ Unambiguous(b)

\* Byte order over encode_key is the logical order of the values, containers
\* included (value.rs:289), where nothing inside a container reads like its
\* terminator.
KeyOrder == TwoValues => Bytewise(encode_key(a), encode_key(b)) = Order(a, b)

\* Two exact keys are equal exactly when the values are, decimals and floats
\* taken as numbers; minus zero and NaN, where f64's equality is not that of the
\* bits, are keyed by their bits.  No key is the start of another, so that keys
\* written one after the other are read one way, and exact keys differ from the
\* ordered ones only where there is a decimal.
ExactKeys ==
    TwoValues =>
        LET x == encode_exact_key(a)
            y == encode_exact_key(b)
        IN  /\ PlainFloats(a) /\ PlainFloats(b) => (x = y <=> Same(a, b))
            /\ a[1] = "Float" => (x = y <=> a = b)
            /\ IsPrefix(x, y) => x = y
            /\ x = encode_key(a) <=> ~contains_decimal(a)

\* "Two values give one key exactly when they are equal" (doc of
\* encode_exact_key, value.rs:357-360): of all values, arrays that hold a NULL
\* or an array and the two zeros of f64 included.  A NaN, which equals nothing,
\* is left out.
ExactKeysOfAll ==
    format = "values" /\ picked /\ Same(a, a) /\ Same(b, b) =>
        (encode_exact_key(a) = encode_exact_key(b) <=> Same(a, b))

\* The bytes that encoded_array_prefix cuts from the key of a composite
\* primary key are equal for two keys exactly when their first n components
\* encode equally, and there are none where a NULL or a container stands among
\* these components.
PlacementPrefix ==
    format = "values" /\ picked /\ a[1] = "Array" /\ b[1] = "Array" =>
        \A n \in 1..2 :
            LET Cut(v) == encoded_array_prefix(encode_key(v), n)
                Flat(v) == Len(v[2]) >= n /\ \A i \in 1..n : ~IsContainer(v[2][i]) /\ v[2][i] # N
                Encoded(v) == encode_array_key_into(SubSeq(v[2], 1, n))
            IN  /\ Cut(a) = IF Flat(a) THEN SubSeq(Encoded(a), 1, Len(Encoded(a)) - 1) ELSE NoPrefix
                /\ Flat(a) /\ Flat(b) => (Cut(a) = Cut(b) <=> Encoded(a) = Encoded(b))

\* Keys can be taken apart: the exact keys by equality, the composite keys by
\* their leading components.
KeysTellApart == ExactKeys /\ PlacementPrefix

\* A key component gives its number back: the integer, timestamp or float it
\* was made from, the projection of a decimal; nothing for other types and for
\* a component cut short.
NumericKeys ==
    format = "values" /\ ~picked =>
        LET k == encode_key(a)
        IN  /\ decode_numeric_key(k) =
                 CASE a[1] \in {"Int", "Timestamp", "Float"} -> a
                   [] a[1] = "Decimal" -> <<"Float", to_f64(a[2])>>
                   [] OTHER -> NoneValue
            /\ decode_numeric_key(SubSeq(k, 1, 1)) = NoneValue

\* Two decimals, and an integer and a decimal, compare as the numbers they
\* stand for, also where scaling a mantissa overflows.
DecimalOrder ==
    format = "numbers" /\ picked =>
        /\ cmp_decimal(a, b) = Cmp(a.mantissa * Pow10[b.scale], b.mantissa * Pow10[a.scale])
        /\ cmp_i64_decimal(b.mantissa, a) = Cmp(b.mantissa * Pow10[a.scale], a.mantissa)

\* An integer compares with a double as the numbers do, also where the double
\* has a fraction or exceeds every i64.
IntegerVsDouble ==
    format = "numbers" /\ picked /\ b.mantissa \in -64..63 =>
        \A f \in {a.mantissa * 4 + b.scale, a.mantissa * 2} :
            cmp_i64_f64(b.mantissa, f) = <<Cmp(4 * b.mantissa, f)>>

\* The text of a decimal keeps its number and its scale: two decimals are
\* written alike only if they are the same.
TextTellsApart == format = "numbers" /\ picked => (Display(a) = Display(b) <=> a = b)

\* Numbers survive every form they are given: comparisons of decimals,
\* integers and doubles are those of the numbers also where a mantissa
\* overflows or a double has a fraction, the text of a decimal tells it from
\* every other, and a numeric key gives its number back.
NumbersFaithful == DecimalOrder /\ IntegerVsDouble /\ TextTellsApart /\ NumericKeys

\* In JSON a null stands exactly where the value has NULL, a double that JSON
\* cannot express included, and what JSON can express comes back as it was.
JsonKeepsNull ==
    format = "values" /\ ~picked =>
        /\ Nulls(from_json(to_json(a))) = Nulls(a)
        /\ Expressible(a) => from_json(to_json(a)) = a

-----------------------------------------------------------------------------
(* Rows *)

\* A value decodes from its own bytes, and neither from fewer nor from more.
RoundTrip ==
    format = "values" /\ ~picked =>
        LET s == encode_value(a)
        IN  /\ decode(s) = <<Len(s) + 1, a>>
            /\ \A k \in 0..(Len(s) - 1) : IsErr(decode(SubSeq(s, 1, k)))
            /\ IsErr(decode(Append(s, 0)))

\* A value comes back from its stored bytes, from no others, and from JSON with
\* its NULLs where they were.
ValuesReturn == RoundTrip /\ JsonKeepsNull

Get(doc, name) ==
    LET hits == SelectSeq(doc, LAMBDA f : f[1] = name) IN IF hits = <<>> THEN Absent ELSE hits[1][2]

Restricted(doc, names) == SelectSeq(doc, LAMBDA f : f[1] \in names \/ IsReserved(f[1]))

\* On stored and on damaged bytes, passing over a value ends where decoding it
\* does, and fails where decoding fails, invalid text excepted.
SkipIsDecode ==
    format = "rows" /\ ~picked =>
        LET d == decode_value(a, 1)
            s == skip_value(a, 1)
        IN  /\ ~IsErr(d) => s[1] = d[1]
            /\ IsErr(d) /\ utf8(a) => IsErr(s)

\* A projected decode is the full decode restricted to the wanted and the
\* reserved fields, with the other fields as NULL when their names are asked
\* for; it never fails where the full decode does not, and never answers from
\* bytes whose fields do not end where the row does.
Projected ==
    format = "rows" /\ picked =>
        LET full == decode(a)
            p == decode_document_projected(a, b)
            listed == scan_field_names(a)
        IN  /\ ~IsErr(full) /\ full[2][1] = "Document" =>
                 /\ ~IsErr(p) /\ ~IsErr(listed)
                 /\ Restricted(p[2], b) = Restricted(full[2][2], b)
                 /\ IF NAMES \in b
                    THEN /\ [i \in 1..Len(p[2]) |-> p[2][i][1]] = [i \in 1..Len(full[2][2]) |-> full[2][2][i][1]]
                         /\ ToSet(listed[2]) = {p[2][i][1] : i \in 1..Len(p[2])}
                    ELSE p[2] = Restricted(p[2], b)
            /\ IsErr(full) /\ utf8(a) => IsErr(p)

\* A probed decode tells NULL from not NULL as the full decode does, for a
\* field that is probed alone or probed and wanted.
Probed ==
    format = "rows" /\ picked =>
        LET full == decode(a)
            p == decode_document_probed(a, {<<97>>}, b)
        IN  ~IsErr(full) /\ full[2][1] = "Document" =>
                /\ ~IsErr(p)
                /\ \A n \in Names :
                      LET v == Get(full[2][2], n)
                      IN  Get(p[2], n) = IF n \in b
                                         THEN IF v \in {Absent, N} THEN v ELSE <<"Bool", TRUE>>
                                         ELSE IF n = <<97>> \/ IsReserved(n) THEN v ELSE Absent

\* The early stop of doc_has_reserved misses no reserved field of a stored
\* row, and agrees with the flag of the row scans.
ReservedSeen ==
    format = "rows" /\ ~picked /\ a \in Stored =>
        LET doc == decode(a)[2][2]
            some == \E i \in 1..Len(doc) : IsReserved(doc[i][1])
        IN  /\ doc_has_reserved(a)[2] = some
            /\ scan_fields_into(a, <<(<<97>>)>>, <<>>)[2] = [vals |-> <<Get(doc, <<97>>)>>, reserved |-> some]

\* Every walk that decodes part of a row agrees with the decode of all of it,
\* on stored and on damaged bytes: skipping, projecting, probing, listing names
\* and looking for reserved fields.
WalksAgree == SkipIsDecode /\ Projected /\ Probed /\ ReservedSeen

\* A row that is scanned into used buffers leaves its own values there, whatever
\* the rows before it left, a failed one included, and adds to the caller's key
\* the group key that encode_array_key_into makes of its decoded key columns.  A
\* row that fails takes nothing from the key and adds to it only if the text of
\* a key column is invalid; with no key columns the key stays as it was.
ScansIndependent ==
    format = "scans" /\ picked =>
        LET doc == decode(a)[2][2]
            OrNull(v) == IF v = Absent THEN N ELSE v
            Mine(i) == IF Position(b.fields, b.fields[i]) = i THEN Get(doc, b.fields[i]) ELSE Absent
            invalid == a = Garbled /\ <<97>> \in ToSet(b.keys) \ ToSet(b.fields)
        IN  /\ b.ok <=> \/ a \in Stored
                        \/ a = Garbled /\ <<97>> \notin ToSet(b.keys) \union ToSet(b.fields)
            /\ a \in Stored =>
                 /\ out.vals = [i \in 1..Len(b.fields) |-> Mine(i)]
                 /\ b.keys # <<>> => out.key = b.before
                        \o encode_array_key_into([i \in 1..Len(b.keys) |-> OrNull(Get(doc, b.keys[i]))])
            /\ b.keys = <<>> \/ (~b.ok /\ ~invalid) => out.key = b.before
            /\ IsPrefix(b.before, out.key)

-----------------------------------------------------------------------------
(* Messages *)

\* A decoder answers every input of the sequence as told.
Answers(Decode(_), cases) == \A i \in 1..Len(cases) : Decode(cases[i][1]) = cases[i][2]

\* The message cut short anywhere, and the answer to that.
CutShort(s, answer) == [k \in 1..Len(s) |-> <<SubSeq(s, 1, k - 1), answer>>]

\* A request is read as it was written, alone or behind the pipelining
\* wrapper, and the wrapper is not nested; cut short it is read as nothing.  A
\* query is the one request that an original server reads, as the same query.
RequestsRead ==
    format = "requests" =>
        LET s == EncodeRequest(a)
            t == encode_tagged_request(6, a)
        IN  /\ Answers(decode_client_request,
                   CutShort(s, <<Untagged, Malformed>>)
                   \o <<(<<s, <<Untagged, a>>>>), (<<t, <<6, a>>>>),
                        (<<(<<OP_TAGGED, 1>> \o t), <<Untagged, Malformed>>>>)>>)
            /\ DecodeOriginal(s) = IF a[1] = "Query" THEN a ELSE Malformed
            /\ a[1] = "Query" => s = EncodeOriginal(a[2][2], a[2][1])

\* A response is read as it was written, and cut short as nothing; with the
\* tag of its request it gives the id back, and without one none, several
\* result sets excepted, whose first byte is that of the tag.
ResponsesRead ==
    format = "responses" =>
        LET s == EncodeResponse(a)
        IN  /\ Answers(DecodeResponse, Append(CutShort(s, Malformed), <<s, a>>))
            /\ Answers(decode_tagged_response,
                   <<(<<(tag_response(7) \o s), <<7, a>>>>)>>
                   \o IF a[1] = "ResultSets" THEN <<>> ELSE <<(<<s, <<Untagged, a>>>>)>>)
            /\ Len(result_sets(a)) = CASE a[1] = "Rows" -> 1 [] a[1] = "ResultSets" -> Len(a[2][1]) [] OTHER -> 0

\* Rows pushed one by one behind the header of a frame are, byte for byte, the
\* chunk that holds them.
ChunksIncremental ==
    format = "responses" /\ a[1] = "RowsChunk" =>
        LET header == <<0, 0, 0>>
        IN  ChunkFinish(FoldLeft(push_row, ChunkBegin(header), a[2][1])) = header \o EncodeResponse(a)

\* A frame of the handshake is read by the reader that expects it and by no
\* other.  Without its last byte only the start is read, as an older client
\* sends it: as SCRAM, from the same user and nonce.
HandshakesRead ==
    format = "handshakes" =>
        LET s == EncodeHandshake(a)
            start == <<"AuthStart", <<a[2][1], a[2][2], "ScramSha256">>>>
        IN  \A k \in DOMAIN HandshakeByte :
                Answers(LAMBDA x : DecodeHandshake(k, x),
                    <<(<<s, IF k = a[1] THEN a ELSE Malformed>>),
                      (<<Front(s), IF k = a[1] /\ k = "AuthStart" THEN start ELSE Malformed>>)>>)

\* Every message is read by its reader as it was written and by no other
\* reader, in pieces or whole, from an older peer or to one.
MessagesRead == RequestsRead /\ ResponsesRead /\ ChunksIncremental /\ HandshakesRead
=============================================================================
