-------------------------------- MODULE Codec --------------------------------
(***************************************************************************)
(* The lossless row codec (skaidb-types/src/codec.rs): the full decode and *)
(* the walks over an encoded document that decode only some of it.         *)
(*                                                                         *)
(* A cursor operation returns <<position, result>>, the position after     *)
(* what it read, and 0 for Err.  Lengths and counts are one byte (u32 in   *)
(* the code), mantissa and scale of a decimal one byte each, so a field is *)
(* at least two bytes (five in the code).                                  *)
(***************************************************************************)
EXTENDS KeyEncoding

Err == <<0, -1>>
IsErr(r) == r[1] = 0

ARRAY == Tag("Array")
DOCUMENT == Tag("Document")

\* from_utf8
utf8(s) == \A i \in 1..Len(s) : s[i] # 255

MinField == 2
SmallProjection == 1            \* 8 in the code
NAMES == <<1, 110>>             \* FIELD_NAMES_MARKER

IsReserved(name) == name # <<>> /\ name[1] = 1

-----------------------------------------------------------------------------
(* Encoding *)

write_bytes(s) == <<Len(s)>> \o s

RECURSIVE encode_value(_)
encode_value(v) ==
    <<Tag(v[1])>> \o
    CASE v[1] = "Null" -> <<>>
      [] v[1] = "Bool" -> <<IF v[2] THEN 1 ELSE 0>>
      [] v[1] \in {"Int", "Timestamp"} -> <<v[2] % 256>>
      [] v[1] = "Float" -> <<v[2]>>
      [] v[1] = "Decimal" -> <<v[2].mantissa % 256, v[2].scale>>
      [] v[1] \in {"String", "Bytes"} -> write_bytes(v[2])
      [] v[1] = "Uuid" -> v[2]
      [] v[1] = "Array" ->
            <<Len(v[2])>> \o FlattenSeq([i \in 1..Len(v[2]) |-> encode_value(v[2][i])])
      [] v[1] = "Document" ->
            <<Len(v[2])>> \o FlattenSeq([i \in 1..Len(v[2]) |->
                                write_bytes(v[2][i][1]) \o encode_value(v[2][i][2])])

encode_document(doc) ==
    <<DOCUMENT, Len(doc)>>
    \o FlattenSeq([i \in 1..Len(doc) |-> write_bytes(doc[i][1]) \o encode_value(doc[i][2])])

-----------------------------------------------------------------------------
(* The cursor *)

\* The ? operator: go on from what was read, or fail.
Try(r, F(_, _)) == IF IsErr(r) THEN Err ELSE F(r[1], r[2])

take(b, pos, n) ==
    IF pos + n > Len(b) + 1 THEN Err ELSE <<pos + n, SubSeq(b, pos, pos + n - 1)>>

u8(b, pos) == IF pos > Len(b) THEN Err ELSE <<pos + 1, b[pos]>>

u32(b, pos) == u8(b, pos)

remaining(b, pos) == Len(b) - pos + 1

bytes(b, pos) == Try(u32(b, pos), LAMBDA at, n : take(b, at, n))

string(b, pos) == Try(bytes(b, pos), LAMBDA at, s : IF utf8(s) THEN <<at, s>> ELSE Err)

\* The result of a read, made a value.
Read(r, F(_)) == Try(r, LAMBDA at, x : <<at, F(x)>>)

OrKeep(r, kept) == IF IsErr(r) THEN <<0, kept>> ELSE r

\* n steps of a cursor that collects a result; a failure keeps what was
\* collected before it.  A step reads at least one byte, so one more step than
\* there are bytes left has failed.
Times(b, n, from, start, Step(_, _)) ==
    FoldLeft(LAMBDA acc, i : IF IsErr(acc) THEN acc ELSE OrKeep(Step(acc[1], acc[2]), acc[2]),
             <<from, start>>, [i \in 1..Min({n, remaining(b, from) + 1}) |-> i])

Signed(byte) == IF byte >= SIGN THEN byte - 256 ELSE byte

\* BTreeMap::insert
insert(doc, name, v) ==
    SelectSeq(doc, LAMBDA f : Bytewise(f[1], name) < 0) \o <<<<name, v>>>>
    \o SelectSeq(doc, LAMBDA f : Bytewise(f[1], name) > 0)

RECURSIVE decode_value(_, _)

decode_items(b, pos) ==
    Try(u32(b, pos), LAMBDA from, n :
        IF n > remaining(b, from) THEN Err
        ELSE Times(b, n, from, <<>>, LAMBDA at, items : Read(decode_value(b, at), LAMBDA v : Append(items, v))))

decode_fields(b, pos) ==
    Try(u32(b, pos), LAMBDA from, n :
        IF n > remaining(b, from) \div MinField THEN Err
        ELSE Times(b, n, from, <<>>, LAMBDA at, doc :
                Try(string(b, at), LAMBDA next, name :
                    Read(decode_value(b, next), LAMBDA v : insert(doc, name, v)))))

decode_value(b, pos) ==
    Try(u8(b, pos), LAMBDA at, t :
        CASE t = Tag("Null") -> <<at, <<"Null">>>>
          [] t = Tag("Bool") -> Read(u8(b, at), LAMBDA x : <<"Bool", x # 0>>)
          [] t = Tag("Int") -> Read(u8(b, at), LAMBDA x : <<"Int", Signed(x)>>)
          [] t = Tag("Timestamp") -> Read(u8(b, at), LAMBDA x : <<"Timestamp", Signed(x)>>)
          [] t = Tag("Float") -> Read(u8(b, at), LAMBDA x : <<"Float", x>>)
          [] t = Tag("Decimal") -> Read(take(b, at, 2), LAMBDA x : Decimal(Signed(x[1]), x[2]))
          [] t = Tag("String") -> Read(string(b, at), LAMBDA x : <<"String", x>>)
          [] t = Tag("Bytes") -> Read(bytes(b, at), LAMBDA x : <<"Bytes", x>>)
          [] t = Tag("Uuid") -> Read(take(b, at, 2), LAMBDA x : <<"Uuid", x>>)
          [] t = ARRAY -> Read(decode_items(b, at), LAMBDA x : <<"Array", x>>)
          [] t = DOCUMENT -> Read(decode_fields(b, at), LAMBDA x : <<"Document", x>>)
          [] OTHER -> Err)

\* Value::decode: nothing may follow the value.
decode(b) == Try(decode_value(b, 1), LAMBDA at, v : IF at = Len(b) + 1 THEN <<at, v>> ELSE Err)

\* The bytes of a value of fixed size, -1 for the others.
SkipFixed(tag) ==
    CASE tag = Tag("Null") -> 0
      [] tag \in {Tag("Bool"), Tag("Int"), Tag("Float"), Tag("Timestamp")} -> 1
      [] tag \in {Tag("Decimal"), Tag("Uuid")} -> 2
      [] OTHER -> -1

\* skip_value: only the position it returns is of use.
RECURSIVE skip_value(_, _)
skip_value(b, pos) ==
    Try(u8(b, pos), LAMBDA at, t :
        CASE SkipFixed(t) >= 0 -> take(b, at, SkipFixed(t))
          [] t \in {Tag("String"), Tag("Bytes")} -> bytes(b, at)
          [] t = ARRAY -> Try(u32(b, at), LAMBDA from, n :
                Times(b, n, from, <<>>, LAMBDA p, x : skip_value(b, p)))
          [] t = DOCUMENT -> Try(u32(b, at), LAMBDA from, n :
                Times(b, n, from, <<>>, LAMBDA p, x :
                    Try(bytes(b, p), LAMBDA next, name : skip_value(b, next))))
          [] OTHER -> Err)

-----------------------------------------------------------------------------
(* Walks over an encoded document *)

Whole(b, r) == IF r[1] = Len(b) + 1 THEN r ELSE <<0, r[2]>>

\* The tag, the count, n fields, and nothing after them.  Field takes the
\* position and the name of a field, and what was collected.  "counted" walks
\* test the count against the input first.
Fields(b, counted, start, Field(_, _, _)) ==
    IF u8(b, 1)[2] # DOCUMENT \/ IsErr(u32(b, 2)) THEN <<0, start>>
    ELSE IF counted /\ b[2] > remaining(b, 3) \div MinField THEN <<0, start>>
    ELSE Whole(b, Times(b, b[2], 3, start, LAMBDA at, acc :
                            Try(bytes(b, at), LAMBDA next, name : Field(next, name, acc))))

\* A field decoded into the document, and one passed over.
Keep(b, pos, name, doc) == Read(decode_value(b, pos), LAMBDA v : insert(doc, name, v))
Pass(b, pos, acc) == Read(skip_value(b, pos), LAMBDA x : acc)

\* Mutant of decode_document_projected: reserved fields are projected away.
ProjectedReserved(b, wanted) ==
    Fields(b, TRUE, <<>>,
        LAMBDA pos, name, doc :
            IF name \in wanted THEN Keep(b, pos, name, doc) ELSE Pass(b, pos, doc))

\* A small projection compares raw names and validates only what it keeps; a
\* larger one validates every name.
decode_document_projected(b, wanted) ==
    LET names == NAMES \in wanted
        small == Cardinality(wanted) <= SmallProjection
    IN  Fields(b, TRUE, <<>>,
            LAMBDA pos, name, doc :
                IF ~utf8(name) /\ (~small \/ IsReserved(name) \/ names) THEN Err
                ELSE IF name \in wanted \/ IsReserved(name) THEN Keep(b, pos, name, doc)
                ELSE Pass(b, pos, IF names THEN insert(doc, name, <<"Null">>) ELSE doc))

decode_document_probed(b, wanted, probed) ==
    Fields(b, TRUE, <<>>,
        LAMBDA pos, name, doc :
            IF ~utf8(name) THEN Err
            ELSE IF name \in probed /\ u8(b, pos)[2] # Tag("Null")
                 THEN Pass(b, pos, insert(doc, name, <<"Bool", TRUE>>))
            ELSE IF name \in probed \union wanted \/ IsReserved(name) THEN Keep(b, pos, name, doc)
            ELSE Pass(b, pos, doc))

scan_field_names(b) ==
    Fields(b, TRUE, <<>>,
        LAMBDA pos, name, seen : IF utf8(name) THEN Pass(b, pos, Append(seen, name)) ELSE Err)

\* The walk of doc_has_reserved stops at the first name past 0x01.
RECURSIVE ReservedFrom(_, _, _)
ReservedFrom(b, pos, n) ==
    IF n = 0 THEN <<pos, FALSE>>
    ELSE Try(bytes(b, pos), LAMBDA next, name :
            IF IsReserved(name) THEN <<pos, TRUE>>
            ELSE IF name # <<>> /\ name[1] > 1 THEN <<pos, FALSE>>
            ELSE Try(skip_value(b, next), LAMBDA at, x : ReservedFrom(b, at, n - 1)))

doc_has_reserved(b) ==
    IF u8(b, 1)[2] # DOCUMENT \/ IsErr(u32(b, 2)) THEN Err ELSE ReservedFrom(b, 3, b[2])

-----------------------------------------------------------------------------
(* Row scans into buffers that the caller reuses *)

Absent == <<"None">>            \* Option::None

\* A buffer after clear and resize
Cleared(n) == [i \in 1..n |-> Absent]

\* Mutant of Reset: the buffer is only resized.
ResetKept(buffer, n) == [i \in 1..n |-> IF i <= Len(buffer) THEN buffer[i] ELSE Absent]

Reset(buffer, n) == Cleared(n)

Position(wanted, name) == SelectInSeq(wanted, LAMBDA w : w = name)

Flagged(acc, name) == [acc EXCEPT !.reserved = @ \/ IsReserved(name)]

\* The value of a wanted field, stored at its position; any other is passed over.
Take(b, pos, wanted, name, acc) ==
    IF Position(wanted, name) = 0 THEN Pass(b, pos, acc)
    ELSE Read(decode_value(b, pos), LAMBDA v : [acc EXCEPT !.vals[Position(wanted, name)] = v])

\* scan_fields_into: <<position, [vals, reserved]>>
scan_fields_into(b, wanted, out) ==
    Fields(b, FALSE, [vals |-> Reset(out, Len(wanted)), reserved |-> FALSE],
        LAMBDA pos, name, acc : Take(b, pos, wanted, name, Flagged(acc, name)))

\* The key bytes of an encoded value, without decoding a scalar: <<1, bytes>>
\* or Err.
transcode_key_value(b) ==
    Try(u8(b, 1), LAMBDA at, t :
        CASE t = Tag("Null") -> <<1, <<t>>>>
          [] t = Tag("Bool") -> Try(u8(b, 2), LAMBDA p, x : <<1, <<t, IF x # 0 THEN 1 ELSE 0>>>>)
          [] t \in {Tag("Int"), Tag("Timestamp")} ->
                Try(u8(b, 2), LAMBDA p, x : <<1, <<t>> \o encode_i64(Signed(x))>>)
          [] t = Tag("Float") -> Try(u8(b, 2), LAMBDA p, x : <<1, <<t>> \o encode_f64(x)>>)
          [] t = Tag("Decimal") ->
                Try(take(b, 2, 2), LAMBDA p, x :
                    <<1, <<t>> \o encode_f64(to_f64([mantissa |-> Signed(x[1]), scale |-> x[2]]))>>)
          [] t = Tag("String") -> Try(string(b, 2), LAMBDA p, x : <<1, <<t>> \o encode_bytes(x)>>)
          [] t = Tag("Bytes") -> Try(bytes(b, 2), LAMBDA p, x : <<1, <<t>> \o encode_bytes(x)>>)
          [] t = Tag("Uuid") -> Try(take(b, 2, 2), LAMBDA p, x : <<1, <<t>> \o x>>)
          [] t \in {ARRAY, DOCUMENT} -> Try(decode_value(b, 1), LAMBDA p, v : <<1, encode_into(v)>>)
          [] OTHER -> Err)

\* The same column may stand at several key positions.
KeySpans(keys, name, from, to, spans) ==
    [i \in 1..Len(keys) |-> IF keys[i] = name THEN <<from, to>> ELSE spans[i]]

KeyComponent(b, span) ==
    IF span = Absent THEN <<1, <<Tag("Null")>>>> ELSE transcode_key_value(SubSeq(b, span[1], span[2] - 1))

\* The key of a walked row, behind what the buffer holds; a component that fails
\* to transcode fails the row, with the components before it in the buffer.
GroupKey(b, at, acc) ==
    LET out == FoldLeft(LAMBDA k, span : IF IsErr(k) THEN k
                                         ELSE OrKeep(Read(KeyComponent(b, span), LAMBDA c : k[2] \o c), k[2]),
                        <<1, Append(acc.key, ARRAY)>>, acc.spans)
    IN  IF IsErr(out) THEN <<0, [acc EXCEPT !.key = out[2]]>>
        ELSE <<at, [acc EXCEPT !.key = Append(out[2], END)]>>

\* scan_group_row: <<position, [vals, spans, reserved, key]>>.  The values and
\* spans start over; the key is added to the caller's key_out, by a walk that
\* ends well and has key fields.
scan_group_row(b, keys, fields, key_out, vals) ==
    LET walked == Fields(b, FALSE, [vals |-> Reset(vals, Len(fields)), spans |-> Cleared(Len(keys)),
                                    reserved |-> FALSE, key |-> key_out],
                    LAMBDA pos, name, acc :
                        Try(Take(b, pos, fields, name, Flagged(acc, name)), LAMBDA next, seen :
                            <<next, [seen EXCEPT !.spans = KeySpans(keys, name, pos, next, @)]>>))
    IN  IF IsErr(walked) \/ keys = <<>> THEN walked ELSE GroupKey(b, walked[1], walked[2])
=============================================================================
