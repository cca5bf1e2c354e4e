----------------------------- MODULE KeyEncoding -----------------------------
(***************************************************************************)
(* Values and their order-preserving keys (skaidb-types/src/value.rs).     *)
(*                                                                         *)
(* A value is a pair of its type and its contents: a number, a byte        *)
(* string, the items of an array, the (name, value) fields of a document   *)
(* in the order of the names (BTreeMap).                                   *)
(*                                                                         *)
(* Widths.  Bytes are bytes.  An i64 and the bits of an f64 are one byte,  *)
(* two's complement and sign-magnitude; a UUID is two bytes.  An i128 is   *)
(* -Mantissa-1 .. Mantissa with two decimal digits to spare, as i128 has   *)
(* 38.  Text is ASCII or the byte 255, which is in no UTF-8 text.          *)
(***************************************************************************)
EXTENDS Integers, Sequences, SequencesExt

Types == <<"Null", "Bool", "Int", "Float", "Decimal", "String", "Bytes", "Uuid",
           "Timestamp", "Array", "Document">>

\* tag: 0 for Null up to 10 for Document; the terminator of arrays and
\* documents is 0 as well.
Tag(type) == SelectInSeq(Types, LAMBDA t : t = type) - 1
END == 0

SIGN == 128                 \* the sign bit of a word
NotANumber == {127, 127 + SIGN}     \* the bits of a NaN
Mantissa == 127             \* i128::MAX

Decimal(m, s) == <<"Decimal", [mantissa |-> m, scale |-> s]>>

MAX_PLAIN_SCALE == 2        \* 1000 in the code

Pow10[n \in 0..8] == IF n = 0 THEN 1 ELSE 10 * Pow10[n - 1]

Abs(n) == IF n < 0 THEN -n ELSE n

\* Division and remainder truncate towards zero.
Quot(a, b) == IF a < 0 THEN -(Abs(a) \div b) ELSE a \div b
Rem(a, b) == a - b * Quot(a, b)

Cmp(a, b) == IF a < b THEN -1 ELSE IF a > b THEN 1 ELSE 0

-----------------------------------------------------------------------------
(* Decimals *)

\* The trailing zeros of the mantissa are dropped, as far as the scale has room.
normalized(d) ==
    LET n == CHOOSE k \in 0..d.scale : Rem(d.mantissa, Pow10[k]) = 0
                /\ \A j \in 0..d.scale : Rem(d.mantissa, Pow10[j]) = 0 => j <= k
    IN  IF d.mantissa = 0 THEN [mantissa |-> 0, scale |-> 0]
        ELSE [mantissa |-> Quot(d.mantissa, Pow10[n]), scale |-> d.scale - n]

exact_bytes(d) == LET n == normalized(d) IN <<n.mantissa % 256, n.scale>>

\* Mutant of to_f64: the sign is lost.
ToF64Unsigned(d) == Abs(Quot(d.mantissa, Pow10[Min({d.scale, 2 * MAX_PLAIN_SCALE})]))

\* The projection to f64, lossy: the fraction is rounded away, and a scale past
\* the limit divides like the limit.
to_f64(d) ==
    LET q == Quot(d.mantissa, Pow10[Min({d.scale, 2 * MAX_PLAIN_SCALE})])
    IN  IF d.mantissa < 0 THEN SIGN - q ELSE q

\* The decimal digits of a number, in ASCII.
RECURSIVE Digits(_)
Digits(n) == IF n < 10 THEN <<48 + n>> ELSE Append(Digits(n \div 10), 48 + (n % 10))

MINUS == 45
POINT == 46
EXPONENT == <<69, MINUS>>

\* The zeros between the point and the first significant digit.
Padding(digits, scale) == [i \in 1..(scale - Len(digits)) |-> 48]

\* The text of a decimal.  Past MAX_PLAIN_SCALE the scale is written as an
\* exponent.
Display(d) ==
    LET digits == Digits(Abs(d.mantissa))
        split == Len(digits) - d.scale
    IN  (IF d.mantissa < 0 THEN <<MINUS>> ELSE <<>>)
        \o (IF d.scale = 0 THEN digits
            ELSE IF d.scale > MAX_PLAIN_SCALE THEN digits \o EXPONENT \o Digits(d.scale)
            ELSE IF split <= 0 THEN <<48, POINT>> \o Padding(digits, d.scale) \o digits
            ELSE SubSeq(digits, 1, split) \o <<POINT>> \o SubSeq(digits, split + 1, Len(digits)))

Overflows(m) == m > Mantissa \/ m < -Mantissa - 1

cmp_i64_decimal(i, d) ==
    LET fits == ~Overflows(Pow10[d.scale])
        whole == IF fits THEN Quot(d.mantissa, Pow10[d.scale]) ELSE 0
        frac == IF fits THEN Rem(d.mantissa, Pow10[d.scale]) ELSE d.mantissa
    IN  IF i = whole THEN Cmp(0, frac) ELSE Cmp(i, whole)

\* Mutant of ScaledCmp: an overflow is taken for a mantissa above every other,
\* whatever its sign.
ScaledCmpUnsigned(small, large) ==
    LET m == small.mantissa * Pow10[large.scale - small.scale]
    IN  IF Overflows(Pow10[large.scale - small.scale]) \/ Overflows(m) THEN 1
        ELSE Cmp(m, large.mantissa)

\* The mantissa with the smaller scale is scaled up; when that overflows its
\* sign decides, unless it is zero.
ScaledCmp(small, large) ==
    LET m == small.mantissa * Pow10[large.scale - small.scale]
    IN  IF Overflows(Pow10[large.scale - small.scale]) \/ Overflows(m)
        THEN IF small.mantissa = 0 THEN Cmp(0, large.mantissa) ELSE Cmp(small.mantissa, 0)
        ELSE Cmp(m, large.mantissa)

cmp_decimal(a, b) ==
    IF a.scale = b.scale THEN Cmp(a.mantissa, b.mantissa)
    ELSE IF a.scale < b.scale THEN ScaledCmp(a, b) ELSE -ScaledCmp(b, a)

NaN == 1000                     \* a float that is no number
WordMax == 63                   \* i64::MAX for the comparison with a double

\* A double, in quarters: it may have a fraction and exceed every i64.  <<>> is
\* None.
cmp_i64_f64(i, f) ==
    LET whole == Quot(f, 4)
    IN  CASE f = NaN -> <<>>
          [] f # NaN /\ f >= 4 * (WordMax + 1) -> <<-1>>
          [] f < -4 * (WordMax + 1) -> <<1>>
          [] OTHER -> <<IF i = whole THEN Cmp(0, f - 4 * whole) ELSE Cmp(i, whole)>>

-----------------------------------------------------------------------------
(* Keys *)

encode_i64(v) == <<((v % 256) + SIGN) % 256>>

\* Positives get the sign bit, negatives are inverted.
encode_f64(bits) == <<IF bits < SIGN THEN bits + SIGN ELSE 255 - bits>>

\* Mutant of encode_bytes: zeros are not escaped.
EncodeBytesRaw(s) == s \o <<0, 0>>

\* 0 is escaped as 0 255 and the string ends with 0 0.
encode_bytes(s) ==
    FlattenSeq([i \in 1..Len(s) |-> IF s[i] = 0 THEN <<0, 255>> ELSE <<s[i]>>]) \o <<0, 0>>

ScalarBody(v) ==
    CASE v[1] = "Null" -> <<>>
      [] v[1] = "Bool" -> <<IF v[2] THEN 1 ELSE 0>>
      [] v[1] \in {"Int", "Timestamp"} -> encode_i64(v[2])
      [] v[1] = "Float" -> encode_f64(v[2])
      [] v[1] = "Decimal" -> encode_f64(to_f64(v[2]))
      [] v[1] \in {"String", "Bytes"} -> encode_bytes(v[2])
      [] v[1] = "Uuid" -> v[2]

\* A container: its tag, its items, and the terminator.
Nested(v, Encode(_)) ==
    <<Tag(v[1])>>
    \o FlattenSeq([i \in 1..Len(v[2]) |->
          IF v[1] = "Array" THEN Encode(v[2][i])
          ELSE encode_bytes(v[2][i][1]) \o Encode(v[2][i][2])])
    \o <<END>>

IsContainer(v) == v[1] \in {"Array", "Document"}

RECURSIVE encode_into(_)
encode_into(v) ==
    IF IsContainer(v) THEN Nested(v, encode_into) ELSE <<Tag(v[1])>> \o ScalarBody(v)

encode_key(v) == encode_into(v)

RECURSIVE encode_exact_into(_)
encode_exact_into(v) ==
    IF IsContainer(v) THEN Nested(v, encode_exact_into)
    ELSE IF v[1] = "Decimal" THEN <<Tag("Decimal")>> \o encode_bytes(exact_bytes(v[2]))
    ELSE encode_into(v)

encode_exact_key(v) == encode_exact_into(v)

encode_array_key_into(items) ==
    <<Tag("Array")>> \o FlattenSeq([i \in 1..Len(items) |-> encode_into(items[i])]) \o <<END>>

RECURSIVE contains_decimal(_)
contains_decimal(v) ==
    \/ v[1] = "Decimal"
    \/ v[1] = "Array" /\ \E i \in 1..Len(v[2]) : contains_decimal(v[2][i])
    \/ v[1] = "Document" /\ \E i \in 1..Len(v[2]) : contains_decimal(v[2][i][2])

NoneValue == <<"None">>         \* Option::None

DecodeF64(raw) == IF raw >= SIGN THEN raw - SIGN ELSE 255 - raw

decode_numeric_key(c) ==
    IF Len(c) < 2 THEN NoneValue
    ELSE LET signed == c[2] - SIGN
         IN  CASE c[1] = Tag("Int") -> <<"Int", signed>>
               [] c[1] = Tag("Timestamp") -> <<"Timestamp", signed>>
               [] c[1] \in {Tag("Float"), Tag("Decimal")} -> <<"Float", DecodeF64(c[2])>>
               [] OTHER -> NoneValue

RECURSIVE EscapedEnd(_, _)
\* skip_escaped_bytes: the position after the terminator, 0 for None.
EscapedEnd(b, i) ==
    IF i > Len(b) THEN 0
    ELSE IF b[i] # 0 THEN EscapedEnd(b, i + 1)
    ELSE IF i = Len(b) THEN 0
    ELSE IF b[i + 1] = 255 THEN EscapedEnd(b, i + 2)
    ELSE IF b[i + 1] = 0 THEN i + 2 ELSE 0

\* Where the component that starts at pos ends, 0 for one that cannot be skipped.
ComponentEnd(key, pos) ==
    LET t == key[pos]
    IN  CASE t = Tag("Uuid") -> pos + 3
          [] t \in {Tag("String"), Tag("Bytes")} -> EscapedEnd(key, pos + 1)
          [] t \in {Tag("Bool"), Tag("Int"), Tag("Timestamp"), Tag("Float"), Tag("Decimal")} -> pos + 2
          [] OTHER -> 0

RECURSIVE PrefixEnd(_, _, _)
PrefixEnd(key, pos, n) ==
    IF n = 0 THEN pos
    ELSE IF pos > Len(key) THEN 0
    ELSE LET end == ComponentEnd(key, pos)
         IN  IF end = 0 \/ end > Len(key) + 1 THEN 0 ELSE PrefixEnd(key, end, n - 1)

NoPrefix == <<>>                \* Option::None; a prefix has its array tag

encoded_array_prefix(key, n) ==
    IF n = 0 \/ key = <<>> \/ key[1] # Tag("Array") \/ PrefixEnd(key, 2, n) = 0 THEN NoPrefix
    ELSE SubSeq(key, 1, PrefixEnd(key, 2, n) - 1)

-----------------------------------------------------------------------------
(* What the keys are compared with: the order and the equality of values.  *)

\* Lexicographic order under the order of the elements.
Lex(a, b, C(_, _)) ==
    LET differ == {i \in 1..Len(a) : i <= Len(b) /\ C(a[i], b[i]) # 0}
    IN  IF differ = {} THEN Cmp(Len(a), Len(b)) ELSE C(a[Min(differ)], b[Min(differ)])

Bytewise(a, b) == Lex(a, b, Cmp)

\* A float, in the order of its bits: negatives below positives, -0 below 0.
FloatRank(bits) == IF bits < SIGN THEN bits ELSE SIGN - 1 - bits

\* Decimals are ordered as far as their projection tells them apart: by their
\* whole part, negatives below zero.
DecimalRank(d) == LET q == Quot(d.mantissa, Pow10[d.scale]) IN IF d.mantissa < 0 THEN q - 1 ELSE q

RECURSIVE Order(_, _)
Order(a, b) ==
    IF a[1] # b[1] THEN Cmp(Tag(a[1]), Tag(b[1]))
    ELSE CASE a[1] = "Null" -> 0
           [] a[1] = "Bool" -> IF a[2] = b[2] THEN 0 ELSE IF b[2] THEN -1 ELSE 1
           [] a[1] \in {"Int", "Timestamp"} -> Cmp(a[2], b[2])
           [] a[1] = "Float" -> Cmp(FloatRank(a[2]), FloatRank(b[2]))
           [] a[1] = "Decimal" -> Cmp(DecimalRank(a[2]), DecimalRank(b[2]))
           [] a[1] \in {"String", "Bytes", "Uuid"} -> Bytewise(a[2], b[2])
           [] a[1] = "Array" -> Lex(a[2], b[2], Order)
           [] a[1] = "Document" ->
                Lex(a[2], b[2], LAMBDA f, g : IF f[1] # g[1] THEN Bytewise(f[1], g[1])
                                              ELSE Order(f[2], g[2]))

\* Decimals are equal as the numbers they stand for, whatever their scales, and
\* floats as f64 compares them: the two zeros are one, a NaN is not itself.
SameNumber(d, e) ==
    d.mantissa * Pow10[e.scale] = e.mantissa * Pow10[d.scale]

Zeros == {0, SIGN}

SameFloat(x, y) == {x, y} \cap NotANumber = {} /\ (x = y \/ {x, y} \subseteq Zeros)

RECURSIVE Same(_, _)
Same(a, b) ==
    /\ a[1] = b[1]
    /\ CASE a[1] = "Decimal" -> SameNumber(a[2], b[2])
         [] a[1] = "Float" -> SameFloat(a[2], b[2])
         [] a[1] = "Array" -> Len(a[2]) = Len(b[2]) /\ \A i \in 1..Len(a[2]) : Same(a[2][i], b[2][i])
         [] a[1] = "Document" ->
              /\ Len(a[2]) = Len(b[2])
              /\ \A i \in 1..Len(a[2]) : a[2][i][1] = b[2][i][1] /\ Same(a[2][i][2], b[2][i][2])
         [] OTHER -> a = b

\* No float inside that is NaN or minus zero, which f64 compares otherwise than
\* by their bits.
RECURSIVE PlainFloats(_)
PlainFloats(v) ==
    /\ v[1] = "Float" => v[2] \notin NotANumber \union {SIGN}
    /\ v[1] = "Array" => \A i \in 1..Len(v[2]) : PlainFloats(v[2][i])
    /\ v[1] = "Document" => \A i \in 1..Len(v[2]) : PlainFloats(v[2][i][2])

\* No NULL and no empty or zero-led name inside a container, where both look
\* like the terminator.
RECURSIVE Unambiguous(_)
Unambiguous(v) ==
    /\ v[1] = "Array" => \A i \in 1..Len(v[2]) : v[2][i][1] # "Null" /\ Unambiguous(v[2][i])
    /\ v[1] = "Document" =>
          \A i \in 1..Len(v[2]) : /\ v[2][i][1] # <<>> /\ v[2][i][1][1] # 0
                                  /\ v[2][i][2][1] # "Null" => Unambiguous(v[2][i][2])
=============================================================================
