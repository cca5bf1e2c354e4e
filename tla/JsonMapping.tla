----------------------------- MODULE JsonMapping -----------------------------
(***************************************************************************)
(* Values to and from JSON (skaidb-types/src/json.rs).                     *)
(*                                                                         *)
(* A JSON value is <<type, contents>> like a value; a number is an integer *)
(* of i64 or u64 ("int", up to 255 where an i64 ends at 127) or a double   *)
(* ("double").  The infinities are the largest bit patterns below NaN.      *)
(***************************************************************************)
EXTENDS KeyEncoding

Infinite == {126, 126 + SIGN}

NonFiniteText(bits) ==
    CASE bits \in NotANumber -> <<78, 97, 78>>                 \* NaN
      [] bits = 126 -> <<73, 110, 102>>                        \* Infinity
      [] bits = 126 + SIGN -> <<MINUS, 73, 110, 102>>          \* -Infinity

\* Mutant of FloatJson: what JSON has no number for becomes null.
FloatJsonNull(bits) ==
    IF bits \in Infinite \union NotANumber THEN <<"null">> ELSE <<"double", bits>>

\* Number::from_f64, or the text of a number that is not finite
FloatJson(bits) ==
    IF bits \in Infinite \union NotANumber THEN <<"string", NonFiniteText(bits)>> ELSE <<"double", bits>>

RECURSIVE to_json(_)
to_json(v) ==
    CASE v[1] = "Null" -> <<"null">>
      [] v[1] = "Bool" -> <<"bool", v[2]>>
      [] v[1] \in {"Int", "Timestamp"} -> <<"int", v[2]>>
      [] v[1] = "Float" -> FloatJson(v[2])
      [] v[1] = "Decimal" -> <<"string", Display(v[2])>>
      [] v[1] = "String" -> <<"string", v[2]>>
      [] v[1] = "Bytes" -> <<"array", [i \in 1..Len(v[2]) |-> <<"int", v[2][i]>>]>>
      [] v[1] = "Uuid" -> <<"string", FlattenSeq([i \in 1..Len(v[2]) |-> Digits(v[2][i]) \o <<MINUS>>])>>
      [] v[1] = "Array" -> <<"array", [i \in 1..Len(v[2]) |-> to_json(v[2][i])]>>
      [] v[1] = "Document" ->
            <<"object", [i \in 1..Len(v[2]) |-> <<v[2][i][1], to_json(v[2][i][2])>>]>>

\* as_f64 of an integer beyond i64: the largest finite doubles.
AsF64(n) == 125

RECURSIVE from_json(_)
from_json(j) ==
    CASE j[1] = "null" -> <<"Null">>
      [] j[1] = "bool" -> <<"Bool", j[2]>>
      [] j[1] = "int" -> IF j[2] < SIGN THEN <<"Int", j[2]>> ELSE <<"Float", AsF64(j[2])>>
      [] j[1] = "double" -> <<"Float", j[2]>>
      [] j[1] = "string" -> <<"String", j[2]>>
      [] j[1] = "array" -> <<"Array", [i \in 1..Len(j[2]) |-> from_json(j[2][i])]>>
      [] j[1] = "object" ->
            <<"Document", [i \in 1..Len(j[2]) |-> <<j[2][i][1], from_json(j[2][i][2])>>]>>

\* The values that JSON can express: no decimal, bytes, UUID, timestamp or
\* non-finite double at any depth.
RECURSIVE Expressible(_)
Expressible(v) ==
    /\ v[1] \notin {"Decimal", "Bytes", "Uuid", "Timestamp"}
    /\ v[1] = "Float" => v[2] \notin Infinite \union NotANumber
    /\ v[1] = "Array" => \A i \in 1..Len(v[2]) : Expressible(v[2][i])
    /\ v[1] = "Document" => \A i \in 1..Len(v[2]) : Expressible(v[2][i][2])

\* Where NULL stands in a value: the paths to it.
RECURSIVE Nulls(_)
Nulls(v) ==
    CASE v[1] = "Null" -> {<<>>}
      [] v[1] = "Array" -> UNION {{<<i>> \o p : p \in Nulls(v[2][i])} : i \in 1..Len(v[2])}
      [] v[1] = "Document" -> UNION {{<<i>> \o p : p \in Nulls(v[2][i][2])} : i \in 1..Len(v[2])}
      [] OTHER -> {}
=============================================================================
