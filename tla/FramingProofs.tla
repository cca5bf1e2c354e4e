--------------------------- MODULE FramingProofs ---------------------------
(***************************************************************************)
(* Frames arrive.  The invariant: what the reader has taken of the next    *)
(* frame, the bytes on the stream and the bytes a writer has still to write*)
(* are the frames accepted and not yet received, one after the other.      *)
(***************************************************************************)
EXTENDS Framing, SequenceTheorems, WellFoundedInduction, TLAPS

Byte == 0 .. 255

\* The payloads the writer accepts.
Sendable == {p \in Seq(Byte) : Len(p) <= MAX_FRAME_LEN}

Frame(p) == Prefix(p) \o p

\* The bytes bs are the pieces fs, one after the other: off[i] is where the
\* i-th piece starts.
Tiled(bs, fs) ==
    \E off \in [1 .. Len(fs) + 1 -> 0 .. Len(bs)] :
        /\ off[1] = 0
        /\ off[Len(fs) + 1] = Len(bs)
        /\ \A i, j \in 1 .. Len(fs) + 1 : i <= j => off[i] <= off[j]
        /\ \A i \in 1 .. Len(fs) :
              /\ off[i + 1] = off[i] + Len(fs[i])
              /\ \A j \in 1 .. Len(fs[i]) : bs[off[i] + j] = fs[i][j]

\* The length the first two bytes of s give.
LengthAt(s) == s[1] * 256 + s[2]

\* The frames accepted and not yet received.
Owed == [i \in 1 .. (Len(sent) - Len(received)) |-> Frame(sent[Len(received) + i])]

\* The prefix the reader has taken off the stream.
Taken == IF reader = "reading" THEN Prefix(sent[Len(received) + 1]) ELSE <<>>

\* rest completes what is on the stream: a vectored write has it still to
\* write, a broken writer never will.
Rest(rest) ==
    /\ writer = "idle" => rest = <<>>
    /\ writer = "vectored" => rest = head \o body

FramesTyped ==
    /\ sent \in Seq(Sendable) /\ received \in Seq(Sendable)
    /\ head \in Seq(Byte) /\ body \in Seq(Byte)
    /\ stream \in Seq(Byte) /\ buf \in Seq(Byte)
    /\ writer \in {"idle", "vectored", "broken"}
    /\ reader \in {"idle", "reading", "failed"}
    /\ cut \in BOOLEAN

FramesOrdered ==
    /\ Len(received) <= Len(sent)
    /\ \A i \in 1 .. Len(received) : received[i] = sent[i]

FramesFail ==
    /\ writer = "broken" => cut
    /\ reader = "failed" => cut

FramesSized ==
    reader = "reading" =>
        Len(received) < Len(sent) /\ Len(buf) = Len(sent[Len(received) + 1])

FramesOwed ==
    reader # "failed" =>
        \E rest \in Seq(Byte) : Rest(rest) /\ Tiled(Taken \o (stream \o rest), Owed)

FramesInv == FramesTyped /\ FramesOrdered /\ FramesFail /\ FramesSized /\ FramesOwed

-----------------------------------------------------------------------------
(* Pieces *)

LEMMA Taking ==
    ASSUME NEW S, NEW s \in Seq(S), NEW l \in 0 .. Len(s)
    PROVE  /\ SubSeq(s, 1, l) \in Seq(S)
           /\ Len(SubSeq(s, 1, l)) = l
           /\ \A j \in 1 .. l : SubSeq(s, 1, l)[j] = s[j]
BY SubSeqProperties

LEMMA Dropping ==
    ASSUME NEW S, NEW s \in Seq(S), NEW l \in 0 .. Len(s)
    PROVE  /\ SubSeq(s, l + 1, Len(s)) \in Seq(S)
           /\ Len(SubSeq(s, l + 1, Len(s))) = Len(s) - l
           /\ \A j \in 1 .. Len(s) - l : SubSeq(s, l + 1, Len(s))[j] = s[l + j]
<1> DEFINE n == Len(s)
           rest == SubSeq(s, l + 1, n)
<1>1. n \in Nat /\ l \in Nat /\ l <= n
  OBVIOUS
<1>2. \A i \in 1 .. n : s[i] \in S
  OBVIOUS
<1> HIDE DEF n
<1>3. \A i \in l + 1 .. n : s[i] \in S
  BY <1>1, <1>2
<1>4. l + 1 \in Int /\ n \in Int
  BY <1>1
<1>5. /\ rest \in Seq(S)
      /\ Len(rest) = IF l + 1 <= n THEN n - (l + 1) + 1 ELSE 0
      /\ \A j \in 1 .. n - (l + 1) + 1 : rest[j] = s[(l + 1) + j - 1]
  <2> DEFINE k == l + 1
  <2>1. k \in Int /\ \A i \in k .. n : s[i] \in S
    BY <1>3, <1>4
  <2> HIDE DEF k
  <2>2. /\ SubSeq(s, k, n) \in Seq(S)
        /\ Len(SubSeq(s, k, n)) = IF k <= n THEN n - k + 1 ELSE 0
        /\ \A j \in 1 .. n - k + 1 : SubSeq(s, k, n)[j] = s[k + j - 1]
    BY <1>4, <2>1, SubSeqProperties
  <2> QED
    BY <2>2 DEF k, rest
<1> HIDE DEF rest
<1>6. Len(rest) = n - l
  BY <1>1, <1>5
<1>7. ASSUME NEW j \in 1 .. n - l PROVE rest[j] = s[l + j]
  <2>1. j \in 1 .. n - (l + 1) + 1 /\ (l + 1) + j - 1 = l + j
    BY <1>1
  <2> QED
    BY <1>5, <2>1
<1> QED
  BY <1>5, <1>6, <1>7 DEF n, rest

LEMMA Joining ==
    ASSUME NEW S, NEW s \in Seq(S), NEW t \in Seq(S)
    PROVE  /\ s \o t \in Seq(S)
           /\ Len(s \o t) = Len(s) + Len(t)
           /\ \A j \in 1 .. Len(s) : (s \o t)[j] = s[j]
           /\ \A j \in 1 .. Len(t) : (s \o t)[Len(s) + j] = t[j]
OBVIOUS

LEMMA Appended ==
    ASSUME NEW s \in Seq(Seq(Byte)), NEW x \in Seq(Byte)
    PROVE  Append(s, x) = [i \in 1 .. (Len(s) + 1) |-> IF i = Len(s) + 1 THEN x ELSE s[i]]
<1>1. /\ Append(s, x) \in Seq(Seq(Byte)) /\ Len(Append(s, x)) = Len(s) + 1
      /\ \A i \in 1 .. Len(s) : Append(s, x)[i] = s[i]
      /\ Append(s, x)[Len(s) + 1] = x
  BY AppendProperties
<1> DEFINE f == [i \in 1 .. (Len(s) + 1) |-> IF i = Len(s) + 1 THEN x ELSE s[i]]
           n == Len(s)
           t == Append(s, x)
<1>2. n \in Nat
  OBVIOUS
<1>3. t = [i \in 1 .. Len(t) |-> t[i]]
  <2>1. t \in [1 .. Len(t) -> Seq(Byte)]
    BY <1>1, LenProperties, Zenon
  <2> HIDE DEF t
  <2> QED
    BY <2>1
<1>4. ASSUME NEW i \in 1 .. n + 1 PROVE t[i] = f[i]
  <2>1. i = n + 1 \/ i \in 1 .. n
    BY <1>2
  <2> QED
    BY <1>1, <1>2, <2>1
<1> QED
  BY <1>1, <1>3, <1>4

LEMMA Regrouping ==
    ASSUME NEW s \in Seq(Byte), NEW t \in Seq(Byte), NEW u \in Seq(Byte)
    PROVE  (s \o t) \o u = s \o (t \o u)
BY ConcatAssociative

LEMMA NothingTiled == Tiled(<<>>, <<>>)
<1> DEFINE off == [i \in 1 .. 1 |-> 0]
<1>1. Len(<<>>) = 0
  OBVIOUS
<1>2. off \in [1 .. 1 -> 0 .. 0] /\ off[1] = 0
  OBVIOUS
<1> HIDE DEF off
<1>3. off \in [1 .. Len(<<>>) + 1 -> 0 .. Len(<<>>)] /\ off[Len(<<>>) + 1] = Len(<<>>)
  BY <1>1, <1>2
<1>4. /\ \A i \in 1 .. Len(<<>>) : FALSE
      /\ \A i, j \in 1 .. Len(<<>>) + 1 : off[i] <= off[j]
  BY <1>1, <1>2
<1> QED
  BY <1>2, <1>3, <1>4 DEF Tiled

LEMMA TiledByNothing ==
    ASSUME NEW bs, NEW fs, Len(fs) = 0, Tiled(bs, fs)
    PROVE  Len(bs) = 0
BY DEF Tiled

\* One more piece at the end.
LEMMA TiledOn ==
    ASSUME NEW bs \in Seq(Byte), NEW fs \in Seq(Seq(Byte)), NEW f \in Seq(Byte), Tiled(bs, fs)
    PROVE  Tiled(bs \o f, Append(fs, f))
<1> DEFINE n == Len(fs)
           m == Len(bs)
           k == Len(f)
           all == bs \o f
           gs == Append(fs, f)
<1>1. n \in Nat /\ m \in Nat /\ k \in Nat
  OBVIOUS
<1>2. /\ Len(all) = m + k
      /\ \A j \in 1 .. m : all[j] = bs[j]
      /\ \A j \in 1 .. k : all[m + j] = f[j]
  OBVIOUS
<1>3. /\ Len(gs) = n + 1 /\ gs[n + 1] = f
      /\ \A i \in 1 .. n : gs[i] = fs[i]
  OBVIOUS
<1>4. PICK off \in [1 .. n + 1 -> 0 .. m] :
        /\ off[1] = 0 /\ off[n + 1] = m
        /\ \A i, j \in 1 .. n + 1 : i <= j => off[i] <= off[j]
        /\ \A i \in 1 .. n :
              /\ off[i + 1] = off[i] + Len(fs[i])
              /\ \A j \in 1 .. Len(fs[i]) : bs[off[i] + j] = fs[i][j]
  BY DEF Tiled
<1>5. \A i \in 1 .. n : Len(fs[i]) \in Nat
  OBVIOUS
<1> HIDE DEF n, m, k, all, gs
<1> DEFINE new == [i \in 1 .. n + 2 |-> IF i = n + 2 THEN m + k ELSE off[i]]
<1>6. new \in [1 .. n + 2 -> 0 .. m + k]
  BY <1>1
<1>7. new[n + 2] = m + k /\ \A i \in 1 .. n + 1 : new[i] = off[i]
  BY <1>1
<1> HIDE DEF new
<1>8. ASSUME NEW i \in 1 .. n + 1
      PROVE  /\ new[i + 1] = new[i] + Len(gs[i])
             /\ \A j \in 1 .. Len(gs[i]) : all[new[i] + j] = gs[i][j]
  <2>1. CASE i = n + 1
    <3>1. new[i] = m /\ new[i + 1] = m + k /\ gs[i] = f
      BY <1>1, <1>3, <1>4, <1>7, <2>1
    <3> QED
      BY <1>2, <3>1 DEF k
  <2>2. CASE i \in 1 .. n
    <3>1. /\ new[i] = off[i] /\ new[i + 1] = off[i + 1] /\ gs[i] = fs[i]
          /\ off[i] \in 0 .. m /\ off[i + 1] \in 0 .. m
      BY <1>1, <1>3, <1>7, <2>2
    <3>2. off[i + 1] = off[i] + Len(fs[i]) /\ Len(fs[i]) \in Nat
      BY <1>4, <1>5, <2>2
    <3>3. ASSUME NEW j \in 1 .. Len(fs[i]) PROVE all[off[i] + j] = fs[i][j]
      <4> DEFINE a == off[i]
                 b == off[i + 1]
                 l == Len(fs[i])
      <4> HIDE DEF a, b, l
      <4>0. a \in 0 .. m /\ b \in 0 .. m /\ b = a + l /\ l \in Nat /\ j \in 1 .. l
        BY <3>1, <3>2 DEF a, b, l
      <4>1. a + j \in 1 .. m
        BY <1>1, <4>0
      <4> QED
        BY <1>2, <1>4, <2>2, <4>1 DEF a
    <3> QED
      BY <3>1, <3>2, <3>3
  <2> QED
    BY <1>1, <2>1, <2>2
<1>9. Len(gs) + 1 = n + 2 /\ Len(gs) = n + 1 /\ Len(all) = m + k
  BY <1>1, <1>2, <1>3
<1>10. new[1] = 0
  BY <1>1, <1>4, <1>7
<1>11. ASSUME NEW i \in 1 .. n + 2, NEW j \in 1 .. n + 2, i <= j
       PROVE  new[i] <= new[j]
  <2>1. CASE j = n + 2
    BY <1>1, <1>6, <1>7, <2>1
  <2>2. CASE j \in 1 .. n + 1
    <3>1. i \in 1 .. n + 1
      BY <1>1, <1>11, <2>2
    <3>2. off[i] <= off[j]
      BY <1>4, <1>11, <2>2, <3>1
    <3> QED
      BY <1>7, <2>2, <3>1, <3>2
  <2> QED
    BY <1>1, <2>1, <2>2
<1>12. /\ new \in [1 .. Len(gs) + 1 -> 0 .. Len(all)]
       /\ new[Len(gs) + 1] = Len(all)
       /\ \A i, j \in 1 .. Len(gs) + 1 : i <= j => new[i] <= new[j]
       /\ \A i \in 1 .. Len(gs) :
             /\ new[i + 1] = new[i] + Len(gs[i])
             /\ \A j \in 1 .. Len(gs[i]) : all[new[i] + j] = gs[i][j]
  BY <1>6, <1>7, <1>8, <1>9, <1>11
<1>13. Tiled(all, gs)
  BY <1>10, <1>12, Zenon DEF Tiled
<1> QED
  BY <1>13 DEF all, gs

LEMMA TiledLonger ==
    ASSUME NEW a \in Seq(Byte), NEW b \in Seq(Byte), NEW c \in Seq(Byte),
           NEW fs \in Seq(Seq(Byte)), Tiled(a \o b, fs)
    PROVE  Tiled(a \o (b \o c), Append(fs, c))
<1>1. a \o b \in Seq(Byte)
  BY Joining
<1>2. Tiled((a \o b) \o c, Append(fs, c))
  BY <1>1, TiledOn
<1>3. (a \o b) \o c = a \o (b \o c)
  BY Regrouping
<1> QED
  BY <1>2, <1>3, Zenon

\* The first piece.
LEMMA TiledFirst ==
    ASSUME NEW bs \in Seq(Byte), NEW fs \in Seq(Seq(Byte)), Len(fs) > 0, Tiled(bs, fs)
    PROVE  /\ Len(fs[1]) \in 0 .. Len(bs)
           /\ \A j \in 1 .. Len(fs[1]) : bs[j] = fs[1][j]
<1> DEFINE n == Len(fs)
           m == Len(bs)
           l == Len(fs[1])
<1>1. n \in Nat \ {0} /\ m \in Nat /\ l \in Nat
  OBVIOUS
<1>2. PICK off \in [1 .. n + 1 -> 0 .. m] :
        /\ off[1] = 0
        /\ \A i \in 1 .. n :
              /\ off[i + 1] = off[i] + Len(fs[i])
              /\ \A j \in 1 .. Len(fs[i]) : bs[off[i] + j] = fs[i][j]
  BY DEF Tiled
<1> HIDE DEF n, m
<1>3. off[2] = l /\ off[2] \in 0 .. m
  BY <1>1, <1>2
<1>4. ASSUME NEW j \in 1 .. l PROVE bs[j] = fs[1][j]
  <2>1. bs[0 + j] = fs[1][j]
    BY <1>1, <1>2
  <2> QED
    BY <1>1, <2>1
<1> QED
  BY <1>3, <1>4 DEF m

\* The pieces after the first one.
LEMMA TiledRest ==
    ASSUME NEW bs \in Seq(Byte), NEW fs \in Seq(Seq(Byte)), Len(fs) > 0, Tiled(bs, fs)
    PROVE  Tiled(SubSeq(bs, Len(fs[1]) + 1, Len(bs)), Tail(fs))
<1> DEFINE cs == SubSeq(bs, Len(fs[1]) + 1, Len(bs))
           gs == Tail(fs)
           n == Len(gs)
           m == Len(cs)
           l == Len(fs[1])
<1>0. l \in 0 .. Len(bs) /\ Len(fs) \in Nat /\ Len(bs) \in Nat
  BY TiledFirst
<1>1. /\ n \in Nat /\ m \in Nat /\ l \in Nat
      /\ Len(fs) = n + 1 /\ Len(bs) = m + l
  <2>1. n = Len(fs) - 1
    OBVIOUS
  <2> HIDE DEF l
  <2>2. m = Len(bs) - l
    BY <1>0, Dropping DEF l
  <2> HIDE DEF m, n
  <2> QED
    BY <1>0, <2>1, <2>2
<1>3. \A j \in 1 .. m : cs[j] = bs[l + j]
  <2> HIDE DEF m, l
  <2>1. Len(bs) - l = m
    BY <1>0, <1>1
  <2>2. \A j \in 1 .. Len(bs) - l : cs[j] = bs[l + j]
    BY <1>0, Dropping DEF l
  <2> QED
    BY <2>1, <2>2
<1>12. \A i \in 1 .. n : gs[i] = fs[i + 1] /\ Len(gs[i]) \in Nat
  OBVIOUS
<1> HIDE DEF cs, gs, n, m, l
<1>13. PICK off \in [1 .. Len(fs) + 1 -> 0 .. Len(bs)] :
        /\ off[1] = 0 /\ off[Len(fs) + 1] = Len(bs)
        /\ \A i, j \in 1 .. Len(fs) + 1 : i <= j => off[i] <= off[j]
        /\ \A i \in 1 .. Len(fs) :
              /\ off[i + 1] = off[i] + Len(fs[i])
              /\ \A j \in 1 .. Len(fs[i]) : bs[off[i] + j] = fs[i][j]
  BY DEF Tiled
<1>14. Len(fs) + 1 = n + 2
  BY <1>1
<1>2. /\ off \in [1 .. n + 2 -> 0 .. m + l]
      /\ off[1] = 0 /\ off[n + 2] = m + l
      /\ \A i, j \in 1 .. n + 2 : i <= j => off[i] <= off[j]
      /\ \A i \in 1 .. n + 1 :
            /\ off[i + 1] = off[i] + Len(fs[i])
            /\ \A j \in 1 .. Len(fs[i]) : bs[off[i] + j] = fs[i][j]
  BY <1>1, <1>13, <1>14
<1>4. off[2] = l
  <2>1. off[1 + 1] = off[1] + Len(fs[1])
    BY <1>1, <1>2
  <2> QED
    BY <1>1, <1>2, <2>1 DEF l
<1> DEFINE new == [i \in 1 .. n + 1 |-> off[i + 1] - l]
<1>5. \A i \in 1 .. n + 1 : off[i + 1] \in l .. m + l
  BY <1>1, <1>2, <1>4
<1>6. new \in [1 .. n + 1 -> 0 .. m]
  BY <1>1, <1>5
<1>7. \A i \in 1 .. n + 1 : new[i] = off[i + 1] - l
  OBVIOUS
<1> HIDE DEF new
<1>8. new[1] = 0 /\ new[n + 1] = m
  <2>1. 1 \in 1 .. n + 1 /\ n + 1 \in 1 .. n + 1 /\ 1 + 1 = 2 /\ (n + 1) + 1 = n + 2
    BY <1>1
  <2>2. new[1] = off[2] - l /\ new[n + 1] = off[n + 2] - l
    BY <1>7, <2>1
  <2>3. off[n + 2] = m + l
    BY <1>2
  <2> QED
    BY <1>1, <1>4, <2>2, <2>3
<1>9. ASSUME NEW i \in 1 .. n + 1, NEW j \in 1 .. n + 1, i <= j
      PROVE  new[i] <= new[j]
  <2>1. off[i + 1] <= off[j + 1]
    BY <1>1, <1>2, <1>9
  <2>2. new[i] = off[i + 1] - l /\ new[j] = off[j + 1] - l
    BY <1>7
  <2>3. off[i + 1] \in l .. m + l /\ off[j + 1] \in l .. m + l
    BY <1>5
  <2> DEFINE a == off[i + 1]
             b == off[j + 1]
  <2> HIDE DEF a, b
  <2>4. a <= b /\ a \in l .. m + l /\ b \in l .. m + l /\ new[i] = a - l /\ new[j] = b - l
    BY <2>1, <2>2, <2>3 DEF a, b
  <2> QED
    BY <1>1, <2>4
<1>10. ASSUME NEW i \in 1 .. n
       PROVE  /\ new[i + 1] = new[i] + Len(gs[i])
              /\ \A j \in 1 .. Len(gs[i]) : cs[new[i] + j] = gs[i][j]
  <2> DEFINE a == off[i + 1]
             b == off[i + 2]
             k == Len(gs[i])
  <2>1. /\ a \in l .. m + l /\ b \in l .. m + l /\ k \in Nat
        /\ new[i] = a - l /\ new[i + 1] = b - l
    <3>1. i \in 1 .. n + 1 /\ i + 1 \in 1 .. n + 1 /\ (i + 1) + 1 = i + 2
      BY <1>1
    <3>2. a \in l .. m + l /\ b \in l .. m + l
      BY <1>5, <3>1
    <3>3. new[i] = a - l /\ new[i + 1] = b - l
      BY <1>7, <3>1
    <3> QED
      BY <1>12, <3>2, <3>3
  <2>2. b = a + k /\ \A j \in 1 .. k : bs[a + j] = gs[i][j]
    <3>0. i + 1 \in 1 .. n + 1 /\ (i + 1) + 1 = i + 2
      BY <1>1
    <3>1. i + 1 \in 1 .. n + 1 /\ gs[i] = fs[i + 1] /\ (i + 1) + 1 = i + 2
      BY <1>12, <3>0
    <3> QED
      BY <1>2, <3>1
  <2> HIDE DEF a, b, k
  <2>3. new[i + 1] = new[i] + k
    BY <1>1, <2>1, <2>2
  <2>4. ASSUME NEW j \in 1 .. k PROVE cs[new[i] + j] = gs[i][j]
    <3>1. new[i] + j \in 1 .. m /\ l + (new[i] + j) = a + j
      BY <1>1, <2>1, <2>2
    <3> QED
      BY <1>3, <2>2, <3>1
  <2> QED
    BY <2>3, <2>4 DEF k
<1>11. Tiled(cs, gs)
  BY <1>6, <1>8, <1>9, <1>10, Zenon DEF Tiled, n, m
<1> QED
  BY <1>11 DEF cs, gs

\* The least of a set of naturals.
LEMMA LeastNatural ==
    ASSUME NEW T \in SUBSET Nat, T # {}
    PROVE  \E x \in T : \A y \in T : x <= y
<1>1. PICK x \in T : \A y \in T : ~(<<y, x>> \in OpToRel(<, Nat))
  BY NatLessThanWellFounded, WFMin, Zenon
<1>2. ASSUME NEW y \in T, y < x PROVE FALSE
  BY <1>1, <1>2 DEF OpToRel
<1> QED
  BY <1>2

\* Pieces one after the other are the pieces joined: the prefixes of bs that
\* end where a piece does are the function Joined chooses.
LEMMA TiledIsJoined ==
    ASSUME NEW bs \in Seq(Byte), NEW fs \in Seq(Seq(Byte)), Tiled(bs, fs)
    PROVE  bs = Joined(fs)
<1> DEFINE n == Len(fs)
           m == Len(bs)
           Equation(h) == h = [i \in 0 .. n |-> IF i = 0 THEN <<>> ELSE h[i - 1] \o fs[i]]
           joined == CHOOSE h : Equation(h)
<1>1. n \in Nat /\ m \in Nat
  OBVIOUS
<1>2. Joined(fs) = joined[n]
  BY DEF Joined
<1>3. PICK off \in [1 .. n + 1 -> 0 .. m] :
        /\ off[1] = 0 /\ off[n + 1] = m
        /\ \A i, j \in 1 .. n + 1 : i <= j => off[i] <= off[j]
        /\ \A i \in 1 .. n :
              /\ off[i + 1] = off[i] + Len(fs[i])
              /\ \A j \in 1 .. Len(fs[i]) : bs[off[i] + j] = fs[i][j]
  BY DEF Tiled
<1> DEFINE g == [i \in 0 .. n |-> SubSeq(bs, 1, off[i + 1])]
           step == [i \in 0 .. n |-> IF i = 0 THEN <<>> ELSE g[i - 1] \o fs[i]]
<1>4. ASSUME NEW i \in 0 .. n
      PROVE  /\ g[i] \in Seq(Byte) /\ Len(g[i]) = off[i + 1] /\ off[i + 1] \in 0 .. m
             /\ \A j \in 1 .. off[i + 1] : g[i][j] = bs[j]
  <2>1. off[i + 1] \in 0 .. m
    <3> HIDE DEF n, m, g, joined, Equation
    <3>1. i + 1 \in 1 .. n + 1
      BY <1>1
    <3> QED
      BY <3>1
  <2>2. g[i] = SubSeq(bs, 1, off[i + 1])
    OBVIOUS
  <2> QED
    BY <2>1, <2>2, Taking
<1>5. \A i \in 1 .. n : fs[i] \in Seq(Byte) /\ Len(fs[i]) \in Nat
  OBVIOUS
<1> HIDE DEF n, m, g
<1>6. g[0] = <<>>
  <2>1. 0 \in 0 .. n /\ 0 + 1 = 1
    BY <1>1
  <2>2. g[0] \in Seq(Byte) /\ Len(g[0]) = 0
    BY <1>3, <1>4, <2>1
  <2> QED
    BY <2>2, EmptySeq
<1>7. ASSUME NEW i \in 1 .. n
      PROVE  g[i] = g[i - 1] \o fs[i]
  <2> DEFINE b == off[i + 1]
             a == off[i]
             f == fs[i]
             h == g[i - 1]
             c == h \o f
  <2>1. /\ f \in Seq(Byte) /\ Len(f) \in Nat /\ b = a + Len(f)
        /\ \A j \in 1 .. Len(f) : bs[a + j] = f[j]
    BY <1>3, <1>5
  <2>2. i \in 0 .. n /\ i - 1 \in 0 .. n /\ (i - 1) + 1 = i
    BY <1>1
  <2>3. /\ g[i] \in Seq(Byte) /\ Len(g[i]) = b /\ b \in 0 .. m
        /\ \A j \in 1 .. b : g[i][j] = bs[j]
    BY <1>4, <2>2
  <2>4. /\ h \in Seq(Byte) /\ Len(h) = a /\ a \in 0 .. m
        /\ \A j \in 1 .. a : h[j] = bs[j]
    BY <1>4, <2>2
  <2> HIDE DEF a, b, f, h
  <2>5. h \in Seq(Byte) /\ f \in Seq(Byte)
    BY <2>1, <2>4, Zenon
  <2>6. /\ c \in Seq(Byte) /\ Len(c) = a + Len(f)
        /\ \A j \in 1 .. a : c[j] = h[j]
        /\ \A j \in 1 .. Len(f) : c[a + j] = f[j]
    <3>1. /\ c \in Seq(Byte) /\ Len(c) = Len(h) + Len(f)
          /\ \A j \in 1 .. Len(h) : c[j] = h[j]
          /\ \A j \in 1 .. Len(f) : c[Len(h) + j] = f[j]
      BY <2>5, Joining
    <3> QED
      BY <2>4, <3>1, Zenon
  <2> HIDE DEF c
  <2>7. ASSUME NEW j \in 1 .. b PROVE g[i][j] = c[j]
    <3>1. g[i][j] = bs[j]
      BY <2>3, Zenon
    <3>2. CASE j <= a
      <4>1. j \in 1 .. a
        BY <2>3, <2>4, <3>2
      <4> QED
        BY <2>4, <2>6, <3>1, <4>1, Zenon
    <3>3. CASE ~(j <= a)
      <4>1. j - a \in 1 .. Len(f) /\ a + (j - a) = j
        BY <2>1, <2>4, <3>3
      <4>2. bs[j] = f[j - a] /\ c[j] = f[j - a]
        BY <2>1, <2>6, <4>1
      <4> QED
        BY <3>1, <4>2, Zenon
    <3> QED
      BY <3>2, <3>3, Zenon
  <2>8. g[i] = c
    BY <2>1, <2>3, <2>6, <2>7, SeqEqual
  <2> QED
    BY <2>8 DEF c, h, f
<1>8. Equation(g)
  <2>1. ASSUME NEW i \in 0 .. n PROVE g[i] = IF i = 0 THEN <<>> ELSE g[i - 1] \o fs[i]
    <3>1. i = 0 \/ (i # 0 /\ i \in 1 .. n)
      BY <1>1
    <3> QED
      BY <1>6, <1>7, <3>1, Zenon
  <2>2. g = step
    BY <2>1 DEF g
  <2> QED
    BY <2>2
<1>9. Equation(joined)
  BY <1>8
<1> HIDE DEF joined
<1>10. ASSUME NEW i \in 0 .. n
       PROVE  joined[i] = IF i = 0 THEN <<>> ELSE joined[i - 1] \o fs[i]
  BY <1>9
<1> HIDE DEF Equation
<1>11. \A i \in 0 .. n : joined[i] = g[i]
  <2> DEFINE bad == {i \in 0 .. n : joined[i] # g[i]}
  <2>1. SUFFICES ASSUME bad # {} PROVE FALSE
    OBVIOUS
  <2>2. bad \in SUBSET Nat
    BY <1>1
  <2>3. PICK i \in bad : \A j \in bad : i <= j
    BY <2>1, <2>2, LeastNatural
  <2>4. i \in 0 .. n /\ joined[i] # g[i]
    BY <2>3
  <2>5. CASE i = 0
    BY <1>6, <1>10, <2>4, <2>5
  <2>6. CASE i # 0
    <3>1. i - 1 \in 0 .. n /\ ~(i <= i - 1) /\ i \in 1 .. n
      BY <1>1, <2>4, <2>6
    <3>2. joined[i - 1] = g[i - 1]
      BY <2>3, <3>1
    <3>3. joined[i] = joined[i - 1] \o fs[i] /\ g[i] = g[i - 1] \o fs[i]
      BY <1>7, <1>10, <2>4, <2>6, <3>1, Zenon
    <3> QED
      BY <2>4, <3>2, <3>3, Zenon
  <2> QED
    BY <2>5, <2>6
<1>12. g[n] = bs
  <2>1. n \in 0 .. n /\ off[n + 1] = m
    BY <1>1, <1>3
  <2>2. /\ g[n] \in Seq(Byte) /\ Len(g[n]) = m
        /\ \A j \in 1 .. m : g[n][j] = bs[j]
    BY <1>4, <2>1
  <2> QED
    BY <2>2, SeqEqual DEF m
<1>13. n \in 0 .. n
  BY <1>1
<1> QED
  BY <1>2, <1>11, <1>12, <1>13, Zenon

-----------------------------------------------------------------------------
(* Frames *)

LEMMA TwoBytes ==
    ASSUME NEW n \in Nat, n < 65536
    PROVE  n \div 256 \in Byte /\ n % 256 \in Byte /\ (n \div 256) * 256 + (n % 256) = n
<1>1. n % 256 \in Nat /\ n % 256 < 256
  OBVIOUS
<1>2. n \div 256 \in Int
  OBVIOUS
<1>3. n = (n \div 256) * 256 + (n % 256)
  OBVIOUS
<1>4. n \div 256 \in Nat /\ n \div 256 < 256
  BY <1>1, <1>2, <1>3
<1> QED
  BY <1>1, <1>3, <1>4 DEF Byte

LEMMA SendableParts ==
    ASSUME NEW p \in Sendable
    PROVE  p \in Seq(Byte) /\ Len(p) \in Nat /\ Len(p) <= MAX_FRAME_LEN /\ Len(p) < 65536
BY FramingAssumption DEF Sendable

LEMMA FrameParts ==
    ASSUME NEW p \in Sendable
    PROVE  /\ Prefix(p) \in Seq(Byte) /\ Len(Prefix(p)) = 2
           /\ Prefix(p)[1] * 256 + Prefix(p)[2] = Len(p)
           /\ Frame(p) \in Seq(Byte) /\ Len(Frame(p)) = Len(p) + 2
           /\ \A j \in 1 .. 2 : Frame(p)[j] = Prefix(p)[j]
           /\ \A j \in 1 .. Len(p) : Frame(p)[2 + j] = p[j]
<1> DEFINE n == Len(p)
           h == n \div 256
           l == n % 256
           q == Prefix(p)
<1>0. p \in Seq(Byte)
  BY SendableParts
<1>1. n \in Nat /\ n < 65536
  BY SendableParts
<1>2. q = <<h, l>>
  BY DEF Prefix
<1> HIDE DEF n
<1>3. h \in Byte /\ l \in Byte /\ h * 256 + l = n
  BY <1>1, TwoBytes
<1> HIDE DEF h, l
<1>4. q \in Seq(Byte) /\ Len(q) = 2 /\ q[1] = h /\ q[2] = l
  BY <1>2, <1>3
<1> HIDE DEF q
<1>5. Frame(p) = q \o p
  BY DEF Frame, q
<1>6. /\ q \o p \in Seq(Byte) /\ Len(q \o p) = Len(q) + Len(p)
      /\ \A j \in 1 .. Len(q) : (q \o p)[j] = q[j]
      /\ \A j \in 1 .. Len(p) : (q \o p)[Len(q) + j] = p[j]
  <2>1. q \in Seq(Byte) /\ p \in Seq(Byte)
    BY <1>0, <1>4, Zenon
  <2> QED
    BY <2>1, Joining
<1>7. Len(q) = 2 /\ q[1] * 256 + q[2] = n
  BY <1>3, <1>4
<1>8. Len(q \o p) = n + 2
  BY <1>1, <1>6, <1>7 DEF n
<1> QED
  BY <1>4, <1>5, <1>6, <1>7, <1>8 DEF n, q

\* What the invariant says of the frames owed.
LEMMA OwedParts ==
    ASSUME FramesTyped, FramesOrdered
    PROVE  /\ Owed \in Seq(Seq(Byte)) /\ Len(Owed) = Len(sent) - Len(received)
           /\ \A i \in 1 .. Len(sent) - Len(received) : Owed[i] = Frame(sent[Len(received) + i])
<1> DEFINE n == Len(sent)
           k == Len(received)
<1>1. n \in Nat /\ k \in Nat /\ k <= n
  BY DEF FramesTyped, FramesOrdered
<1>2. \A i \in 1 .. n : sent[i] \in Sendable
  BY DEF FramesTyped
<1>3. Owed = [i \in 1 .. n - k |-> Frame(sent[k + i])]
  BY DEF Owed
<1> HIDE DEF n, k
<1>4. ASSUME NEW i \in 1 .. n - k PROVE Frame(sent[k + i]) \in Seq(Byte)
  <2>1. k + i \in 1 .. n
    BY <1>1
  <2> QED
    BY <1>2, <2>1, FrameParts
<1>5. n - k \in Nat
  BY <1>1
<1>6. Owed \in [1 .. n - k -> Seq(Byte)]
  BY <1>3, <1>4
<1>7. Owed \in Seq(Seq(Byte)) /\ Len(Owed) = n - k
  <2> DEFINE d == n - k
  <2>1. d \in Nat /\ Owed \in [1 .. d -> Seq(Byte)]
    BY <1>5, <1>6
  <2> HIDE DEF d
  <2>2. Owed \in Seq(Seq(Byte)) /\ Len(Owed) = d
    BY <2>1
  <2> QED
    BY <2>2 DEF d
<1> QED
  BY <1>3, <1>7 DEF n, k

LEMMA OwedNext ==
    Owed' = [i \in 1 .. (Len(sent') - Len(received')) |-> Frame(sent'[Len(received') + i])]
BY DEF Owed

LEMMA TakenTyped ==
    ASSUME FramesTyped, FramesOrdered, FramesSized
    PROVE  Taken \in Seq(Byte)
<1>1. CASE reader = "reading"
  <2>1. Len(received) + 1 \in 1 .. Len(sent)
    BY <1>1 DEF FramesTyped, FramesOrdered, FramesSized
  <2>2. sent[Len(received) + 1] \in Sendable
    BY <2>1 DEF FramesTyped
  <2> QED
    BY <1>1, <2>2, FrameParts DEF Taken
<1>2. CASE reader # "reading"
  BY <1>2 DEF Taken
<1> QED
  BY <1>1, <1>2

LEMMA FramesStart == FramingInit => FramesInv
<1> SUFFICES ASSUME FramingInit PROVE FramesInv
  OBVIOUS
<1>1. FramesTyped
  <2>1. \A S : <<>> \in Seq(S)
    BY EmptySeq
  <2> QED
    BY <2>1, Zenon DEF FramingInit, FramesTyped
<1>6. FramesOrdered /\ FramesFail /\ FramesSized
  <2>1. FramesOrdered
    BY DEF FramingInit, FramesOrdered
  <2>2. FramesFail /\ FramesSized
    BY Zenon DEF FramingInit, FramesFail, FramesSized
  <2> QED
    BY <2>1, <2>2
<1>2. Owed = <<>>
  BY <1>1, <1>6, OwedParts DEF FramingInit
<1>3. Taken \o (stream \o <<>>) = <<>>
  BY DEF Taken, FramingInit
<1>4. Rest(<<>>) /\ <<>> \in Seq(Byte)
  BY DEF Rest, FramingInit
<1>5. FramesOwed
  BY <1>2, <1>3, <1>4, NothingTiled DEF FramesOwed
<1> QED
  BY <1>1, <1>5, <1>6 DEF FramesInv

-----------------------------------------------------------------------------
(* The writer *)

\* A step of the writer that accepts nothing: what it puts on the stream comes
\* off what was still to be written.
LEMMA WriterMoves ==
    ASSUME FramesInv, UNCHANGED <<sent, buf, reader, received>>,
           head' \in Seq(Byte), body' \in Seq(Byte), stream' \in Seq(Byte),
           writer' \in {"idle", "vectored", "broken"}, cut' \in BOOLEAN,
           cut => cut', writer' = "broken" => cut',
           \A rest \in Seq(Byte) : Rest(rest) =>
              \E left \in Seq(Byte) : Rest(left)' /\ stream' \o left = stream \o rest
    PROVE  FramesInv'
<1>1. FramesTyped /\ FramesOrdered /\ FramesFail /\ FramesSized /\ FramesOwed
  BY DEF FramesInv
<1>2. sent' = sent /\ buf' = buf /\ reader' = reader /\ received' = received
  OBVIOUS
<1>3. FramesTyped'
  BY <1>1, <1>2, Zenon DEF FramesTyped
<1>4. FramesOrdered' /\ FramesSized'
  BY <1>1, <1>2, Zenon DEF FramesOrdered, FramesSized
<1>5. FramesFail'
  BY <1>1, <1>2, Zenon DEF FramesFail
<1>6. Owed' = Owed /\ Taken' = Taken
  BY <1>2, Zenon DEF Owed, Taken
<1>7. ASSUME reader' # "failed"
      PROVE  \E left \in Seq(Byte) : Rest(left)' /\ Tiled(Taken' \o (stream' \o left), Owed')
  <2>1. PICK rest \in Seq(Byte) : Rest(rest) /\ Tiled(Taken \o (stream \o rest), Owed)
    BY <1>1, <1>2, <1>7, Zenon DEF FramesOwed
  <2>2. PICK left \in Seq(Byte) : Rest(left)' /\ stream' \o left = stream \o rest
    BY <2>1, Zenon
  <2> QED
    BY <1>6, <2>1, <2>2, Zenon
<1>8. FramesOwed'
  BY <1>7, Zenon DEF FramesOwed, Tiled
<1> QED
  BY <1>3, <1>4, <1>5, <1>8 DEF FramesInv

\* A step of the writer that accepts p: the frame of p is on the stream as far
\* as it was written, and left is the rest of it.
LEMMA WriterAccepts ==
    ASSUME FramesInv, writer = "idle", NEW p \in Sendable,
           sent' = Append(sent, p), UNCHANGED <<buf, reader, received>>,
           head' \in Seq(Byte), body' \in Seq(Byte), stream' \in Seq(Byte),
           writer' \in {"idle", "vectored", "broken"}, cut' \in BOOLEAN,
           cut => cut', writer' = "broken" => cut',
           NEW left \in Seq(Byte), Rest(left)', stream' \o left = stream \o Frame(p)
    PROVE  FramesInv'
<1>1. FramesTyped /\ FramesOrdered /\ FramesFail /\ FramesSized /\ FramesOwed
  BY DEF FramesInv
<1>2. sent' = Append(sent, p) /\ buf' = buf /\ reader' = reader /\ received' = received
  OBVIOUS
<1>3. /\ sent \in Seq(Sendable) /\ received \in Seq(Sendable) /\ stream \in Seq(Byte)
      /\ Len(received) <= Len(sent)
  BY <1>1 DEF FramesTyped, FramesOrdered
<1>4. /\ sent' \in Seq(Sendable) /\ Len(sent') = Len(sent) + 1 /\ sent'[Len(sent) + 1] = p
      /\ \A i \in 1 .. Len(sent) : sent'[i] = sent[i]
  BY <1>2, <1>3, AppendProperties
<1>5. FramesTyped'
  BY <1>1, <1>2, <1>4, Zenon DEF FramesTyped
<1>6. FramesFail'
  BY <1>1, <1>2, Zenon DEF FramesFail
<1> DEFINE n == Len(sent)
           k == Len(received)
<1>7. n \in Nat /\ k \in Nat /\ k <= n
  BY <1>3
<1>8. FramesOrdered'
  <2>1. \A i \in 1 .. k : received[i] = sent[i]
    BY <1>1 DEF FramesOrdered
  <2>2. Len(received') = k /\ Len(sent') = n + 1
    BY <1>2, <1>4
  <2>3. ASSUME NEW i \in 1 .. k PROVE received'[i] = sent'[i]
    <3>1. i \in 1 .. n
      BY <1>7
    <3> QED
      BY <1>2, <1>4, <2>1, <3>1
  <2> HIDE DEF n, k
  <2>4. Len(received') <= Len(sent')
    BY <1>7, <2>2
  <2> QED
    BY <2>2, <2>3, <2>4 DEF FramesOrdered
<1>9. reader = "reading" => k + 1 \in 1 .. n /\ sent'[k + 1] = sent[k + 1] /\ Len(buf) = Len(sent[k + 1])
  <2>1. reader = "reading" => k < n /\ Len(buf) = Len(sent[k + 1])
    BY <1>1 DEF FramesSized
  <2> HIDE DEF k, n
  <2>2. k < n => k + 1 \in 1 .. n
    BY <1>7
  <2> QED
    BY <1>4, <2>1, <2>2 DEF n
<1>10. FramesSized'
  <2>1. Len(received') = k /\ Len(sent') = n + 1 /\ reader' = reader /\ buf' = buf
    BY <1>2, <1>4
  <2> HIDE DEF k, n
  <2>2. k < n + 1
    BY <1>7
  <2> QED
    BY <1>9, <2>1, <2>2 DEF FramesSized
<1>11. Taken' = Taken
  BY <1>2, <1>9 DEF Taken
<1>12. ASSUME reader' # "failed"
       PROVE  \E rest \in Seq(Byte) : Rest(rest)' /\ Tiled(Taken' \o (stream' \o rest), Owed')
  <2>1. PICK rest \in Seq(Byte) : Rest(rest) /\ Tiled(Taken \o (stream \o rest), Owed)
    BY <1>1, <1>2, <1>12, Zenon DEF FramesOwed
  <2>2. stream \o rest = stream
    <3>1. rest = <<>>
      BY <2>1 DEF Rest
    <3> QED
      BY <1>3, <3>1, ConcatEmptySeq
  <2>3. Owed' = Append(Owed, Frame(p))
    <3>1. /\ Owed \in Seq(Seq(Byte)) /\ Len(Owed) = n - k
          /\ \A i \in 1 .. n - k : Owed[i] = Frame(sent[k + i])
      BY <1>1, OwedParts
    <3>2. Owed' = [i \in 1 .. (Len(sent') - Len(received')) |-> Frame(sent'[Len(received') + i])]
      BY OwedNext, Zenon
    <3>3. Len(sent') = n + 1 /\ Len(received') = k
      BY <1>2, <1>4
    <3>4. Append(Owed, Frame(p)) = [i \in 1 .. (Len(Owed) + 1) |-> IF i = Len(Owed) + 1 THEN Frame(p) ELSE Owed[i]]
      BY <3>1, FrameParts, Appended, Zenon
    <3>5. \A i \in 1 .. n : sent'[i] = sent[i]
      BY <1>4
    <3>6. sent'[n + 1] = p
      BY <1>4
    <3> HIDE DEF n, k
    <3>7. (n + 1) - k = (n - k) + 1
      BY <1>7
    <3>8. ASSUME NEW i \in 1 .. (n - k) + 1
          PROVE  Frame(sent'[k + i]) = IF i = (n - k) + 1 THEN Frame(p) ELSE Owed[i]
      <4>1. CASE i = (n - k) + 1
        <5>1. k + i = n + 1
          BY <1>7, <4>1
        <5> QED
          BY <3>6, <4>1, <5>1
      <4>2. CASE i # (n - k) + 1
        <5>1. k + i \in 1 .. n /\ i \in 1 .. n - k
          BY <1>7, <4>2
        <5> QED
          BY <3>1, <3>5, <4>2, <5>1
      <4> QED
        BY <4>1, <4>2
    <3>9. Owed' = [i \in 1 .. (n - k) + 1 |-> Frame(sent'[k + i])]
      BY <3>2, <3>3, <3>7
    <3>10. Append(Owed, Frame(p)) = [i \in 1 .. (n - k) + 1 |-> IF i = (n - k) + 1 THEN Frame(p) ELSE Owed[i]]
      BY <3>1, <3>4
    <3> QED
      BY <3>8, <3>9, <3>10
  <2>4. Frame(p) \in Seq(Byte) /\ Taken \in Seq(Byte) /\ Owed \in Seq(Seq(Byte))
    BY <1>1, FrameParts, TakenTyped, OwedParts
  <2>5. Taken \o stream \in Seq(Byte) /\ Tiled(Taken \o stream, Owed)
    BY <1>3, <2>1, <2>2, <2>4, Joining
  <2>6. Tiled(Taken \o (stream \o Frame(p)), Append(Owed, Frame(p)))
    BY <1>3, <2>4, <2>5, TiledLonger
  <2> QED
    BY <1>11, <2>3, <2>6, Zenon
<1>13. FramesOwed'
  BY <1>12, Zenon DEF FramesOwed, Tiled
<1> QED
  BY <1>5, <1>6, <1>8, <1>10, <1>13 DEF FramesInv

-----------------------------------------------------------------------------
(* The writer's steps *)

LEMMA Splitting ==
    ASSUME NEW s \in Seq(Byte), NEW n \in 0 .. Len(s)
    PROVE  SubSeq(s, 1, n) \o SubSeq(s, n + 1, Len(s)) = s
<1> DEFINE a == SubSeq(s, 1, n)
           b == SubSeq(s, n + 1, Len(s))
           m == Len(s)
<1>1. a \in Seq(Byte) /\ Len(a) = n /\ \A j \in 1 .. n : a[j] = s[j]
  BY Taking
<1>2. b \in Seq(Byte) /\ Len(b) = m - n /\ \A j \in 1 .. m - n : b[j] = s[n + j]
  BY Dropping
<1>3. m \in Nat /\ n \in Nat /\ n <= m
  OBVIOUS
<1> HIDE DEF a, b, m
<1>4. /\ a \o b \in Seq(Byte) /\ Len(a \o b) = n + (m - n)
      /\ \A j \in 1 .. n : (a \o b)[j] = a[j]
      /\ \A j \in 1 .. m - n : (a \o b)[n + j] = b[j]
  <2>0. a \in Seq(Byte) /\ b \in Seq(Byte)
    BY <1>1, <1>2, Zenon
  <2>1. /\ a \o b \in Seq(Byte) /\ Len(a \o b) = Len(a) + Len(b)
        /\ \A j \in 1 .. Len(a) : (a \o b)[j] = a[j]
        /\ \A j \in 1 .. Len(b) : (a \o b)[Len(a) + j] = b[j]
    BY <2>0, Joining
  <2> QED
    BY <1>1, <1>2, <2>1, Zenon
<1>5. Len(a \o b) = m
  BY <1>3, <1>4
<1>6. ASSUME NEW i \in 1 .. m PROVE (a \o b)[i] = s[i]
  <2>1. CASE i <= n
    <3>1. i \in 1 .. n
      BY <1>3, <2>1
    <3> QED
      BY <1>1, <1>4, <3>1
  <2>2. CASE n < i
    <3>1. i - n \in 1 .. m - n /\ n + (i - n) = i
      BY <1>3, <2>2
    <3> QED
      BY <1>2, <1>4, <3>1
  <2>3. i <= n \/ n < i
    BY <1>3
  <2> QED
    BY <2>1, <2>2, <2>3, Zenon
<1> QED
  BY <1>4, <1>5, <1>6, SeqEqual DEF a, b, m

\* What a vectored write has left after n bytes is what follows them.
LEMMA LeftAfter ==
    ASSUME NEW h \in Seq(Byte), NEW b \in Seq(Byte), NEW n \in 0 .. Len(h) + Len(b)
    PROVE  /\ n >= Len(h) =>
                SubSeq(b, n - Len(h) + 1, Len(b)) = SubSeq(h \o b, n + 1, Len(h \o b))
           /\ ~ (n >= Len(h)) =>
                SubSeq(h, n + 1, Len(h)) \o b = SubSeq(h \o b, n + 1, Len(h \o b))
<1> DEFINE k == Len(h)
           m == Len(b)
           s == h \o b
           r == SubSeq(s, n + 1, Len(s))
<1>1. k \in Nat /\ m \in Nat /\ n \in Nat /\ n <= k + m
  OBVIOUS
<1>2. /\ s \in Seq(Byte) /\ Len(s) = k + m
      /\ \A j \in 1 .. k : s[j] = h[j]
      /\ \A j \in 1 .. m : s[k + j] = b[j]
  BY Joining
<1> HIDE DEF s
<1>3. n \in 0 .. Len(s)
  BY <1>1, <1>2
<1>4. /\ r \in Seq(Byte) /\ Len(r) = (k + m) - n
      /\ \A j \in 1 .. (k + m) - n : r[j] = s[n + j]
  <2>1. s \in Seq(Byte)
    BY <1>2, Zenon
  <2>2. /\ r \in Seq(Byte) /\ Len(r) = Len(s) - n
        /\ \A j \in 1 .. Len(s) - n : r[j] = s[n + j]
    BY <1>3, <2>1, Dropping, Zenon
  <2> QED
    BY <1>2, <2>2, Zenon
<1>5. CASE n >= k
  <2> DEFINE l == n - k
             t == SubSeq(b, l + 1, m)
  <2>1. l \in 0 .. m /\ m - l = (k + m) - n /\ \A j \in 1 .. (k + m) - n : n + j = k + (l + j) /\ l + j \in 1 .. m
    <3> HIDE DEF k, m
    <3> QED
      BY <1>1, <1>5
  <2> HIDE DEF l
  <2>2. t \in Seq(Byte) /\ Len(t) = m - l /\ \A j \in 1 .. m - l : t[j] = b[l + j]
    BY <2>1, Dropping
  <2> HIDE DEF t, r, k, m
  <2>3. ASSUME NEW j \in 1 .. (k + m) - n PROVE t[j] = r[j]
    <3>1. j \in 1 .. m - l /\ n + j = k + (l + j) /\ l + j \in 1 .. m
      BY <2>1, Zenon
    <3>2. t[j] = b[l + j]
      BY <2>2, <3>1, Zenon
    <3>3. s[n + j] = b[l + j]
      BY <1>2, <3>1, Zenon
    <3> QED
      BY <1>4, <3>2, <3>3, Zenon
  <2>4. t = r
    BY <1>4, <2>1, <2>2, <2>3, SeqEqual
  <2> QED
    BY <1>5, <2>4 DEF t, r, s, l, k, m
<1>6. CASE ~ (n >= k)
  <2> DEFINE a == SubSeq(h, n + 1, k)
             t == a \o b
  <2>1. n \in 0 .. k
    <3> HIDE DEF k, m
    <3> QED
      BY <1>1, <1>6
  <2>2. a \in Seq(Byte) /\ Len(a) = k - n /\ \A j \in 1 .. k - n : a[j] = h[n + j]
    BY <2>1, Dropping
  <2> HIDE DEF a
  <2>3. /\ t \in Seq(Byte) /\ Len(t) = (k - n) + m
        /\ \A j \in 1 .. k - n : t[j] = a[j]
        /\ \A j \in 1 .. m : t[(k - n) + j] = b[j]
    <3>0. a \in Seq(Byte)
      BY <2>2, Zenon
    <3>1. /\ t \in Seq(Byte) /\ Len(t) = Len(a) + Len(b)
          /\ \A j \in 1 .. Len(a) : t[j] = a[j]
          /\ \A j \in 1 .. Len(b) : t[Len(a) + j] = b[j]
      BY <3>0, Joining
    <3> QED
      BY <2>2, <3>1, Zenon
  <2> HIDE DEF t, r, k, m
  <2>4. ASSUME NEW j \in 1 .. (k + m) - n PROVE t[j] = r[j]
    <3>1. CASE j <= k - n
      <4>1. j \in 1 .. k - n /\ n + j \in 1 .. k
        BY <1>1, <2>1, <3>1
      <4> QED
        BY <1>2, <1>4, <2>2, <2>3, <4>1
    <3>2. CASE ~ (j <= k - n)
      <4> DEFINE i == j - (k - n)
      <4>1. i \in 1 .. m /\ j = (k - n) + i /\ n + j = k + i
        BY <1>1, <2>1, <3>2
      <4> HIDE DEF i
      <4>2. t[j] = b[i] /\ s[n + j] = b[i]
        BY <1>2, <2>3, <4>1
      <4> QED
        BY <1>4, <4>2
    <3> QED
      BY <3>1, <3>2
  <2>5. Len(t) = (k + m) - n
    BY <1>1, <2>1, <2>3
  <2>6. t = r
    BY <1>4, <2>3, <2>4, <2>5, SeqEqual
  <2> QED
    BY <1>6, <2>6 DEF t, a, r, s, k, m
<1> QED
  BY <1>5, <1>6 DEF r, s, k, m
LEMMA Written ==
    ASSUME NEW s \in Seq(Byte), NEW f \in Seq(Byte), NEW n \in 0 .. Len(f)
    PROVE  /\ s \o SubSeq(f, 1, n) \in Seq(Byte)
           /\ SubSeq(f, n + 1, Len(f)) \in Seq(Byte)
           /\ (s \o SubSeq(f, 1, n)) \o SubSeq(f, n + 1, Len(f)) = s \o f
<1> DEFINE a == SubSeq(f, 1, n)
           b == SubSeq(f, n + 1, Len(f))
<1>1. a \in Seq(Byte)
  BY Taking, Zenon
<1>2. b \in Seq(Byte)
  BY Dropping, Zenon
<1>3. a \o b = f
  BY Splitting, Zenon
<1> HIDE DEF a, b
<1>4. s \o a \in Seq(Byte)
  BY <1>1, ConcatProperties, Zenon
<1>5. (s \o a) \o b = s \o (a \o b)
  BY <1>1, <1>2, Regrouping, Zenon
<1> QED
  BY <1>2, <1>3, <1>4, <1>5, Zenon DEF a, b

LEMMA PayloadParts ==
    ASSUME NEW p \in Payload, Len(p) <= MAX_FRAME_LEN
    PROVE  p \in Sendable
<1>1. p \in Seq(Byte)
  <2>1. Payload \subseteq Seq(Byte)
    BY FramingAssumption DEF Byte, FramingAssumption
  <2> QED
    BY <2>1, Zenon
<1> QED
  BY <1>1, Zenon DEF Sendable

\* The whole frame, or a part of it before a failure, is put on the stream.
LEMMA WriteAllKeeps ==
    ASSUME FramesInv, writer = "idle", NEW p \in Sendable,
           sent' = Append(sent, p), WriteAll(Frame(p)),
           UNCHANGED <<head, body, buf, reader, received>>
    PROVE  FramesInv'
<1>1. FramesTyped
  BY DEF FramesInv
<1>2. /\ head' \in Seq(Byte) /\ body' \in Seq(Byte) /\ stream \in Seq(Byte)
      /\ UNCHANGED <<buf, reader, received>>
  BY <1>1, Zenon DEF FramesTyped
<1>3. cut \in BOOLEAN
  BY <1>1, Zenon DEF FramesTyped
<1>4. Frame(p) \in Seq(Byte)
  BY FrameParts, Zenon
<1>5. CASE stream' = stream \o Frame(p) /\ UNCHANGED <<writer, cut>>
  <2>1. writer' = "idle" /\ cut' = cut
    BY <1>5, Zenon
  <2>2. stream' \in Seq(Byte)
    <3>1. stream \o Frame(p) \in Seq(Byte)
      BY <1>2, <1>4, Joining
    <3> QED
      BY <1>5, <3>1, Zenon
  <2>3. stream' \o <<>> = stream \o Frame(p)
    <3>1. stream' \o <<>> = stream'
      BY <2>2, ConcatEmptySeq
    <3> QED
      BY <1>5, <3>1, Zenon
  <2>4. Rest(<<>>)'
    <3>1. writer' # "vectored"
      BY <2>1
    <3> QED
      BY <3>1, Zenon DEF Rest
  <2>5. /\ writer' \in {"idle", "vectored", "broken"} /\ cut' \in BOOLEAN
        /\ (cut => cut') /\ (writer' = "broken" => cut')
    <3>1. writer' # "broken"
      BY <2>1
    <3> QED
      BY <1>3, <2>1, <3>1, Zenon
  <2>6. <<>> \in Seq(Byte)
    OBVIOUS
  <2> QED
    BY <1>2, <2>2, <2>3, <2>4, <2>5, <2>6, WriterAccepts, Zenon
<1>6. ASSUME NEW n \in 0 .. (Len(Frame(p)) - 1),
             stream' = stream \o SubSeq(Frame(p), 1, n), writer' = "broken", cut' = TRUE
      PROVE  FramesInv'
  <2>1. n \in 0 .. Len(Frame(p))
    <3> DEFINE l == Len(Frame(p))
    <3>1. l \in Nat
      BY <1>4
    <3>2. n \in 0 .. (l - 1)
      OBVIOUS
    <3> HIDE DEF l
    <3>3. n \in 0 .. l
      BY <3>1, <3>2
    <3> QED
      BY <3>3 DEF l
  <2> DEFINE left == SubSeq(Frame(p), n + 1, Len(Frame(p)))
  <2>2. stream' \in Seq(Byte) /\ left \in Seq(Byte) /\ stream' \o left = stream \o Frame(p)
    BY <1>2, <1>4, <1>6, <2>1, Written, Zenon
  <2> HIDE DEF left
  <2>3. Rest(left)'
    <3>1. writer' # "vectored" /\ writer' # "idle"
      BY <1>6
    <3> QED
      BY <3>1, Zenon DEF Rest
  <2>4. /\ writer' \in {"idle", "vectored", "broken"} /\ cut' \in BOOLEAN
        /\ (cut => cut') /\ (writer' = "broken" => cut')
    BY <1>6, Zenon
  <2> QED
    BY <1>2, <2>2, <2>3, <2>4, WriterAccepts, Zenon
<1> QED
  BY <1>5, <1>6, Zenon DEF WriteAll
\* A step that writes nothing.
LEMMA NothingWritten ==
    ASSUME FramesInv, UNCHANGED <<sent, head, body, stream, buf, reader, received>>,
           writer' \in {"idle", "vectored", "broken"}, cut' \in BOOLEAN,
           cut => cut', writer' = "broken" => cut',
           \A rest \in Seq(Byte) : Rest(rest) => Rest(rest)'
    PROVE  FramesInv'
<1>1. FramesTyped
  BY DEF FramesInv
<1>2. /\ head' \in Seq(Byte) /\ body' \in Seq(Byte) /\ stream' \in Seq(Byte)
      /\ UNCHANGED <<sent, buf, reader, received>>
  BY <1>1, Zenon DEF FramesTyped
<1>3. ASSUME NEW rest \in Seq(Byte), Rest(rest)
      PROVE  \E left \in Seq(Byte) : Rest(left)' /\ stream' \o left = stream \o rest
  <2>1. stream' \o rest = stream \o rest
    OBVIOUS
  <2> QED
    BY <1>3, <2>1, Zenon
<1> QED
  BY <1>2, <1>3, WriterMoves, Zenon

LEMMA RefuseKeeps ==
    ASSUME FramesInv, NEW p, Refuse(p), UNCHANGED <<buf, reader, received>>
    PROVE  FramesInv'
<1>1. FramesTyped /\ FramesFail
  BY DEF FramesInv
<1>2. UNCHANGED <<sent, head, body, writer, stream, cut, buf, reader, received>>
  BY DEF Refuse
<1>3. \A rest \in Seq(Byte) : Rest(rest) => Rest(rest)'
  BY <1>2, Zenon DEF Rest
<1>4. /\ writer' \in {"idle", "vectored", "broken"} /\ cut' \in BOOLEAN
      /\ (cut => cut') /\ (writer' = "broken" => cut')
  BY <1>1, <1>2, Zenon DEF FramesTyped, FramesFail
<1> QED
  BY <1>2, <1>3, <1>4, NothingWritten, Zenon

LEMMA WriteFrameKeeps ==
    ASSUME FramesInv, NEW p \in Payload, write_frame(p)
    PROVE  FramesInv'
<1>1. writer = "idle" /\ UNCHANGED <<buf, reader, received>> /\ UNCHANGED buf
  BY DEF write_frame, readVars
<1>2. CASE Refuse(p)
  BY <1>1, <1>2, RefuseKeeps, Zenon
<1>3. ASSUME Len(p) <= MAX_FRAME_LEN, sent' = Append(sent, p),
             WriteAll(Prefix(p) \o p), UNCHANGED <<head, body>>
      PROVE  FramesInv'
  <2>1. p \in Sendable
    BY <1>3, PayloadParts, Zenon
  <2>2. WriteAll(Frame(p)) /\ UNCHANGED <<head, body, buf, reader, received>>
    BY <1>1, <1>3, Zenon DEF Frame, WriteAll
  <2> QED
    BY <1>1, <1>3, <2>1, <2>2, WriteAllKeeps, Zenon
<1>4. ASSUME Len(p) <= MAX_FRAME_LEN, sent' = Append(sent, p),
             head' = Prefix(p), body' = p, writer' = "vectored", UNCHANGED <<stream, cut>>
      PROVE  FramesInv'
  <2>1. p \in Sendable
    BY <1>4, PayloadParts, Zenon
  <2>2. p \in Seq(Byte) /\ Prefix(p) \in Seq(Byte) /\ Frame(p) \in Seq(Byte)
    BY <2>1, SendableParts, FrameParts
  <2>3. FramesTyped
    BY DEF FramesInv
  <2>4. /\ head' \in Seq(Byte) /\ body' \in Seq(Byte) /\ stream' \in Seq(Byte)
        /\ cut' \in BOOLEAN /\ (cut => cut')
    BY <1>4, <2>2, <2>3, Zenon DEF FramesTyped
  <2>5. writer' # "broken" /\ writer' # "idle" /\ writer' \in {"idle", "vectored", "broken"}
    BY <1>4
  <2>6. Rest(Frame(p))'
    BY <1>4, <2>5, Zenon DEF Rest, Frame
  <2>7. stream' \o Frame(p) = stream \o Frame(p)
    BY <1>4
  <2> QED
    BY <1>1, <1>4, <2>1, <2>2, <2>4, <2>5, <2>6, <2>7, WriterAccepts, Zenon
<1> QED
  BY <1>2, <1>3, <1>4, Zenon DEF write_frame

LEMMA FinishFrameKeeps ==
    ASSUME FramesInv, NEW p \in Payload, finish_frame(p)
    PROVE  FramesInv'
<1>1. writer = "idle" /\ UNCHANGED <<buf, reader, received>>
  BY DEF finish_frame, readVars
<1>2. CASE Refuse(p)
  BY <1>1, <1>2, RefuseKeeps, Zenon
<1>3. ASSUME Len(p) <= MAX_FRAME_LEN, sent' = Append(sent, p),
             WriteAll(Prefix(p) \o p), UNCHANGED <<head, body>>
      PROVE  FramesInv'
  <2>1. p \in Sendable
    BY <1>3, PayloadParts, Zenon
  <2>2. WriteAll(Frame(p)) /\ UNCHANGED <<head, body, buf, reader, received>>
    BY <1>1, <1>3, Zenon DEF Frame, WriteAll
  <2> QED
    BY <1>1, <1>3, <2>1, <2>2, WriteAllKeeps, Zenon
<1> QED
  BY <1>2, <1>3, Zenon DEF finish_frame
\* A turn of a vectored write: what it leaves of prefix and payload follows on
\* what it put on the stream.
LEMMA VectoredKeeps ==
    ASSUME FramesInv, write_vectored
    PROVE  FramesInv'
<1>1. FramesTyped /\ writer = "vectored" /\ UNCHANGED <<sent, buf, reader, received>>
  BY DEF FramesInv, write_vectored, readVars
<1>2. head \in Seq(Byte) /\ body \in Seq(Byte) /\ stream \in Seq(Byte)
  BY <1>1, Zenon DEF FramesTyped
<1>3. cut \in BOOLEAN
  BY <1>1, Zenon DEF FramesTyped
<1>4. ASSUME head = <<>>, body = <<>>, writer' = "idle", UNCHANGED <<head, body, stream, cut>>
      PROVE  FramesInv'
  <2>1. head \o body = <<>>
    BY <1>4
  <2>2. ASSUME NEW rest \in Seq(Byte), Rest(rest) PROVE Rest(rest)'
    <3>1. rest = <<>>
      BY <1>1, <2>1, <2>2, Zenon DEF Rest
    <3>2. writer' # "vectored"
      BY <1>4
    <3> QED
      BY <3>1, <3>2, Zenon DEF Rest
  <2>3. writer' # "broken" /\ writer' \in {"idle", "vectored", "broken"}
    BY <1>4
  <2>4. UNCHANGED <<sent, head, body, stream, buf, reader, received>>
    BY <1>1, <1>4, Zenon
  <2>5. cut' \in BOOLEAN /\ (cut => cut')
    BY <1>3, <1>4, Zenon
  <2> QED
    BY <2>2, <2>3, <2>4, <2>5, NothingWritten, Zenon
<1>5. ASSUME NEW n \in 1 .. (Len(head) + Len(body)),
             stream' = stream \o SubSeq(head \o body, 1, n),
             head' = Unwritten(n)[1], body' = Unwritten(n)[2], UNCHANGED <<writer, cut>>
      PROVE  FramesInv'
  <2> DEFINE f == head \o body
             left == SubSeq(f, n + 1, Len(f))
             h == Len(head)
             b == Len(body)
  <2>1. f \in Seq(Byte) /\ Len(f) = h + b
    BY <1>2, Joining
  <2>2. h \in Nat /\ b \in Nat
    BY <1>2
  <2>3. n \in 0 .. h + b /\ n \in Nat
    <3>1. n \in 1 .. (h + b)
      OBVIOUS
    <3> HIDE DEF h, b
    <3> QED
      BY <2>2, <3>1
  <2>4. n \in 0 .. Len(f)
    BY <2>1, <2>3, Zenon
  <2>5. left \in Seq(Byte) /\ stream' \in Seq(Byte) /\ stream' \o left = stream \o f
    BY <1>2, <1>5, <2>1, <2>4, Written, Zenon
  <2>6. head' \in Seq(Byte) /\ body' \in Seq(Byte) /\ head' \o body' = left
    <3>1. CASE n >= h
      <4>1. head' = <<>> /\ body' = SubSeq(body, n - h + 1, b)
        BY <1>5, <3>1 DEF Unwritten
      <4>2. SubSeq(body, n - h + 1, b) = left
        BY <1>2, <2>3, <3>1, LeftAfter, Zenon
      <4>3. body' = left
        BY <4>1, <4>2, Zenon
      <4>4. <<>> \in Seq(Byte)
        OBVIOUS
      <4>5. <<>> \o left = left
        BY <2>5, ConcatEmptySeq
      <4> QED
        BY <2>5, <4>1, <4>3, <4>4, <4>5, Zenon
    <3>2. CASE ~ (n >= h)
      <4>1. head' = SubSeq(head, n + 1, h) /\ body' = body
        BY <1>5, <3>2 DEF Unwritten
      <4>2. SubSeq(head, n + 1, h) \o body = left
        BY <1>2, <2>3, <3>2, LeftAfter, Zenon
      <4>3. n \in 0 .. h
        <5> HIDE DEF h
        <5> QED
          BY <2>2, <2>3, <3>2
      <4>4. SubSeq(head, n + 1, h) \in Seq(Byte)
        BY <1>2, <4>3, Dropping
      <4> QED
        BY <1>2, <4>1, <4>2, <4>4, Zenon
    <3> QED
      BY <3>1, <3>2, Zenon
  <2>7. ASSUME NEW rest \in Seq(Byte), Rest(rest)
        PROVE  \E l \in Seq(Byte) : Rest(l)' /\ stream' \o l = stream \o rest
    <3>1. rest = f
      BY <1>1, <2>7, Zenon DEF Rest
    <3>2. writer' = "vectored" /\ writer' # "idle"
      BY <1>1, <1>5
    <3>3. PICK w \in Seq(Byte) : w = left
      BY <2>5, Zenon
    <3> HIDE DEF left, f
    <3>4. Rest(w)'
      BY <2>6, <3>2, <3>3, Zenon DEF Rest
    <3>5. stream' \o w = stream \o rest
      BY <2>5, <3>1, <3>3, Zenon
    <3> QED
      BY <3>4, <3>5, Zenon
  <2>8. writer' # "broken" /\ writer' \in {"idle", "vectored", "broken"}
    BY <1>1, <1>5
  <2>9. cut' \in BOOLEAN /\ (cut => cut')
    BY <1>3, <1>5, Zenon
  <2> QED
    BY <1>1, <2>5, <2>6, <2>7, <2>8, <2>9, WriterMoves, Zenon
<1> QED
  BY <1>4, <1>5, Zenon DEF write_vectored

LEMMA WriteFailsKeeps ==
    ASSUME FramesInv, WriteFails
    PROVE  FramesInv'
<1>1. /\ writer' = "broken" /\ cut' = TRUE
      /\ UNCHANGED <<sent, head, body, stream, buf, reader, received>>
  BY DEF WriteFails, readVars
<1>2. writer' # "idle" /\ writer' # "vectored" /\ writer' \in {"idle", "vectored", "broken"}
  BY <1>1
<1>3. \A rest \in Seq(Byte) : Rest(rest) => Rest(rest)'
  BY <1>2, Zenon DEF Rest
<1> QED
  BY <1>1, <1>2, <1>3, NothingWritten, Zenon

LEMMA CloseKeeps ==
    ASSUME FramesInv, Close
    PROVE  FramesInv'
<1>1. /\ writer = "idle" /\ writer' = writer /\ cut' = TRUE
      /\ UNCHANGED <<sent, head, body, stream, buf, reader, received>>
  BY DEF Close, readVars
<1>2. \A rest \in Seq(Byte) : Rest(rest) => Rest(rest)'
  BY <1>1, Zenon DEF Rest
<1>3. writer' \in {"idle", "vectored", "broken"}
  BY <1>1
<1> QED
  BY <1>1, <1>2, <1>3, NothingWritten, Zenon
-----------------------------------------------------------------------------
(* The reader's steps *)

LEMMA DroppingFirst ==
    ASSUME NEW a \in Seq(Byte), NEW t \in Seq(Byte)
    PROVE  SubSeq(a \o t, Len(a) + 1, Len(a \o t)) = t
<1> DEFINE s == a \o t
           k == Len(a)
           m == Len(t)
           r == SubSeq(s, k + 1, Len(s))
<1>1. /\ s \in Seq(Byte) /\ Len(s) = k + m
      /\ \A j \in 1 .. m : s[k + j] = t[j]
  BY Joining
<1>2. k \in Nat /\ m \in Nat
  OBVIOUS
<1> HIDE DEF s, k, m
<1>3. k \in 0 .. Len(s) /\ Len(s) - k = m
  BY <1>1, <1>2
<1>4. s \in Seq(Byte) /\ k \in 0 .. Len(s)
  BY <1>1, <1>3, Zenon
<1>5. r \in Seq(Byte) /\ Len(r) = Len(s) - k /\ \A j \in 1 .. Len(s) - k : r[j] = s[k + j]
  BY <1>4, Dropping
<1> HIDE DEF r
<1>6. r \in Seq(Byte) /\ Len(r) = m /\ \A j \in 1 .. m : r[j] = t[j]
  BY <1>1, <1>3, <1>5
<1>7. r = t
  BY <1>6, SeqEqual DEF m
<1> QED
  BY <1>7, Zenon DEF r, s, k

LEMMA FrameBefore ==
    ASSUME NEW q \in Sendable, NEW t \in Seq(Byte)
    PROVE  Frame(q) \o t = Prefix(q) \o (q \o t)
<1> DEFINE p == Prefix(q)
<1>1. p \in Seq(Byte)
  BY FrameParts, Zenon
<1>2. q \in Seq(Byte)
  BY SendableParts
<1> HIDE DEF p
<1>3. (p \o q) \o t = p \o (q \o t)
  BY <1>1, <1>2, Regrouping
<1> QED
  BY <1>3, Zenon DEF Frame, p

\* The first two bytes of a stream that holds a whole frame are the length of
\* its payload.
LEMMA FirstLength ==
    ASSUME NEW s \in Seq(Byte), NEW r \in Seq(Byte), NEW fs \in Seq(Seq(Byte)),
           NEW q \in Sendable, Len(s) >= 2, Len(fs) > 0, fs[1] = Frame(q), Tiled(s \o r, fs)
    PROVE  /\ LengthAt(s) = Len(q)
           /\ Prefix(q) \o (SubSeq(s, 3, Len(s)) \o r) = s \o r
<1> DEFINE bs == s \o r
           f == Frame(q)
           p == Prefix(q)
           m == Len(s)
<1>1. bs \in Seq(Byte) /\ \A j \in 1 .. m : bs[j] = s[j]
  BY Joining
<1>2. \A j \in 1 .. Len(f) : bs[j] = f[j]
  <2>1. \A j \in 1 .. Len(fs[1]) : bs[j] = fs[1][j]
    BY <1>1, TiledFirst, Zenon
  <2> QED
    BY <2>1, Zenon
<1>3. /\ p \in Seq(Byte) /\ Len(p) = 2 /\ p[1] * 256 + p[2] = Len(q)
      /\ Len(f) = Len(q) + 2 /\ \A j \in 1 .. 2 : f[j] = p[j]
  BY FrameParts, Zenon
<1>4. Len(q) \in Nat
  BY SendableParts
<1>5. m \in Nat /\ m >= 2
  OBVIOUS
<1> HIDE DEF bs, f, p, m
<1>6. \A j \in 1 .. 2 : j \in 1 .. m /\ j \in 1 .. Len(f)
  BY <1>3, <1>4, <1>5
<1>7. \A j \in 1 .. 2 : s[j] = p[j]
  BY <1>1, <1>2, <1>3, <1>6, Zenon
<1>8. LengthAt(s) = Len(q)
  <2>1. 1 \in 1 .. 2 /\ 2 \in 1 .. 2
    OBVIOUS
  <2>2. s[1] = p[1] /\ s[2] = p[2]
    BY <1>7, <2>1, Zenon
  <2> QED
    BY <1>3, <2>2, Zenon DEF LengthAt
<1>9. 2 \in 0 .. m
  BY <1>5
<1> DEFINE a == SubSeq(s, 1, 2)
           b == SubSeq(s, 2 + 1, m)
<1>10. a \in Seq(Byte) /\ Len(a) = 2 /\ \A j \in 1 .. 2 : a[j] = s[j]
  BY <1>9, Taking, Zenon DEF m
<1>11. b \in Seq(Byte)
  BY <1>9, Dropping, Zenon DEF m
<1>12. a \o b = s
  BY <1>9, Splitting, Zenon DEF m
<1> HIDE DEF a
<1>13. a = p
  <2>1. a \in Seq(Byte) /\ p \in Seq(Byte) /\ Len(a) = Len(p)
    BY <1>3, <1>10, Zenon
  <2>2. \A j \in 1 .. Len(a) : a[j] = p[j]
    BY <1>7, <1>10, Zenon
  <2> QED
    BY <2>1, <2>2, SeqEqual
<1>14. b = SubSeq(s, 3, m)
  OBVIOUS
<1> HIDE DEF b
<1>15. (a \o b) \o r = a \o (b \o r)
  <2>1. a \in Seq(Byte)
    BY <1>10, Zenon
  <2> QED
    BY <1>11, <2>1, Regrouping
<1>16. p \o (SubSeq(s, 3, m) \o r) = s \o r
  BY <1>12, <1>13, <1>14, <1>15, Zenon
<1> QED
  BY <1>8, <1>16, Zenon DEF p, m

\* Behind the prefix come the payload and then the other frames.
LEMMA FirstPayload ==
    ASSUME NEW s \in Seq(Byte), NEW r \in Seq(Byte), NEW fs \in Seq(Seq(Byte)),
           NEW q \in Sendable, Len(q) <= Len(s), Len(fs) > 0, fs[1] = Frame(q),
           Tiled(Prefix(q) \o (s \o r), fs)
    PROVE  /\ SubSeq(s, 1, Len(q)) = q
           /\ Tiled(SubSeq(s, Len(q) + 1, Len(s)) \o r, Tail(fs))
<1> DEFINE p == Prefix(q)
           c == s \o r
           bs == p \o c
           f == Frame(q)
           m == Len(s)
           l == Len(q)
           a == SubSeq(s, 1, l)
           b == SubSeq(s, l + 1, m)
           t == b \o r
<1>1. q \in Seq(Byte) /\ l \in Nat /\ m \in Nat
  BY SendableParts
<1>2. l \in 0 .. m
  <2>1. l <= m
    OBVIOUS
  <2> HIDE DEF l, m
  <2> QED
    BY <1>1, <2>1
<1>3. /\ p \in Seq(Byte) /\ Len(p) = 2 /\ f \in Seq(Byte) /\ Len(f) = l + 2
      /\ \A j \in 1 .. l : f[2 + j] = q[j]
  BY FrameParts, Zenon
<1>4. c \in Seq(Byte) /\ \A j \in 1 .. m : c[j] = s[j]
  BY Joining
<1>5. m <= Len(c) /\ Len(c) \in Nat
  <2>1. Len(c) = m + Len(r)
    BY Joining
  <2>2. Len(r) \in Nat
    OBVIOUS
  <2> HIDE DEF c, m
  <2> QED
    BY <1>1, <2>1, <2>2
<1>6. p \in Seq(Byte) /\ c \in Seq(Byte)
  BY <1>3, <1>4, Zenon
<1> HIDE DEF p, c, f
<1>7. bs \in Seq(Byte) /\ \A j \in 1 .. Len(c) : bs[2 + j] = c[j]
  <2>1. bs \in Seq(Byte) /\ \A j \in 1 .. Len(c) : bs[Len(p) + j] = c[j]
    BY <1>6, Joining
  <2> QED
    BY <1>3, <2>1, Zenon
<1>8. Tiled(bs, fs)
  BY Zenon DEF p, c
<1>9. \A j \in 1 .. Len(f) : bs[j] = f[j]
  <2>1. \A j \in 1 .. Len(fs[1]) : bs[j] = fs[1][j]
    BY <1>7, <1>8, TiledFirst, Zenon
  <2> QED
    BY <2>1, Zenon DEF f
<1>10. Tiled(SubSeq(bs, Len(f) + 1, Len(bs)), Tail(fs))
  <2>1. Tiled(SubSeq(bs, Len(fs[1]) + 1, Len(bs)), Tail(fs))
    BY <1>7, <1>8, TiledRest, Zenon
  <2> QED
    BY <2>1, Zenon DEF f
<1>11. a \in Seq(Byte) /\ Len(a) = l /\ \A j \in 1 .. l : a[j] = s[j]
  BY <1>2, Taking, Zenon
<1>12. b \in Seq(Byte) /\ a \o b = s
  BY <1>2, Dropping, Splitting, Zenon
<1>13. a = q
  <2> HIDE DEF a, bs, l, m
  <2>1. ASSUME NEW j \in 1 .. l PROVE a[j] = q[j]
    <3>1. j \in 1 .. m /\ j \in 1 .. Len(c) /\ 2 + j \in 1 .. Len(f)
      BY <1>1, <1>2, <1>3, <1>5
    <3> QED
      <4>1. a[j] = c[j]
        BY <1>4, <1>11, <3>1, Zenon
      <4>2. c[j] = bs[2 + j]
        BY <1>7, <3>1, Zenon
      <4>3. bs[2 + j] = f[2 + j]
        BY <1>9, <3>1, Zenon
      <4>4. f[2 + j] = q[j]
        BY <1>3, Zenon
      <4> QED
        BY <4>1, <4>2, <4>3, <4>4, Zenon
  <2>2. Len(a) = Len(q) /\ \A j \in 1 .. Len(a) : a[j] = q[j]
    BY <1>11, <2>1, Zenon DEF l
  <2> QED
    BY <1>1, <1>11, <2>2, SeqEqual
<1>14. bs = f \o t
  <2> HIDE DEF a, b
  <2>1. c = a \o t
    <3>1. (a \o b) \o r = a \o (b \o r)
      <4>1. a \in Seq(Byte) /\ b \in Seq(Byte)
        BY <1>11, <1>12, Zenon
      <4> HIDE DEF m, l, t, bs
      <4> QED
        BY <4>1, Regrouping
    <3> QED
      BY <1>12, <3>1, Zenon DEF c
  <2>2. t \in Seq(Byte)
    <3>1. b \in Seq(Byte)
      BY <1>12, Zenon
    <3> QED
      BY <3>1, Joining
  <2> HIDE DEF t
  <2>3. f \o t = p \o (q \o t)
    BY <2>2, FrameBefore, Zenon DEF f, p
  <2> QED
    BY <1>13, <2>1, <2>3, Zenon
<1>15. t \in Seq(Byte)
  <2> HIDE DEF b
  <2>1. b \in Seq(Byte)
    BY <1>12, Zenon
  <2> QED
    BY <2>1, Joining
<1> HIDE DEF t, bs
<1>16. SubSeq(bs, Len(f) + 1, Len(bs)) = t
  BY <1>3, <1>14, <1>15, DroppingFirst, Zenon
<1>17. Tiled(t, Tail(fs))
  BY <1>10, <1>16, Zenon
<1> QED
  BY <1>13, <1>17, Zenon DEF t
LEMMA TailIs ==
    ASSUME NEW s \in Seq(Seq(Byte)), Len(s) > 0
    PROVE  Tail(s) = [i \in 1 .. Len(s) - 1 |-> s[i + 1]]
<1> DEFINE t == Tail(s)
<1>1. t \in Seq(Seq(Byte)) /\ Len(t) = Len(s) - 1 /\ \A i \in 1 .. Len(t) : t[i] = s[i + 1]
  BY HeadTailProperties
<1>2. t \in [1 .. Len(t) -> Seq(Byte)]
  BY <1>1, LenProperties, Zenon
<1> HIDE DEF t
<1>3. t = [i \in 1 .. Len(t) |-> t[i]]
  BY <1>2
<1> QED
  BY <1>1, <1>3 DEF t

LEMMA ResizedParts ==
    ASSUME buf \in Seq(Byte), NEW n \in Nat
    PROVE  Resized(n) \in Seq(Byte) /\ Len(Resized(n)) = n
<1>1. ASSUME NEW i \in 1 .. n
      PROVE  (IF i <= Len(buf) THEN buf[i] ELSE 0) \in Byte
  <2>1. CASE i <= Len(buf)
    <3> DEFINE m == Len(buf)
    <3>1. m \in Nat /\ \A j \in 1 .. m : buf[j] \in Byte
      OBVIOUS
    <3>2. i <= m
      BY <2>1
    <3> HIDE DEF m
    <3>3. i \in 1 .. m
      BY <3>1, <3>2
    <3> QED
      BY <2>1, <3>1, <3>3, Zenon
  <2>2. CASE ~ (i <= Len(buf))
    BY <2>2 DEF Byte
  <2> QED
    BY <2>1, <2>2, Zenon
<1>2. Resized(n) \in [1 .. n -> Byte]
  BY <1>1, Zenon DEF Resized
<1> DEFINE f == Resized(n)
<1> HIDE DEF f
<1>3. f \in [1 .. n -> Byte]
  BY <1>2 DEF f
<1>4. f \in Seq(Byte) /\ Len(f) = n
  BY <1>3
<1> QED
  BY <1>4 DEF f

\* What a step of the reader has to establish.
LEMMA ReaderMoves ==
    ASSUME FramesInv, UNCHANGED <<sent, head, body, writer, cut>>,
           received' \in Seq(Sendable), stream' \in Seq(Byte), buf' \in Seq(Byte),
           reader' \in {"idle", "reading", "failed"}, FramesOrdered', FramesSized',
           reader' = "failed" => cut,
           reader' # "failed" =>
              \E rest \in Seq(Byte) : Rest(rest) /\ Tiled(Taken' \o (stream' \o rest), Owed')
    PROVE  FramesInv'
<1>1. FramesTyped /\ FramesFail
  BY DEF FramesInv
<1>2. FramesTyped'
  BY <1>1, Zenon DEF FramesTyped
<1>3. FramesFail'
  BY <1>1, Zenon DEF FramesFail
<1>4. \A rest \in Seq(Byte) : Rest(rest) => Rest(rest)'
  BY Zenon DEF Rest
<1>5. ASSUME reader' # "failed"
      PROVE  \E rest \in Seq(Byte) : Rest(rest)' /\ Tiled(Taken' \o (stream' \o rest), Owed')
  <2>1. PICK rest \in Seq(Byte) : Rest(rest) /\ Tiled(Taken' \o (stream' \o rest), Owed')
    BY <1>5, Zenon
  <2> QED
    BY <1>4, <2>1, Zenon
<1>6. FramesOwed'
  BY <1>5, Zenon DEF FramesOwed, Tiled
<1> QED
  BY <1>2, <1>3, <1>6 DEF FramesInv

LEMMA ReadEndsKeeps ==
    ASSUME FramesInv, ReadEnds
    PROVE  FramesInv'
<1>1. FramesTyped /\ FramesOrdered
  BY DEF FramesInv
<1>2. /\ reader' = "failed" /\ cut
      /\ UNCHANGED <<sent, head, body, writer, stream, cut, buf, received>>
  BY DEF ReadEnds
<1>3. FramesOrdered'
  BY <1>1, <1>2, Zenon DEF FramesOrdered
<1>4. reader' # "reading" /\ reader' \in {"idle", "reading", "failed"}
  BY <1>2
<1>5. FramesSized'
  BY <1>4, Zenon DEF FramesSized
<1>6. received' \in Seq(Sendable) /\ stream' \in Seq(Byte) /\ buf' \in Seq(Byte)
  BY <1>1, <1>2, Zenon DEF FramesTyped
<1> QED
  BY <1>2, <1>3, <1>4, <1>5, <1>6, ReaderMoves, Zenon

\* Bytes on the stream belong to a frame that was accepted: the next to be
\* received.
LEMMA NextFrame ==
    ASSUME FramesInv, NEW bs, Tiled(bs, Owed), Len(bs) # 0
    PROVE  /\ Len(received) < Len(sent) /\ sent[Len(received) + 1] \in Sendable
           /\ Owed \in Seq(Seq(Byte)) /\ Len(Owed) > 0 /\ Owed[1] = Frame(sent[Len(received) + 1])
<1> DEFINE n == Len(sent)
           k == Len(received)
<1>1. FramesTyped /\ FramesOrdered
  BY DEF FramesInv
<1>2. /\ Owed \in Seq(Seq(Byte)) /\ Len(Owed) = n - k
      /\ \A i \in 1 .. n - k : Owed[i] = Frame(sent[k + i])
  BY <1>1, OwedParts, Zenon
<1>3. n \in Nat /\ k \in Nat /\ k <= n /\ \A i \in 1 .. n : sent[i] \in Sendable
  BY <1>1 DEF FramesTyped, FramesOrdered
<1>4. Len(Owed) # 0
  BY TiledByNothing, Zenon
<1> HIDE DEF n, k
<1>5. k < n /\ k + 1 \in 1 .. n /\ 1 \in 1 .. n - k /\ Len(Owed) > 0
  BY <1>2, <1>3, <1>4
<1> QED
  BY <1>2, <1>3, <1>5, Zenon DEF n, k
\* The length read is the length of the next payload, so it is never too large.
LEMMA ReadLengthKeeps ==
    ASSUME FramesInv, ReadLength
    PROVE  FramesInv'
<1> DEFINE k == Len(received)
           q == sent[k + 1]
<1>1. /\ FramesTyped /\ FramesOrdered /\ FramesOwed
      /\ reader = "idle" /\ Len(stream) >= 2 /\ stream' = SubSeq(stream, 3, Len(stream))
      /\ UNCHANGED <<sent, head, body, writer, cut, received>>
  BY DEF FramesInv, ReadLength
<1>2. stream \in Seq(Byte) /\ buf \in Seq(Byte) /\ received \in Seq(Sendable)
  BY <1>1, Zenon DEF FramesTyped
<1>3. reader # "failed" /\ reader # "reading"
  BY <1>1
<1>4. PICK rest \in Seq(Byte) : Rest(rest) /\ Tiled(Taken \o (stream \o rest), Owed)
  BY <1>1, <1>3, Zenon DEF FramesOwed
<1> DEFINE bs == stream \o rest
<1>5. bs \in Seq(Byte) /\ Len(bs) = Len(stream) + Len(rest)
  BY <1>2, Joining
<1>6. Len(bs) # 0
  <2>1. Len(stream) \in Nat /\ Len(rest) \in Nat
    BY <1>2
  <2> DEFINE x == Len(stream)
             y == Len(rest)
  <2>2. x \in Nat /\ y \in Nat /\ x >= 2 /\ Len(bs) = x + y
    BY <1>1, <1>5, <2>1, Zenon
  <2> HIDE DEF x, y, bs
  <2> QED
    BY <2>2
<1>7. Tiled(bs, Owed)
  <2>1. Taken = <<>>
    BY <1>3, Zenon DEF Taken
  <2>2. <<>> \o bs = bs
    BY <1>5, ConcatEmptySeq
  <2> QED
    BY <1>4, <2>1, <2>2, Zenon
<1>8. /\ k < Len(sent) /\ q \in Sendable
      /\ Owed \in Seq(Seq(Byte)) /\ Len(Owed) > 0 /\ Owed[1] = Frame(q)
  BY <1>6, <1>7, NextFrame, Zenon
<1>9. /\ LengthAt(stream) = Len(q)
      /\ Prefix(q) \o (stream' \o rest) = bs
  <2>1. q \in Sendable /\ Owed \in Seq(Seq(Byte)) /\ Len(Owed) > 0 /\ Owed[1] = Frame(q)
    BY <1>8, Zenon
  <2>2. stream \in Seq(Byte) /\ Len(stream) >= 2
    BY <1>1, <1>2, Zenon
  <2> HIDE DEF q
  <2>3. Tiled(stream \o rest, Owed)
    BY <1>7, Zenon
  <2>4. LengthAt(stream) = Len(q)
    BY <2>1, <2>2, <2>3, FirstLength, Zenon
  <2>5. Prefix(q) \o (SubSeq(stream, 3, Len(stream)) \o rest) = stream \o rest
    BY <2>1, <2>2, <2>3, FirstLength, Zenon
  <2> QED
    BY <1>1, <2>4, <2>5, Zenon
<1>10. Len(q) \in Nat /\ ~ (Len(q) > MAX_FRAME_LEN)
  <2>1. Len(q) \in Nat /\ Len(q) <= MAX_FRAME_LEN
    <3> HIDE DEF q
    <3>1. q \in Sendable
      BY <1>8, Zenon
    <3> QED
      BY <3>1, SendableParts
  <2>2. MAX_FRAME_LEN \in Nat
    BY FramingAssumption DEF FramingAssumption
  <2> DEFINE l == Len(q)
  <2>3. l \in Nat /\ l <= MAX_FRAME_LEN
    BY <2>1
  <2> HIDE DEF l
  <2>4. l \in Nat /\ ~ (l > MAX_FRAME_LEN)
    BY <2>2, <2>3
  <2> QED
    BY <2>4 DEF l
<1>11. reader' = "reading" /\ buf' = Resized(Len(q))
  BY <1>9, <1>10, Zenon DEF ReadLength, LengthAt
<1>12. buf' \in Seq(Byte) /\ Len(buf') = Len(q)
  BY <1>2, <1>10, <1>11, ResizedParts, Zenon
<1>13. reader' # "failed" /\ reader' \in {"idle", "reading", "failed"}
  BY <1>11
<1>14. FramesOrdered'
  BY <1>1, Zenon DEF FramesOrdered
<1>15. FramesSized'
  BY <1>1, <1>8, <1>12, Zenon DEF FramesSized
<1>16. Taken' = Prefix(q) /\ Owed' = Owed
  BY <1>1, <1>11, Zenon DEF Taken, Owed
<1>17. Tiled(Taken' \o (stream' \o rest), Owed')
  BY <1>7, <1>9, <1>16, Zenon
<1>18. stream' \in Seq(Byte)
  <2>1. 2 \in 0 .. Len(stream)
    BY <1>1, <1>2
  <2>2. SubSeq(stream, 2 + 1, Len(stream)) \in Seq(Byte)
    BY <1>2, <2>1, Dropping
  <2>3. stream' = SubSeq(stream, 2 + 1, Len(stream))
    BY <1>1
  <2> QED
    BY <2>2, <2>3, Zenon
<1>19. received' \in Seq(Sendable)
  BY <1>1, <1>2, Zenon
<1> QED
  BY <1>1, <1>4, <1>12, <1>13, <1>14, <1>15, <1>17, <1>18, <1>19, ReaderMoves, Zenon

\* The bytes read into the buffer are the payload, and the other frames follow.
LEMMA ReadPayloadKeeps ==
    ASSUME FramesInv, ReadPayload
    PROVE  FramesInv'
<1> DEFINE n == Len(sent)
           k == Len(received)
           q == sent[k + 1]
           l == Len(q)
<1>1. /\ FramesTyped /\ FramesOrdered /\ FramesSized /\ FramesOwed
      /\ reader = "reading" /\ Len(stream) >= Len(buf)
      /\ buf' = SubSeq(stream, 1, Len(buf)) /\ received' = Append(received, buf')
      /\ stream' = SubSeq(stream, Len(buf) + 1, Len(stream)) /\ reader' = "idle"
      /\ UNCHANGED <<sent, head, body, writer, cut>>
  BY DEF FramesInv, ReadPayload
<1>2. stream \in Seq(Byte) /\ received \in Seq(Sendable) /\ sent \in Seq(Sendable)
  BY <1>1, Zenon DEF FramesTyped
<1>3. n \in Nat /\ k \in Nat /\ k < n /\ Len(buf) = l
  <2>1. k < n /\ Len(buf) = l
    BY <1>1, Zenon DEF FramesSized
  <2> QED
    BY <1>2, <2>1
<1>4. q \in Sendable
  <2>1. \A i \in 1 .. n : sent[i] \in Sendable
    BY <1>2
  <2> HIDE DEF n, k
  <2>2. k + 1 \in 1 .. n
    BY <1>3
  <2> QED
    BY <2>1, <2>2, Zenon
<1>5. q \in Seq(Byte) /\ l \in Nat
  BY <1>4, SendableParts
<1>6. reader # "failed"
  BY <1>1
<1>7. PICK rest \in Seq(Byte) : Rest(rest) /\ Tiled(Taken \o (stream \o rest), Owed)
  BY <1>1, <1>6, Zenon DEF FramesOwed
<1>8. Tiled(Prefix(q) \o (stream \o rest), Owed)
  BY <1>1, <1>7, Zenon DEF Taken
<1>9. /\ Owed \in Seq(Seq(Byte)) /\ Len(Owed) = n - k
      /\ \A i \in 1 .. n - k : Owed[i] = Frame(sent[k + i])
  BY <1>1, OwedParts, Zenon
<1>10. Len(Owed) > 0 /\ Owed[1] = Frame(q)
  <2>1. n - k > 0 /\ 1 \in 1 .. n - k
    <3> HIDE DEF n, k
    <3> QED
      BY <1>3
  <2> QED
    BY <1>9, <2>1, Zenon
<1>11. l <= Len(stream)
  <2> DEFINE m == Len(stream)
  <2>1. m \in Nat /\ m >= l
    BY <1>1, <1>2, <1>3
  <2> HIDE DEF m, l
  <2>2. l <= m
    BY <1>5, <2>1
  <2> QED
    BY <2>2 DEF m
<1>12. buf' = q /\ Tiled(stream' \o rest, Tail(Owed))
  <2>1. SubSeq(stream, 1, l) = q /\ Tiled(SubSeq(stream, l + 1, Len(stream)) \o rest, Tail(Owed))
    BY <1>2, <1>4, <1>8, <1>9, <1>10, <1>11, FirstPayload, Zenon
  <2> QED
    BY <1>1, <1>3, <2>1, Zenon
<1>13. /\ received' \in Seq(Sendable) /\ Len(received') = k + 1 /\ received'[k + 1] = q
       /\ \A i \in 1 .. k : received'[i] = received[i]
  <2> HIDE DEF q
  <2>1. received' = Append(received, q)
    BY <1>1, <1>12, Zenon
  <2> QED
    BY <1>2, <1>4, <2>1, AppendProperties
<1>14. FramesOrdered'
  <2>1. \A i \in 1 .. k : received[i] = sent[i]
    BY <1>1, Zenon DEF FramesOrdered
  <2>2. sent' = sent
    BY <1>1
  <2> HIDE DEF k, n, q
  <2>3. k + 1 <= n /\ \A i \in 1 .. k + 1 : i = k + 1 \/ i \in 1 .. k
    BY <1>3
  <2>4. ASSUME NEW i \in 1 .. k + 1 PROVE received'[i] = sent'[i]
    <3>1. CASE i = k + 1
      BY <1>13, <2>2, <3>1 DEF q
    <3>2. CASE i \in 1 .. k
      BY <1>13, <2>1, <2>2, <3>2, Zenon
    <3> QED
      BY <2>3, <3>1, <3>2, Zenon
  <2> QED
    BY <1>13, <2>2, <2>3, <2>4, Zenon DEF FramesOrdered, n
<1>15. Owed' = Tail(Owed)
  <2>1. Tail(Owed) = [i \in 1 .. (n - k) - 1 |-> Owed[i + 1]]
    BY <1>9, <1>10, TailIs, Zenon
  <2>2. Owed' = [i \in 1 .. (n - (k + 1)) |-> Frame(sent[(k + 1) + i])]
    BY <1>1, <1>13, OwedNext, Zenon
  <2> HIDE DEF n, k
  <2>3. (n - k) - 1 = n - (k + 1)
    BY <1>3
  <2>4. ASSUME NEW i \in 1 .. (n - k) - 1 PROVE Frame(sent[(k + 1) + i]) = Owed[i + 1]
    <3>1. i + 1 \in 1 .. n - k /\ (k + 1) + i = k + (i + 1)
      BY <1>3
    <3> QED
      BY <1>9, <3>1, Zenon
  <2> QED
    BY <2>1, <2>2, <2>3, <2>4, Zenon
<1>16. stream' \in Seq(Byte)
  <2>1. l \in 0 .. Len(stream)
    BY <1>2, <1>5, <1>11
  <2>2. SubSeq(stream, l + 1, Len(stream)) \in Seq(Byte)
    BY <1>2, <2>1, Dropping, Zenon
  <2> QED
    BY <1>1, <1>3, <2>2, Zenon
<1>17. reader' # "failed" /\ reader' # "reading" /\ reader' \in {"idle", "reading", "failed"}
  BY <1>1
<1>18. FramesSized'
  BY <1>17, Zenon DEF FramesSized
<1>19. Tiled(Taken' \o (stream' \o rest), Owed')
  <2>1. Taken' = <<>>
    BY <1>17, Zenon DEF Taken
  <2>2. stream' \o rest \in Seq(Byte)
    BY <1>16, Joining
  <2>3. <<>> \o (stream' \o rest) = stream' \o rest
    BY <2>2, ConcatEmptySeq
  <2> QED
    BY <1>12, <1>15, <2>1, <2>3, Zenon
<1>20. buf' \in Seq(Byte)
  BY <1>5, <1>12, Zenon
<1>21. received' \in Seq(Sendable)
  BY <1>13, Zenon
<1> QED
  BY <1>1, <1>7, <1>14, <1>16, <1>17, <1>18, <1>19, <1>20, <1>21, ReaderMoves, Zenon
-----------------------------------------------------------------------------
(* Frames arrive *)

LEMMA FramesStep == FramesInv /\ [FramingNext]_frameVars => FramesInv'
<1> SUFFICES ASSUME FramesInv, [FramingNext]_frameVars
             PROVE  FramesInv'
  OBVIOUS
<1>1. CASE UNCHANGED frameVars
  <2>1. UNCHANGED <<sent, head, body, writer, stream, cut, buf, reader, received>>
    BY <1>1 DEF frameVars
  <2>2. FramesTyped /\ FramesFail
    BY DEF FramesInv
  <2>3. /\ writer' \in {"idle", "vectored", "broken"} /\ cut' \in BOOLEAN
        /\ (cut => cut') /\ (writer' = "broken" => cut')
    BY <2>1, <2>2, Zenon DEF FramesTyped, FramesFail
  <2>4. \A rest \in Seq(Byte) : Rest(rest) => Rest(rest)'
    BY <2>1, Zenon DEF Rest
  <2> QED
    BY <2>1, <2>3, <2>4, NothingWritten, Zenon
<1>2. CASE Write
  BY <1>2, WriteFrameKeeps, FinishFrameKeeps, Zenon DEF Write
<1>3. CASE write_vectored
  BY <1>3, VectoredKeeps, Zenon
<1>4. CASE WriteFails
  BY <1>4, WriteFailsKeeps, Zenon
<1>5. CASE Close
  BY <1>5, CloseKeeps, Zenon
<1>6. CASE ReadLength
  BY <1>6, ReadLengthKeeps, Zenon
<1>7. CASE ReadPayload
  BY <1>7, ReadPayloadKeeps, Zenon
<1>8. CASE ReadEnds
  BY <1>8, ReadEndsKeeps, Zenon
<1> QED
  BY <1>1, <1>2, <1>3, <1>4, <1>5, <1>6, <1>7, <1>8, Zenon DEF FramingNext

LEMMA InvArrives == FramesInv => FramesArrive
<1> SUFFICES ASSUME FramesInv PROVE FramesArrive
  OBVIOUS
<1>1. FramesTyped /\ FramesOrdered /\ FramesFail /\ FramesSized /\ FramesOwed
  BY DEF FramesInv
<1>2. sent \in Seq(Sendable) /\ received \in Seq(Sendable) /\ stream \in Seq(Byte)
  BY <1>1, Zenon DEF FramesTyped
<1>3. Len(received) <= Len(sent) /\ received = SubSeq(sent, 1, Len(received))
  <2> DEFINE k == Len(received)
             n == Len(sent)
             b == SubSeq(sent, 1, k)
  <2>1. k \in Nat /\ n \in Nat /\ k <= n
    BY <1>1, <1>2 DEF FramesOrdered
  <2>2. k \in 0 .. n
    <3> HIDE DEF k, n
    <3> QED
      BY <2>1
  <2>3. b \in Seq(Sendable) /\ Len(b) = k /\ \A j \in 1 .. k : b[j] = sent[j]
    BY <1>2, <2>2, Taking, Zenon
  <2>4. \A j \in 1 .. k : received[j] = sent[j]
    BY <1>1, Zenon DEF FramesOrdered
  <2> HIDE DEF b
  <2>5. Len(received) = Len(b) /\ \A j \in 1 .. Len(received) : received[j] = b[j]
    BY <2>3, <2>4, Zenon
  <2>6. received = b
    BY <1>2, <2>3, <2>5, SeqEqual
  <2> QED
    BY <2>1, <2>6, Zenon DEF b
<1>4. StreamExact
  <2> SUFFICES ASSUME writer = "idle", reader = "idle"
               PROVE  stream = Joined(Owed)
    BY Zenon DEF StreamExact, Owed, Frame
  <2>1. reader # "failed" /\ reader # "reading"
    OBVIOUS
  <2>2. PICK rest \in Seq(Byte) : Rest(rest) /\ Tiled(Taken \o (stream \o rest), Owed)
    BY <1>1, <2>1, Zenon DEF FramesOwed
  <2>3. rest = <<>> /\ Taken = <<>>
    BY <2>1, <2>2, Zenon DEF Rest, Taken
  <2>4. stream \o <<>> = stream /\ <<>> \o stream = stream
    BY <1>2, ConcatEmptySeq
  <2>5. Tiled(stream, Owed)
    BY <2>2, <2>3, <2>4, Zenon
  <2>6. Owed \in Seq(Seq(Byte))
    BY <1>1, OwedParts, Zenon
  <2> QED
    BY <1>2, <2>5, <2>6, TiledIsJoined, Zenon
<1> QED
  BY <1>1, <1>3, <1>4, Zenon DEF FramesArrive, FramesInOrder, FramesFail

\* However the writes are split and wherever the stream is lost, the payloads
\* read_frame_into returns are those handed to write_frame and finish_frame, in
\* order and whole, the reader fails only when the stream was lost, and between
\* writes the stream holds exactly the frames not yet read.
THEOREM FramesAlwaysArrive == FramingSpec => []FramesArrive
<1>1. FramingInit => FramesInv
  BY FramesStart
<1>2. FramesInv /\ [FramingNext]_frameVars => FramesInv'
  BY FramesStep
<1>3. FramesInv => FramesArrive
  BY InvArrives
<1> QED
  BY <1>1, <1>2, <1>3, PTL DEF FramingSpec
=============================================================================
