--------------------------- MODULE CleanLineProofs ---------------------------
(***************************************************************************)
(* Theorems about SerialLine on a line that carries what was sent: no bit  *)
(* has gone wrong, and what comes between the frames holds neither framing *)
(* nor escape bytes.  Then both receivers find every frame, in order,      *)
(* however its bytes are cut into reads.                                   *)
(***************************************************************************)
EXTENDS LineProofs, SequenceTheorems, FiniteSetTheorems

-----------------------------------------------------------------------------
(* Sequences *)

LEMMA ShiftConcat ==
  ASSUME NEW V, NEW s \in Seq(V), NEW t \in Seq(V), NEW n \in 0 .. Len(s)
  PROVE  Shift(s \o t, n) = Shift(s, n) \o t
  <1> DEFINE a == Shift(s \o t, n)
             b == Shift(s, n) \o t
  <1>1. s \o t \in Seq(V) /\ Len(s \o t) = Len(s) + Len(t)
    BY ConcatType
  <1>2. Len(s) \in Nat /\ Len(t) \in Nat /\ n \in Nat
    OBVIOUS
  <1>3. n \in 0 .. Len(s \o t)
    BY <1>1, <1>2
  <1>4. /\ a \in Seq(V) /\ Len(a) = (Len(s) + Len(t)) - n
        /\ \A i \in 1 .. (Len(s) + Len(t)) - n : a[i] = (s \o t)[i + n]
    <2>1. PICK x \in Seq(V) : x = s \o t /\ Len(x) = Len(s) + Len(t)
      BY <1>1
    <2>2. n \in 0 .. Len(x)
      BY <1>3, <2>1
    <2>3. /\ Shift(x, n) \in Seq(V) /\ Len(Shift(x, n)) = Len(x) - n
          /\ \A i \in 1 .. Len(x) - n : Shift(x, n)[i] = x[i + n]
      BY <2>2, ShiftType
    <2> QED
      BY <2>1, <2>3
  <1>5. /\ Shift(s, n) \in Seq(V) /\ Len(Shift(s, n)) = Len(s) - n
        /\ \A i \in 1 .. Len(s) - n : Shift(s, n)[i] = s[i + n]
    BY ShiftType
  <1>6. b \in Seq(V) /\ Len(b) = (Len(s) - n) + Len(t)
    BY <1>5, ConcatType
  <1>7. ASSUME NEW i \in 1 .. (Len(s) + Len(t)) - n PROVE a[i] = b[i]
    <2>1. CASE i <= Len(s) - n
      <3>1. b[i] = Shift(s, n)[i] /\ i \in 1 .. Len(s) - n
        BY <1>2, <1>5, <2>1
      <3>2. i + n \in 1 .. Len(s)
        BY <1>2, <2>1
      <3>3. (s \o t)[i + n] = s[i + n]
        BY <3>2
      <3> QED
        BY <1>4, <1>5, <3>1, <3>3
    <2>2. CASE i > Len(s) - n
      <3>1. i + n \in Len(s) + 1 .. Len(s) + Len(t)
        BY <1>2, <2>2
      <3>2. (s \o t)[i + n] = t[(i + n) - Len(s)]
        BY <3>1
      <3>3. b[i] = t[i - (Len(s) - n)]
        <4> DEFINE c == Shift(s, n)
        <4> HIDE DEF c
        <4>1. c \in Seq(V) /\ Len(c) = Len(s) - n
          BY <1>5 DEF c
        <4>2. i \in Len(c) + 1 .. Len(c) + Len(t)
          BY <1>2, <2>2, <4>1
        <4>3. (c \o t)[i] = t[i - Len(c)]
          BY <4>1, <4>2
        <4> QED
          BY <4>1, <4>3 DEF c
      <3>4. (i + n) - Len(s) = i - (Len(s) - n)
        BY <1>2
      <3> QED
        BY <1>4, <3>2, <3>3, <3>4
    <2> HIDE DEF a, b
    <2> QED
      BY <1>2, <2>1, <2>2
  <1>8. Len(a) = Len(b)
    BY <1>2, <1>4, <1>6
  <1> HIDE DEF a, b
  <1>9. \A i \in 1 .. Len(a) : a[i] = b[i]
    BY <1>4, <1>7
  <1>10. a = b
    BY <1>4, <1>6, <1>8, <1>9, SeqEqual
  <1> QED
    BY <1>10 DEF a, b

LEMMA ShiftShift ==
  ASSUME NEW V, NEW s \in Seq(V), NEW n \in 0 .. Len(s), NEW k \in 0 .. Len(s) - n
  PROVE  Shift(Shift(s, n), k) = Shift(s, n + k)
  <1> DEFINE a == Shift(s, n)
             b == Shift(a, k)
             c == Shift(s, n + k)
  <1>1. Len(s) \in Nat /\ n \in Nat /\ k \in Nat /\ n + k \in 0 .. Len(s)
    OBVIOUS
  <1>2. /\ a \in Seq(V) /\ Len(a) = Len(s) - n
        /\ \A i \in 1 .. Len(s) - n : a[i] = s[i + n]
    BY ShiftType
  <1>3. /\ c \in Seq(V) /\ Len(c) = Len(s) - (n + k)
        /\ \A i \in 1 .. Len(s) - (n + k) : c[i] = s[i + (n + k)]
    BY <1>1, ShiftType
  <1> HIDE DEF a, c
  <1>4. /\ b \in Seq(V) /\ Len(b) = Len(a) - k
        /\ \A i \in 1 .. Len(a) - k : b[i] = a[i + k]
    <2>1. a \in Seq(V) /\ k \in 0 .. Len(a)
      BY <1>2
    <2> QED
      BY ONLY <2>1, ShiftType
  <1> HIDE DEF b
  <1>5. Len(b) = Len(c)
    BY <1>1, <1>2, <1>3, <1>4
  <1>6. ASSUME NEW i \in 1 .. Len(b) PROVE b[i] = c[i]
    <2>1. /\ i \in 1 .. Len(a) - k /\ i + k \in 1 .. Len(s) - n
          /\ i \in 1 .. Len(s) - (n + k) /\ (i + k) + n = i + (n + k)
      BY <1>1, <1>2, <1>4
    <2> QED
      BY <1>2, <1>3, <1>4, <2>1
  <1>7. b = c
    BY <1>3, <1>4, <1>5, <1>6, SeqEqual
  <1> QED
    BY <1>7 DEF a, b, c

LEMMA ShiftEnds ==
  ASSUME NEW V, NEW s \in Seq(V)
  PROVE  Shift(s, 0) = s /\ Shift(s, Len(s)) = <<>>
  <1>1. /\ Shift(s, 0) \in Seq(V) /\ Len(Shift(s, 0)) = Len(s) - 0
        /\ \A i \in 1 .. Len(s) - 0 : Shift(s, 0)[i] = s[i + 0]
    BY ShiftType
  <1>2. Shift(s, Len(s)) \in Seq(V) /\ Len(Shift(s, Len(s))) = Len(s) - Len(s)
    BY ShiftType
  <1>3. Shift(s, Len(s)) = <<>>
    BY <1>2
  <1> DEFINE a == Shift(s, 0)
  <1> HIDE DEF a
  <1>4. a \in Seq(V) /\ Len(a) = Len(s) /\ \A i \in 1 .. Len(s) : a[i] = s[i]
    BY <1>1 DEF a
  <1>5. a = s
    BY <1>4
  <1> QED
    BY <1>3, <1>5 DEF a

\* A sequence is what it begins with and the rest.
LEMMA CutInTwo ==
  ASSUME NEW V, NEW s \in Seq(V), NEW n \in 0 .. Len(s)
  PROVE  SubSeq(s, 1, n) \o Shift(s, n) = s
  <1> DEFINE a == SubSeq(s, 1, n)
             b == Shift(s, n)
  <1>1. a \in Seq(V) /\ Len(a) = n /\ \A i \in 1 .. n : a[i] = s[i]
    OBVIOUS
  <1>2. /\ b \in Seq(V) /\ Len(b) = Len(s) - n
        /\ \A i \in 1 .. Len(s) - n : b[i] = s[i + n]
    BY ShiftType
  <1> HIDE DEF a, b
  <1>6. Len(s) \in Nat /\ n \in Nat /\ n + (Len(s) - n) = Len(s)
    OBVIOUS
  <1>3. a \o b \in Seq(V) /\ Len(a \o b) = Len(s)
    <2>1. a \o b \in Seq(V) /\ Len(a \o b) = Len(a) + Len(b)
      BY <1>1, <1>2, ConcatType
    <2> QED
      BY <1>1, <1>2, <1>6, <2>1
  <1>4. ASSUME NEW i \in 1 .. Len(s) PROVE (a \o b)[i] = s[i]
    <2>1. CASE i <= n
      BY <1>1, <1>2, <2>1
    <2>2. CASE ~(i <= n)
      <3>1. i - n \in 1 .. Len(s) - n /\ (i - n) + n = i
        BY <2>2
      <3>2. (a \o b)[i] = b[i - n]
        BY <1>1, <1>2, <2>2
      <3> QED
        BY <1>2, <3>1, <3>2
    <2> QED
      BY <1>6, <2>1, <2>2
  <1>5. a \o b = s
    BY <1>3, <1>4, SeqEqual
  <1> QED
    BY <1>5 DEF a, b

LEMMA ConcatAssociates ==
  \A a, b, c \in Seq(Byte) : (a \o b) \o c = a \o (b \o c)
  OBVIOUS

LEMMA ConcatFirst ==
  \A a, b \in Seq(Byte) : \A i \in 1 .. Len(a) : (a \o b)[i] = a[i]
  OBVIOUS

LEMMA ConcatEmpty ==
  ASSUME NEW V, NEW s \in Seq(V)
  PROVE  s \o <<>> = s /\ <<>> \o s = s
  OBVIOUS

LEMMA TailIsShift ==
  ASSUME NEW V, NEW s \in Seq(V), s # <<>>
  PROVE  Tail(s) = Shift(s, 1) /\ Head(s) = s[1] /\ 1 \in 1 .. Len(s)
  BY DEF Shift

-----------------------------------------------------------------------------
(* What is ahead on the line *)

\* No listener takes b for the beginning of a frame or of an escaped byte.
Quiet(b) == ~IsFramingByte(b) /\ b # EscByte

\* The bytes s begin with one byte that is part of no frame, with the start of
\* the frame f, or with what stands on the wire for the byte b.
NoiseFirst(s)    == s # <<>> /\ Quiet(s[1])
StartFirst(s, f) == s # <<>> /\ IsFramingByte(s[1]) /\ s[1] = f[1]
PlainFirst(s, b) == s # <<>> /\ Quiet(s[1]) /\ s[1] = b
PairFirst(s, b)  == /\ Len(s) >= 2 /\ s[1] = EscByte /\ ~Quiet(b)
                    /\ ~IsFramingByte(s[2]) /\ Toggle(s[2]) = b

\* More of frame k + 1 of fs is to come when its first m bytes are known.
Within(fs, k, m) == k < Len(fs) /\ 0 < m /\ m < Len(fs[k + 1])

\* R has the triple of k frames and m bytes more, or of the whole of frame k + 1.
Has(R, fs, s, k, m) == IF m = Len(fs[k + 1]) THEN <<s, k + 1, 0>> \in R
                                             ELSE <<s, k, m>> \in R

\* R tells, for the bytes s and what is known before them, how they begin, and
\* it has what is left after that.
Explains(R, fs, s, k, m) ==
  /\ s \in Seq(Byte) /\ k \in 0 .. Len(fs) /\ m \in Nat
  /\ \/ s = <<>> /\ k = Len(fs) /\ m = 0
     \/ m = 0 /\ NoiseFirst(s) /\ <<Shift(s, 1), k, 0>> \in R
     \/ /\ m = 0 /\ k < Len(fs) /\ StartFirst(s, fs[k + 1])
        /\ <<Shift(s, 1), k, 1>> \in R
     \/ /\ Within(fs, k, m) /\ PlainFirst(s, fs[k + 1][m + 1])
        /\ Has(R, fs, Shift(s, 1), k, m + 1)
     \/ /\ Within(fs, k, m) /\ PairFirst(s, fs[k + 1][m + 1])
        /\ Has(R, fs, Shift(s, 2), k, m + 1)

Closed(R, fs) == \A s, k, m : <<s, k, m>> \in R => Explains(R, fs, s, k, m)

\* The bytes s are what follows the first k frames of fs and the first m bytes
\* of the next: its other bytes, escaped, and then the other frames, each after
\* any number of quiet bytes.
Ahead(fs, s, k, m) == \E R : <<s, k, m>> \in R /\ Closed(R, fs)

\* As Has, of Ahead.
AheadOf(fs, s, k, m) == IF m = Len(fs[k + 1]) THEN Ahead(fs, s, k + 1, 0)
                                              ELSE Ahead(fs, s, k, m)

AheadFirst(fs, s, k, m) ==
  /\ s \in Seq(Byte) /\ k \in 0 .. Len(fs) /\ m \in Nat
  /\ \/ s = <<>> /\ k = Len(fs) /\ m = 0
     \/ m = 0 /\ NoiseFirst(s) /\ Ahead(fs, Shift(s, 1), k, 0)
     \/ /\ m = 0 /\ k < Len(fs) /\ StartFirst(s, fs[k + 1])
        /\ Ahead(fs, Shift(s, 1), k, 1)
     \/ /\ Within(fs, k, m) /\ PlainFirst(s, fs[k + 1][m + 1])
        /\ AheadOf(fs, Shift(s, 1), k, m + 1)
     \/ /\ Within(fs, k, m) /\ PairFirst(s, fs[k + 1][m + 1])
        /\ AheadOf(fs, Shift(s, 2), k, m + 1)

\* What is ahead is ahead in one of five ways.
LEMMA AheadBegins ==
  ASSUME NEW fs, NEW s, NEW k, NEW m, Ahead(fs, s, k, m)
  PROVE  AheadFirst(fs, s, k, m)
  <1>1. PICK R : <<s, k, m>> \in R /\ Closed(R, fs)
    BY DEF Ahead
  <1>2. Explains(R, fs, s, k, m)
    BY <1>1 DEF Closed
  <1>3. \A t, i, j : <<t, i, j>> \in R => Ahead(fs, t, i, j)
    BY <1>1 DEF Ahead
  <1>4. \A t, i, j : Has(R, fs, t, i, j) => AheadOf(fs, t, i, j)
    BY <1>3 DEF Has, AheadOf
  <1> QED
    BY <1>2, <1>3, <1>4 DEF Explains, AheadFirst

\* And whatever begins in one of the five ways is ahead.
LEMMA AheadFrom ==
  ASSUME NEW fs, NEW s, NEW k, NEW m, AheadFirst(fs, s, k, m)
  PROVE  Ahead(fs, s, k, m)
  <1> DEFINE All == {<<t, i, j>> : t \in Seq(Byte), i \in 0 .. Len(fs), j \in Nat}
             R == {x \in All : \/ x = <<s, k, m>>
                               \/ Ahead(fs, x[1], x[2], x[3])}
  <1>1. s \in Seq(Byte) /\ k \in 0 .. Len(fs) /\ m \in Nat
    BY DEF AheadFirst
  <1>2. ASSUME NEW t, NEW i, NEW j, Ahead(fs, t, i, j)
        PROVE  <<t, i, j>> \in R
    <2>1. AheadFirst(fs, t, i, j)
      BY <1>2, AheadBegins
    <2>2. t \in Seq(Byte) /\ i \in 0 .. Len(fs) /\ j \in Nat
      BY <2>1 DEF AheadFirst
    <2>3. <<t, i, j>> \in All
      BY <2>2
    <2> HIDE DEF All
    <2> QED
      BY <1>2, <2>3
  <1>3. <<s, k, m>> \in R
    <2>1. <<s, k, m>> \in All
      BY <1>1
    <2> HIDE DEF All
    <2> QED
      BY <2>1
  <1>4. ASSUME NEW t, NEW i, NEW j, <<t, i, j>> \in R
        PROVE  AheadFirst(fs, t, i, j)
    <2> HIDE DEF All
    <2>1. <<t, i, j>> = <<s, k, m>> \/ Ahead(fs, t, i, j)
      BY <1>4
    <2>2. CASE <<t, i, j>> = <<s, k, m>>
      <3>1. t = s /\ i = k /\ j = m
        BY <2>2
      <3> QED
        BY <3>1
    <2>3. CASE Ahead(fs, t, i, j)
      BY <2>3, AheadBegins
    <2> QED
      BY <2>1, <2>2, <2>3
  <1> HIDE DEF R, All
  <1>5. \A t, i, j : AheadOf(fs, t, i, j) => Has(R, fs, t, i, j)
    BY <1>2 DEF Has, AheadOf
  <1>6. \A t, i, j : AheadFirst(fs, t, i, j) => Explains(R, fs, t, i, j)
    BY <1>2, <1>5 DEF Explains, AheadFirst
  <1>7. Closed(R, fs)
    BY <1>4, <1>6 DEF Closed
  <1> QED
    BY <1>3, <1>7 DEF Ahead

\* A sequence made piece by piece: if putting ss[i] before what is in A[i] gives
\* something in A[i - 1], putting all of it before what is in A[n] gives
\* something in A[0].
LEMMA PieceByPiece ==
  ASSUME NEW n \in Nat, NEW ss, \A i \in 1 .. n : ss[i] \in Seq(Byte),
         NEW u, \A i \in 0 .. n : u[i] \in Seq(Byte),
         u[0] = <<>>, \A i \in 1 .. n : u[i] = u[i - 1] \o ss[i],
         NEW A, \A i \in 0 .. n : A[i] \subseteq Seq(Byte),
         \A i \in 1 .. n : \A s \in A[i] : ss[i] \o s \in A[i - 1]
  PROVE  \A s \in A[n] : u[n] \o s \in A[0]
  <1> DEFINE Good == {i \in 0 .. n : \A s \in A[i] : u[i] \o s \in A[0]}
  <1>1. 0 \in Good
    <2>1. 0 \in 0 .. n
      OBVIOUS
    <2>2. ASSUME NEW s \in A[0] PROVE u[0] \o s \in A[0]
      <3>1. s \in Seq(Byte)
        BY <2>1
      <3>2. <<>> \o s = s
        BY <3>1, ConcatEmpty
      <3> QED
        BY <3>2
    <2> QED
      BY <2>1, <2>2
  <1>2. ASSUME NEW i \in 1 .. n, i - 1 \in Good PROVE i \in Good
    <2>1. i \in 0 .. n /\ i - 1 \in 0 .. n
      OBVIOUS
    <2>2. ASSUME NEW s \in A[i] PROVE u[i] \o s \in A[0]
      <3> DEFINE v == u[i - 1]
                 w == ss[i]
      <3>1. s \in Seq(Byte) /\ v \in Seq(Byte) /\ w \in Seq(Byte)
        BY <2>1
      <3>2. u[i] = v \o w /\ w \o s \in A[i - 1]
        OBVIOUS
      <3>3. v \o (w \o s) \in A[0]
        BY <1>2, <3>2
      <3> HIDE DEF v, w
      <3>4. (v \o w) \o s = v \o (w \o s)
        BY <3>1, ConcatAssociates, ZenonT(60)
      <3> QED
        BY <3>2, <3>3, <3>4
    <2> QED
      BY <2>1, <2>2
  <1>3. n \in Good
    <2> HIDE DEF Good
    <2>1. 0 .. n \subseteq Good
      BY <1>1, <1>2, NumbersUpTo
    <2> QED
      BY <2>1
  <1> QED
    BY <1>3

\* Quiet bytes before what is ahead of the next frame.
LEMMA NoiseAhead ==
  ASSUME NEW fs, NEW k, NEW q \in Seq(Byte), \A i \in 1 .. Len(q) : Quiet(q[i]),
         NEW s, Ahead(fs, s, k, 0)
  PROVE  Ahead(fs, q \o s, k, 0)
  <1> DEFINE n  == Len(q)
             ss == [i \in 1 .. n |-> <<q[i]>>]
             u  == [i \in 0 .. n |-> SubSeq(q, 1, i)]
             After == {t \in Seq(Byte) : Ahead(fs, t, k, 0)}
             A  == [i \in 0 .. n |-> After]
  <1>1. n \in Nat /\ \A i \in 1 .. n : q[i] \in Byte /\ Quiet(q[i])
    OBVIOUS
  <1>2. \A i \in 1 .. n : ss[i] \in Seq(Byte)
    BY <1>1
  <1>3. \A i \in 0 .. n : u[i] \in Seq(Byte)
    BY SubSeqType
  <1>4. u[0] = <<>>
    BY <1>1
  <1>5. ASSUME NEW i \in 1 .. n PROVE u[i] = u[i - 1] \o ss[i]
    <2> DEFINE a == SubSeq(q, 1, i - 1)
               b == SubSeq(q, 1, i)
               c == <<q[i]>>
    <2>1. i \in 0 .. n /\ i - 1 \in 0 .. n
      BY <1>1
    <2>2. /\ a \in Seq(Byte) /\ Len(a) = i - 1
          /\ \A j \in 1 .. i - 1 : a[j] = q[j]
      BY <2>1
    <2>3. b \in Seq(Byte) /\ Len(b) = i /\ \A j \in 1 .. i : b[j] = q[j]
      BY <2>1
    <2>4. c \in Seq(Byte) /\ Len(c) = 1 /\ c[1] = q[i]
      BY <1>1
    <2> HIDE DEF a, b, c
    <2>5. a \o c \in Seq(Byte) /\ Len(a \o c) = i
      <3>1. (i - 1) + 1 = i
        BY <2>1
      <3>2. a \o c \in Seq(Byte) /\ Len(a \o c) = Len(a) + Len(c)
        BY <2>2, <2>4, ConcatType, Zenon
      <3> QED
        BY <2>2, <2>4, <3>1, <3>2
    <2>6. ASSUME NEW j \in 1 .. i PROVE (a \o c)[j] = b[j]
      <3>1. CASE j = i
        <4>1. j = Len(a) + 1 /\ 1 \in 1 .. Len(c)
          BY <2>1, <2>2, <2>4, <3>1
        <4>2. (a \o c)[j] = c[1]
          <5>1. \A x \in 1 .. Len(c) : (a \o c)[Len(a) + x] = c[x]
            BY <2>2, <2>4, BeginConcat
          <5> QED
            BY <4>1, <5>1
        <4> QED
          BY <2>3, <2>4, <3>1, <4>2
      <3>2. CASE j # i
        <4>1. j \in 1 .. i - 1
          BY <2>1, <3>2
        <4>2. (a \o c)[j] = a[j]
          BY <2>2, <2>4, <4>1, ConcatFirst
        <4> QED
          BY <2>2, <2>3, <4>1, <4>2
      <3> QED
        BY <3>1, <3>2
    <2>7. a \o c = b
      BY <2>3, <2>5, <2>6, SeqEqual
    <2> QED
      BY <2>1, <2>7 DEF a, b, c
  <1>6. ASSUME NEW i \in 1 .. n, NEW t \in A[i] PROVE ss[i] \o t \in A[i - 1]
    <2> DEFINE b == q[i]
               x == <<b>> \o t
    <2>1. i \in 0 .. n /\ i - 1 \in 0 .. n /\ b \in Byte /\ Quiet(b)
      BY <1>1
    <2>2. t \in Seq(Byte) /\ Ahead(fs, t, k, 0)
      BY <2>1
    <2> HIDE DEF b
    <2>3. x \in Seq(Byte) /\ x # <<>> /\ x[1] = b
      BY <2>1, <2>2
    <2>4. Shift(x, 1) = t
      <3>1. Tail(x) = t
        BY <2>1, <2>2
      <3> QED
        BY <2>3, <3>1, TailIsShift
    <2> HIDE DEF x
    <2>5. k \in 0 .. Len(fs)
      BY <2>2, AheadBegins DEF AheadFirst
    <2>6. AheadFirst(fs, x, k, 0)
      BY <2>1, <2>2, <2>3, <2>4, <2>5 DEF AheadFirst, NoiseFirst
    <2>7. Ahead(fs, x, k, 0)
      BY <2>6, AheadFrom
    <2> QED
      BY <2>1, <2>3, <2>7 DEF b, x
  <1>7. \A i \in 0 .. n : A[i] \subseteq Seq(Byte)
    OBVIOUS
  <1>8. s \in Seq(Byte)
    BY AheadBegins DEF AheadFirst
  <1>9. s \in A[n] /\ (\A t \in A[0] : Ahead(fs, t, k, 0)) /\ u[n] = q
    <2>1. SubSeq(q, 1, n) = q
      OBVIOUS
    <2> QED
      BY <1>1, <1>8, <2>1
  <1> HIDE DEF n, ss, u, A
  <1>10. \A t \in A[n] : u[n] \o t \in A[0]
    BY ONLY <1>1, <1>2, <1>3, <1>4, <1>5, <1>6, <1>7, PieceByPiece
  <1> QED
    BY <1>9, <1>10

\* A byte within a frame, escaped, before what is ahead after it.
LEMMA ByteAhead ==
  ASSUME NEW fs, NEW k \in 0 .. Len(fs), NEW m \in Nat, Within(fs, k, m),
         NEW b \in Byte, b = fs[k + 1][m + 1],
         NEW t \in Seq(Byte), AheadOf(fs, t, k, m + 1)
  PROVE  /\ EscapedByte(b) \o t \in Seq(Byte)
         /\ Ahead(fs, EscapedByte(b) \o t, k, m)
  <1> DEFINE x == EscapedByte(b) \o t
  <1>1. CASE Quiet(b) /\ EscapedByte(b) = <<b>>
    <2>1. x = <<b>> \o t
      BY <1>1
    <2> HIDE DEF x
    <2>2. x \in Seq(Byte) /\ x # <<>> /\ x[1] = b /\ Tail(x) = t
      BY <2>1
    <2>3. Shift(x, 1) = t
      BY <2>2, TailIsShift
    <2>4. AheadFirst(fs, x, k, m)
      BY <1>1, <2>2, <2>3 DEF AheadFirst, PlainFirst
    <2>5. Ahead(fs, x, k, m)
      BY <2>4, AheadFrom
    <2> QED
      BY <2>2, <2>5 DEF x
  <1>2. CASE /\ ~Quiet(b)
             /\ EscapedByte(b) = <<EscByte, Toggle(b)>>
             /\ ~IsFramingByte(Toggle(b)) /\ Toggle(b) \in Byte
    <2>0. EscByte \in Byte
      BY DEF EscByte, Byte
    <2>1. x = <<EscByte, Toggle(b)>> \o t
      BY <1>2
    <2> HIDE DEF x
    <2>2. /\ x \in Seq(Byte) /\ Len(x) = Len(t) + 2 /\ Len(t) \in Nat
          /\ x[1] = EscByte /\ x[2] = Toggle(b)
          /\ \A j \in 1 .. Len(t) : x[j + 2] = t[j]
      BY <1>2, <2>0, <2>1
    <2>3. 2 \in 0 .. Len(x) /\ Len(x) - 2 = Len(t)
      BY <2>2
    <2>4. /\ Shift(x, 2) \in Seq(Byte) /\ Len(Shift(x, 2)) = Len(t)
          /\ \A j \in 1 .. Len(t) : Shift(x, 2)[j] = x[j + 2]
      <3>1. /\ Shift(x, 2) \in Seq(Byte) /\ Len(Shift(x, 2)) = Len(x) - 2
            /\ \A j \in 1 .. Len(x) - 2 : Shift(x, 2)[j] = x[j + 2]
        BY <2>2, <2>3, ShiftType
      <3> QED
        BY <2>3, <3>1
    <2>5. Shift(x, 2) = t
      <3>1. \A j \in 1 .. Len(t) : Shift(x, 2)[j] = t[j]
        BY <2>2, <2>4
      <3> QED
        BY <2>4, <3>1, SeqEqual
    <2>6. Toggle(Toggle(b)) = b
      BY ToggleByte
    <2>7. PairFirst(x, b)
      BY <1>2, <2>2, <2>6 DEF PairFirst
    <2>8. AheadFirst(fs, x, k, m)
      BY <2>2, <2>5, <2>7 DEF AheadFirst
    <2>9. Ahead(fs, x, k, m)
      BY <2>8, AheadFrom
    <2> QED
      BY <2>2, <2>9 DEF x
  <1> QED
    BY <1>1, <1>2, EscapedByteCases DEF Quiet

\* A frame, as it stands on the wire, before what is ahead of the next one.
LEMMA FrameAhead ==
  ASSUME NEW fs, NEW k \in 0 .. Len(fs), k < Len(fs),
         NEW f \in Seq(Byte), f = fs[k + 1], Len(f) >= 2, IsFramingByte(f[1]),
         NEW s, Ahead(fs, s, k + 1, 0)
  PROVE  Ahead(fs, OnWire(f) \o s, k, 0)
  <1> DEFINE n == Len(f) - 1
             rest == Tail(f)
             ss == [i \in 1 .. n |-> EscapedByte(rest[i])]
             A  == [i \in 0 .. n |-> {t \in Seq(Byte) : AheadOf(fs, t, k, i + 1)}]
  <1>1. /\ n \in Nat /\ n >= 1 /\ rest \in Seq(Byte) /\ Len(rest) = n
        /\ \A i \in 1 .. n : rest[i] = f[i + 1] /\ rest[i] \in Byte
    OBVIOUS
  <1>2. PICK u \in [0 .. Len(rest) -> Seq(Byte)] :
          /\ Escape(rest) = u[Len(rest)]
          /\ u[0] = <<>>
          /\ \A i \in 1 .. Len(rest) : u[i] = u[i - 1] \o EscapedByte(rest[i])
    BY <1>1, EscapeSteps, Zenon
  <1> HIDE DEF rest
  <1>3. /\ u[0] = <<>> /\ Escape(rest) = u[n]
        /\ \A i \in 0 .. n : u[i] \in Seq(Byte)
        /\ \A i \in 1 .. n : u[i] = u[i - 1] \o ss[i]
    BY <1>1, <1>2
  <1>4. \A i \in 1 .. n : ss[i] \in Seq(Byte)
    BY <1>1, EscapedByteType
  <1>5. \A i \in 0 .. n : A[i] \subseteq Seq(Byte)
    OBVIOUS
  <1>6. ASSUME NEW i \in 1 .. n, NEW t \in A[i] PROVE ss[i] \o t \in A[i - 1]
    <2>1. i \in 0 .. n /\ i - 1 \in 0 .. n /\ i \in Nat /\ (i - 1) + 1 = i
      BY <1>1
    <2>2. t \in Seq(Byte) /\ AheadOf(fs, t, k, i + 1)
      BY <2>1
    <2>3. rest[i] \in Byte /\ rest[i] = fs[k + 1][i + 1]
      BY <1>1
    <2>4. Within(fs, k, i) /\ i # Len(fs[k + 1])
      BY <2>1 DEF Within
    <2>5. /\ EscapedByte(rest[i]) \o t \in Seq(Byte)
          /\ Ahead(fs, EscapedByte(rest[i]) \o t, k, i)
      BY <2>1, <2>2, <2>3, <2>4, ByteAhead
    <2>6. AheadOf(fs, EscapedByte(rest[i]) \o t, k, (i - 1) + 1)
      BY <2>1, <2>4, <2>5 DEF AheadOf
    <2> QED
      BY <2>1, <2>5, <2>6
  <1>7. s \in Seq(Byte)
    BY AheadBegins DEF AheadFirst
  <1>8. s \in A[n]
    <2>1. n \in 0 .. n /\ n + 1 = Len(fs[k + 1])
      BY <1>1
    <2>2. AheadOf(fs, s, k, n + 1)
      BY <2>1 DEF AheadOf
    <2> QED
      BY <1>7, <2>1, <2>2
  <1>9. \A t \in A[0] : t \in Seq(Byte) /\ Ahead(fs, t, k, 1)
    <2>1. 0 \in 0 .. n /\ 0 + 1 = 1 /\ 1 # Len(fs[k + 1])
      BY <1>1
    <2> QED
      BY <2>1 DEF AheadOf
  <1> HIDE DEF A, ss
  <1>10. \A t \in A[n] : u[n] \o t \in A[0]
    <2> HIDE DEF n
    <2>1. n \in Nat
      BY <1>1
    <2> QED
      BY ONLY <2>1, <1>3, <1>4, <1>5, <1>6, PieceByPiece
  <1>11. /\ Escape(rest) \o s \in Seq(Byte)
         /\ Ahead(fs, Escape(rest) \o s, k, 1)
    BY <1>3, <1>8, <1>9, <1>10
  <1> DEFINE y == Escape(rest) \o s
             x == OnWire(f) \o s
  <1>12. x = (<<f[1]>> \o Escape(rest)) \o s
    BY DEF OnWire, rest
  <1>13. x = <<f[1]>> \o y
    <2>1. <<f[1]>> \in Seq(Byte) /\ Escape(rest) \in Seq(Byte)
      BY <1>1, EscapeType
    <2>2. PICK a \in Seq(Byte) : a = <<f[1]>>
      BY <2>1
    <2>3. PICK b \in Seq(Byte) : b = Escape(rest)
      BY <2>1
    <2>4. (a \o b) \o s = a \o (b \o s)
      BY ONLY <1>7, <2>2, <2>3, ConcatAssociates, ZenonT(60)
    <2> HIDE DEF x
    <2> QED
      BY <1>12, <2>2, <2>3, <2>4
  <1> HIDE DEF x, y
  <1>14. y \in Seq(Byte) /\ Ahead(fs, y, k, 1)
    BY <1>11 DEF y
  <1>15. x \in Seq(Byte) /\ x # <<>> /\ x[1] = f[1] /\ Tail(x) = y
    BY <1>13, <1>14
  <1>16. Shift(x, 1) = y
    BY <1>15, TailIsShift
  <1>17. AheadFirst(fs, x, k, 0)
    BY <1>14, <1>15, <1>16 DEF AheadFirst, StartFirst
  <1>18. Ahead(fs, x, k, 0)
    BY <1>17, AheadFrom
  <1> QED
    BY <1>18 DEF x

\* The frames fs on a line, the i-th and what comes before it making ss[i].
LEMMA FramesAhead ==
  ASSUME NEW fs, NEW ss \in Seq(Seq(Byte)), Len(fs) = Len(ss),
         \A i \in 1 .. Len(ss) : \A s :
           Ahead(fs, s, i, 0) => Ahead(fs, ss[i] \o s, i - 1, 0)
  PROVE  Ahead(fs, FlattenSeq(ss), 0, 0)
  <1> DEFINE n == Len(ss)
             A == [i \in 0 .. n |-> {t \in Seq(Byte) : Ahead(fs, t, i, 0)}]
  <1>1. n \in Nat /\ \A i \in 1 .. n : ss[i] \in Seq(Byte)
    OBVIOUS
  <1>2. PICK u \in [0 .. n -> Seq(Byte)] :
          /\ FlattenSeq(ss) = u[n]
          /\ u[0] = <<>>
          /\ \A i \in 1 .. n : u[i] = u[i - 1] \o ss[i]
    BY FlattenSteps, Zenon
  <1>3. \A i \in 0 .. n : u[i] \in Seq(Byte)
    OBVIOUS
  <1>4. \A i \in 0 .. n : A[i] \subseteq Seq(Byte)
    OBVIOUS
  <1>5. ASSUME NEW i \in 1 .. n, NEW t \in A[i] PROVE ss[i] \o t \in A[i - 1]
    <2>1. i \in 0 .. n /\ i - 1 \in 0 .. n
      BY <1>1
    <2>2. Ahead(fs, t, i, 0)
      BY <2>1
    <2>3. Ahead(fs, ss[i] \o t, i - 1, 0)
      BY <2>2
    <2>4. ss[i] \o t \in Seq(Byte)
      BY <2>3, AheadBegins DEF AheadFirst
    <2> QED
      BY <2>1, <2>3, <2>4
  <1>6. <<>> \in A[n]
    <2>1. <<>> \in Seq(Byte) /\ n \in 0 .. n /\ Len(fs) = n /\ n \in 0 .. Len(fs)
          /\ 0 \in Nat
      BY <1>1
    <2>2. AheadFirst(fs, <<>>, n, 0)
      BY <2>1 DEF AheadFirst
    <2>3. Ahead(fs, <<>>, n, 0)
      BY <2>2, AheadFrom
    <2> QED
      BY <2>1, <2>3
  <1>7. \A t \in A[0] : Ahead(fs, t, 0, 0)
    BY <1>1
  <1>8. n \in 0 .. n
    BY <1>1
  <1> HIDE DEF n, A
  <1>9. u[n] \o <<>> \in A[0]
    BY ONLY <1>1, <1>2, <1>3, <1>4, <1>5, <1>6, PieceByPiece
  <1>10. u[n] \o <<>> = u[n]
    BY <1>3, <1>8, ConcatEmpty
  <1> QED
    BY <1>2, <1>7, <1>9, <1>10

-----------------------------------------------------------------------------
(* Frames *)

\* What send_msg and next_tx make.
WellFormed(f) ==
  /\ IsFrame(f)
  /\ IsFramingByte(f[1])
  /\ Len(f) = Overhead + f[4]
  /\ ChecksumRight(f, Len(f))

LEMMA FrameWellFormed ==
  ASSUME NEW l, NEW type \in {Start, GwStart}, NEW payload \in Seq(Byte),
         Len(payload) <= PayloadMax
  PROVE  WellFormed(Frame(l, type, payload))
  <1> DEFINE f == Frame(l, type, payload)
             header == <<type, DestOf(l), IF l = "sricd" THEN 2 ELSE 1, Len(payload)>>
             body == header \o payload
             tail == <<Crc16(body) % 256, Crc16(body) \div 256>>
             n == Len(payload)
  <1>1. IsFrame(f)
    BY FrameIsFrame
  <1>2. n \in Nat /\ n \in Byte
    <2>1. n \in Nat /\ PayloadMax \in Nat /\ PayloadMax <= 255
      BY FramingAssumption DEF Byte
    <2>2. n \in Nat /\ n <= 255
      BY <2>1
    <2> HIDE DEF n
    <2> QED
      BY <2>2, InByte
  <1>3. f = body \o tail
    BY DEF Frame, Packed
  <1>4. /\ header \in Seq(Byte) /\ Len(header) = 4
        /\ header[1] = type /\ header[4] = n
    <2>1. type \in Byte /\ DestOf(l) \in Byte
      BY DEF Start, GwStart, DestOf, Byte
    <2>2. (IF l = "sricd" THEN 2 ELSE 1) \in Byte
      BY DEF Byte
    <2> QED
      BY <1>2, <2>1, <2>2
  <1> HIDE DEF header
  <1>5. /\ body \in Seq(Byte) /\ Len(body) = 4 + n
        /\ body[1] = type /\ body[4] = n
    <2>1. body \in Seq(Byte) /\ Len(body) = Len(header) + Len(payload)
      BY <1>4, ConcatType
    <2>2. \A i \in 1 .. Len(header) : body[i] = header[i]
      BY <1>4, ConcatFirst
    <2>3. 1 \in 1 .. Len(header) /\ 4 \in 1 .. Len(header)
      BY <1>4
    <2> QED
      BY <1>4, <2>1, <2>2, <2>3
  <1> HIDE DEF body
  <1>6. Crc16(body) % 256 \in Byte /\ Crc16(body) \div 256 \in Byte
    BY <1>5, Crc16Type, Halves
  <1>7. /\ tail \in Seq(Byte) /\ Len(tail) = 2
        /\ tail[1] = Crc16(body) % 256 /\ tail[2] = Crc16(body) \div 256
    BY <1>6
  <1> HIDE DEF tail, f, n
  <1>8. /\ f \in Seq(Byte) /\ Len(f) = 6 + n
        /\ \A i \in 1 .. 4 + n : f[i] = body[i]
        /\ f[5 + n] = tail[1] /\ f[6 + n] = tail[2]
    <2>1. Len(f) = (4 + n) + 2 /\ f \in Seq(Byte)
      <3>1. body \in Seq(Byte) /\ tail \in Seq(Byte)
        BY <1>5, <1>7
      <3>2. /\ body \o tail \in Seq(Byte)
            /\ Len(body \o tail) = Len(body) + Len(tail)
        BY ONLY <3>1, ConcatType
      <3> QED
        BY ONLY <1>3, <1>5, <1>7, <3>2
    <2>2. \A i \in 1 .. 4 + n : f[i] = body[i]
      <3>1. \A i \in 1 .. Len(body) : (body \o tail)[i] = body[i]
        BY <1>5, <1>7, ConcatFirst
      <3> QED
        BY <1>3, <1>5, <3>1
    <2>3. \A j \in 1 .. Len(tail) : f[Len(body) + j] = tail[j]
      <3>1. body \in Seq(Byte) /\ tail \in Seq(Byte)
        BY <1>5, <1>7
      <3>2. \A j \in 1 .. Len(tail) : (body \o tail)[Len(body) + j] = tail[j]
        BY ONLY <3>1, BeginConcat
      <3> QED
        BY <1>3, <3>2
    <2>4. 1 \in 1 .. Len(tail) /\ 2 \in 1 .. Len(tail)
          /\ Len(body) + 1 = 5 + n /\ Len(body) + 2 = 6 + n
      BY <1>2, <1>5, <1>7
    <2>5. f[5 + n] = tail[1] /\ f[6 + n] = tail[2]
      BY <2>3, <2>4
    <2> QED
      BY <1>2, <2>1, <2>2, <2>5
  <1>9. f[1] = type /\ f[4] = n /\ IsFramingByte(type)
    <2>1. 1 \in 1 .. 4 + n /\ 4 \in 1 .. 4 + n
      BY <1>2
    <2> QED
      BY <1>5, <1>8, <2>1 DEF IsFramingByte
  <1>10. ChecksumRight(f, Len(f))
    <2> DEFINE g == SubSeq(f, 1, Len(f) - 2)
    <2>1. Len(f) - 2 = 4 + n /\ Len(f) - 1 = 5 + n /\ 4 + n \in 0 .. Len(f)
      BY <1>2, <1>8
    <2>2. /\ g \in Seq(Byte) /\ Len(g) = 4 + n
          /\ \A i \in 1 .. 4 + n : g[i] = f[i]
      BY <1>8, <2>1
    <2> HIDE DEF g
    <2>3. \A i \in 1 .. Len(g) : g[i] = body[i]
      BY <1>8, <2>2
    <2>4. g = body
      BY <1>5, <2>2, <2>3, SeqEqual
    <2> QED
      BY <1>7, <1>8, <2>1, <2>4 DEF ChecksumRight, g
  <1>11. Len(f) = Overhead + f[4]
    BY <1>8, <1>9, Sizes
  <1> QED
    BY <1>1, <1>9, <1>10, <1>11 DEF WellFormed, f

\* u begins as f does, as far as they go.
Agrees(u, f) == \A x \in 1 .. Len(u) : x <= Len(f) => u[x] = f[x]

\* A buffer that agrees with a frame and has all of it begins with the frame.
LEMMA HoldsFrame ==
  ASSUME NEW f, WellFormed(f), NEW u \in Seq(Byte), Agrees(u, f), Len(u) >= Len(f)
  PROVE  ChecksumRight(u, Len(f)) /\ SubSeq(u, 1, Len(f)) = f
  <1> DEFINE n == Len(f)
             c == SubSeq(u, 1, n)
             g == SubSeq(u, 1, n - 2)
             h == SubSeq(f, 1, n - 2)
  <1>1. f \in Seq(Byte) /\ n \in Nat /\ n >= 6 /\ Len(u) \in Nat /\ n <= Len(u)
    BY Sizes DEF WellFormed, IsFrame
  <1>2. \A x \in 1 .. n : u[x] = f[x]
    BY <1>1 DEF Agrees
  <1>3. c \in Seq(Byte) /\ Len(c) = n /\ \A x \in 1 .. n : c[x] = u[x]
    BY <1>1
  <1>4. /\ g \in Seq(Byte) /\ Len(g) = n - 2 /\ \A x \in 1 .. n - 2 : g[x] = u[x]
        /\ h \in Seq(Byte) /\ Len(h) = n - 2 /\ \A x \in 1 .. n - 2 : h[x] = f[x]
    BY <1>1
  <1>5. ChecksumRight(f, n)
    BY DEF WellFormed
  <1>6. f[n - 1] = Crc16(h) % 256 /\ f[n] = Crc16(h) \div 256
    BY <1>5 DEF ChecksumRight
  <1> HIDE DEF c, g, h, n
  <1>7. \A x \in 1 .. Len(c) : c[x] = f[x]
    BY <1>2, <1>3
  <1>8. c = f
    BY <1>1, <1>3, <1>7, SeqEqual DEF n
  <1>9. \A x \in 1 .. Len(g) : g[x] = h[x]
    BY <1>1, <1>2, <1>4
  <1>10. g = h
    BY <1>4, <1>9, SeqEqual
  <1>11. u[n - 1] = f[n - 1] /\ u[n] = f[n]
    BY <1>1, <1>2
  <1>12. ChecksumRight(u, n)
    BY <1>6, <1>10, <1>11 DEF ChecksumRight, g
  <1> QED
    BY <1>8, <1>12 DEF n, c

\* rx takes a buffer that agrees with a frame for whole when it has all of it.
LEMMA WholeWhenAllThere ==
  ASSUME NEW f, WellFormed(f), NEW u \in Seq(Byte), Agrees(u, f)
  PROVE  /\ Len(u) < Len(f) => ~Whole(u)
         /\ Len(u) >= Len(f) => Whole(u) /\ SubSeq(u, 1, Overhead + u[4]) = f
  <1>1. f \in Seq(Byte) /\ Len(f) >= 6 /\ Len(f) = 6 + f[4] /\ Overhead = 6
    BY Sizes DEF WellFormed, IsFrame
  <1>2. Len(f) \in Nat /\ Len(u) \in Nat
    BY <1>1
  <1>3. Len(u) >= 6 => u[4] = f[4]
    BY <1>1, <1>2 DEF Agrees
  <1>4. Len(u) < Len(f) => ~Whole(u)
    BY <1>1, <1>2, <1>3 DEF Whole
  <1>5. ASSUME Len(u) >= Len(f)
        PROVE  Whole(u) /\ SubSeq(u, 1, Overhead + u[4]) = f
    <2>1. ChecksumRight(u, Len(f)) /\ SubSeq(u, 1, Len(f)) = f
      BY <1>5, HoldsFrame
    <2>2. Overhead + u[4] = Len(f) /\ Len(u) >= 6
      BY <1>1, <1>2, <1>3, <1>5
    <2> QED
      BY <1>1, <1>5, <2>1, <2>2 DEF Whole
  <1> QED
    BY <1>4, <1>5

-----------------------------------------------------------------------------
(* Unescaping what is ahead *)

\* The bytes o are those of f after its first m, as far as they go.
Continues(o, f, m) == \A x \in 1 .. Len(o) : m + x <= Len(f) => o[x] = f[m + x]

\* The progress a after i bytes of s, which is what follows the first m bytes
\* of frame k + 1: it has made bytes of the frame and what is left is ahead;
\* only a 0x7D is not done with.  With the whole frame it has made, perhaps,
\* quiet bytes that follow it, and it may have stopped.
Decoding(fs, k, m, s, i, a) ==
  /\ Len(a.out) <= a.used /\ a.used <= i
  /\ Continues(a.out, fs[k + 1], m)
  /\ m + Len(a.out) < Len(fs[k + 1]) =>
       /\ Ahead(fs, Shift(s, a.used), k, m + Len(a.out))
       /\ ~a.done
       /\ a.escaped => a.used = i - 1 /\ s[i] = EscByte
       /\ ~a.escaped => a.used = i
  /\ m + Len(a.out) >= Len(fs[k + 1]) =>
       /\ Ahead(fs, Shift(s, a.used), k + 1, 0)
       /\ ~a.escaped
       /\ ~a.done => a.used = i

\* A byte more of the frame.
LEMMA OneByteMore ==
  ASSUME NEW f, NEW m \in Nat, NEW o \in Seq(Byte), NEW b \in Byte,
         Continues(o, f, m),
         m + Len(o) + 1 <= Len(f) => b = f[m + Len(o) + 1]
  PROVE  /\ Append(o, b) \in Seq(Byte) /\ Len(Append(o, b)) = Len(o) + 1
         /\ Continues(Append(o, b), f, m)
  <1> DEFINE c == Append(o, b)
  <1>1. /\ c \in Seq(Byte) /\ Len(c) = Len(o) + 1 /\ Len(o) \in Nat
        /\ c[Len(o) + 1] = b /\ \A x \in 1 .. Len(o) : c[x] = o[x]
    OBVIOUS
  <1> HIDE DEF c
  <1>2. ASSUME NEW x \in 1 .. Len(c), m + x <= Len(f) PROVE c[x] = f[m + x]
    <2>1. CASE x = Len(o) + 1
      <3>1. m + x = m + Len(o) + 1
        BY <1>1, <2>1
      <3> QED
        BY <1>1, <1>2, <2>1, <3>1
    <2>2. CASE x # Len(o) + 1
      <3>1. x \in 1 .. Len(o)
        BY <1>1, <2>2
      <3> QED
        BY <1>1, <1>2, <3>1 DEF Continues
    <2> QED
      BY <2>1, <2>2
  <1> QED
    BY <1>1, <1>2 DEF c, Continues

LEMMA DecodingStep ==
  ASSUME NEW fs, NEW k \in Nat, NEW m \in Nat, m >= 1,
         fs[k + 1] \in Seq(Byte),
         NEW s \in Seq(Byte), NEW i \in 1 .. Len(s), NEW room \in Nat,
         Len(fs[k + 1]) - m <= room \/ i <= room,
         NEW a \in Progress, Decoding(fs, k, m, s, i - 1, a),
         NEW r, r = UnescapeByte(a, s[i], room)
  PROVE  Decoding(fs, k, m, s, i, r)
  <1> DEFINE f == fs[k + 1]
             n == Len(f)
             l == Len(a.out)
             p == a.used
             t == Shift(s, p)
             b == s[i]
  <1>1. /\ n \in Nat /\ l \in Nat /\ p \in Nat /\ b \in Byte /\ f \in Seq(Byte)
        /\ a.out \in Seq(Byte) /\ i \in Nat /\ i >= 1 /\ i <= Len(s)
        /\ Len(s) \in Nat
    BY DEF Progress
  <1>2. l <= p /\ p <= i - 1 /\ Continues(a.out, f, m)
    BY DEF Decoding
  <1>3. m + l < n => /\ Ahead(fs, t, k, m + l)
                     /\ ~a.done
                     /\ a.escaped => p = i - 2 /\ s[i - 1] = EscByte
                     /\ ~a.escaped => p = i - 1
    <2>1. (i - 1) - 1 = i - 2
      BY <1>1
    <2> QED
      BY <2>1 DEF Decoding
  <1>4. m + l >= n => /\ Ahead(fs, t, k + 1, 0)
                      /\ ~a.escaped
                      /\ ~a.done => p = i - 1
    BY DEF Decoding
  <1>5. /\ r \in Progress
        /\ \/ Ends(a, r)
           \/ Completes(a, b, r)
           \/ Stops(a, b, room, r)
           \/ Begins(a, b, room, r)
           \/ Copies(a, b, room, r)
    BY <1>1, UnescapeByteCases
  <1>6. n - m <= room \/ i <= room
    OBVIOUS
  <1>7. /\ t \in Seq(Byte) /\ Len(t) = Len(s) - p
        /\ \A x \in 1 .. Len(s) - p : t[x] = s[x + p]
    <2>1. p \in 0 .. Len(s)
      BY <1>1, <1>2
    <2> HIDE DEF p
    <2> QED
      BY <2>1, ShiftType
  <1>8. \A x \in 0 .. Len(s) - p : Shift(t, x) = Shift(s, p + x)
    <2>1. p \in 0 .. Len(s)
      BY <1>1, <1>2
    <2> HIDE DEF p
    <2> QED
      BY <2>1, ShiftShift
  <1>9. r.out \in Seq(Byte) /\ r.used \in Nat
    BY <1>5 DEF Progress
  <1> HIDE DEF f, n, l, p, t, b
  <1>10. Decoding(fs, k, m, s, i, r)
         <=> /\ Len(r.out) <= r.used /\ r.used <= i
             /\ Continues(r.out, f, m)
             /\ m + Len(r.out) < n =>
                  /\ Ahead(fs, Shift(s, r.used), k, m + Len(r.out))
                  /\ ~r.done
                  /\ r.escaped => r.used = i - 1 /\ b = EscByte
                  /\ ~r.escaped => r.used = i
             /\ m + Len(r.out) >= n =>
                  /\ Ahead(fs, Shift(s, r.used), k + 1, 0)
                  /\ ~r.escaped
                  /\ ~r.done => r.used = i
    BY DEF Decoding, f, n, b
  <1>11. CASE m + l < n
    <2>1. AheadFirst(fs, t, k, m + l)
      BY <1>3, <1>11, AheadBegins
    <2> DEFINE c == f[m + l + 1]
    <2>2. \/ PlainFirst(t, c) /\ AheadOf(fs, Shift(t, 1), k, m + l + 1)
          \/ PairFirst(t, c) /\ AheadOf(fs, Shift(t, 2), k, m + l + 1)
      <3>1. m + l # 0
        BY <1>1
      <3> QED
        BY <2>1, <3>1 DEF AheadFirst, f
    <2> HIDE DEF c
    <2>3. l # room
      BY <1>1, <1>2, <1>6, <1>11
    \* The byte b makes one more byte of the frame.
    <2>4. ASSUME NEW x \in Byte, r.out = Append(a.out, x), x = c,
                 AheadOf(fs, Shift(s, i), k, m + l + 1),
                 r.used = i, ~r.done, ~r.escaped
          PROVE  Decoding(fs, k, m, s, i, r)
      <3>1. /\ Len(Append(a.out, x)) = l + 1
            /\ Continues(Append(a.out, x), f, m)
        <4>1. m + Len(a.out) + 1 <= Len(f) => x = f[m + Len(a.out) + 1]
          BY <2>4 DEF c, l
        <4>2. a.out \in Seq(Byte) /\ Continues(a.out, f, m) /\ l = Len(a.out)
          BY <1>1, <1>2 DEF l
        <4> QED
          BY <4>1, <4>2, OneByteMore
      <3>2. Len(r.out) = l + 1 /\ Continues(r.out, f, m)
        BY <2>4, <3>1
      <3>3. Len(r.out) <= r.used /\ r.used <= i
        BY <1>1, <1>2, <2>4, <3>2
      <3>4. CASE m + l + 1 < n
        <4>1. m + Len(r.out) = m + l + 1
          BY <1>1, <3>2
        <4>2. Ahead(fs, Shift(s, r.used), k, m + Len(r.out))
          <5>1. m + l + 1 # Len(fs[k + 1])
            BY <1>1, <3>4 DEF n, f
          <5> QED
            BY <2>4, <4>1, <5>1 DEF AheadOf
        <4>3. ~(m + Len(r.out) >= n)
          BY <1>1, <3>4, <4>1
        <4> QED
          BY <1>10, <2>4, <3>2, <3>3, <4>2, <4>3
      <3>5. CASE m + l + 1 = n
        <4>1. m + Len(r.out) = m + l + 1
          BY <1>1, <3>2
        <4>2. Ahead(fs, Shift(s, r.used), k + 1, 0)
          <5>1. m + l + 1 = Len(fs[k + 1])
            BY <3>5 DEF n, f
          <5> QED
            BY <2>4, <5>1 DEF AheadOf
        <4>3. ~(m + Len(r.out) < n)
          BY <1>1, <3>5, <4>1
        <4> QED
          BY <1>10, <2>4, <3>2, <3>3, <4>2, <4>3
      <3> QED
        BY <1>1, <1>11, <3>4, <3>5
    <2>5. CASE ~a.escaped
      <3>1. p = i - 1 /\ ~a.done
        BY <1>3, <1>11, <2>5
      <3>2. 1 \in 1 .. Len(s) - p /\ 1 + p = i
        BY <1>1, <3>1
      <3>3. t[1] = b
        BY <1>7, <3>2 DEF b
      <3>4. CASE PlainFirst(t, c) /\ AheadOf(fs, Shift(t, 1), k, m + l + 1)
        <4>1. Quiet(b) /\ b = c
          BY <3>3, <3>4 DEF PlainFirst
        <4>2. Copies(a, b, room, r)
          BY <1>5, <2>3, <2>5, <3>1, <4>1
             DEF Ends, Completes, Stops, Begins, Quiet, l
        <4>3. Shift(t, 1) = Shift(s, i)
          <5>1. 1 \in 0 .. Len(s) - p /\ p + 1 = i
            BY <1>1, <3>2
          <5> QED
            BY <1>8, <5>1
        <4>4. r.used = i
          BY <1>1, <3>1, <4>2 DEF Copies, p
        <4> QED
          BY <1>1, <2>4, <3>4, <4>1, <4>2, <4>3, <4>4 DEF Copies
      <3>5. CASE PairFirst(t, c) /\ AheadOf(fs, Shift(t, 2), k, m + l + 1)
        <4>1. b = EscByte /\ ~IsFramingByte(b)
          BY <3>3, <3>5 DEF PairFirst, IsFramingByte, EscByte, Start, GwStart
        <4>2. Begins(a, b, room, r)
          BY <1>5, <2>3, <2>5, <3>1, <4>1
             DEF Ends, Completes, Stops, Copies, l
        <4>3. r.used = p /\ r.out = a.out /\ r.escaped /\ ~r.done
          BY <4>2 DEF Begins, p
        <4>4. Len(r.out) = l
          BY <4>3 DEF l
        <4>5. ~(m + l >= n) /\ l <= p /\ p <= i
          BY <1>1, <1>2, <1>11
        <4>6. Ahead(fs, Shift(s, r.used), k, m + l)
          BY <1>3, <1>11, <4>3 DEF t
        <4> QED
          BY <1>2, <1>10, <3>1, <4>1, <4>3, <4>4, <4>5, <4>6
      <3> QED
        BY <2>2, <3>4, <3>5
    <2>6. CASE a.escaped
      <3>1. p = i - 2 /\ ~a.done /\ s[i - 1] = EscByte
        BY <1>3, <1>11, <2>6
      <3>2. /\ 1 \in 1 .. Len(s) - p /\ 2 \in 1 .. Len(s) - p
            /\ 1 + p = i - 1 /\ 2 + p = i
        BY <1>1, <3>1
      <3>3. t[1] = EscByte /\ t[2] = b
        BY <1>7, <3>1, <3>2 DEF b
      <3>4. PairFirst(t, c) /\ AheadOf(fs, Shift(t, 2), k, m + l + 1)
        BY <2>2, <3>3 DEF PlainFirst, Quiet
      <3>5. Toggle(b) = c
        BY <3>3, <3>4 DEF PairFirst
      <3>6. Completes(a, b, r)
        BY <1>5, <2>6, <3>1 DEF Ends, Stops, Begins, Copies
      <3>7. Shift(t, 2) = Shift(s, i)
        <4>1. 2 \in 0 .. Len(s) - p /\ p + 2 = i
          BY <1>1, <3>2
        <4> QED
          BY <1>8, <4>1
      <3>8. r.used = i /\ r.out = Append(a.out, Toggle(b)) /\ ~r.escaped /\ ~r.done
        BY <1>1, <3>1, <3>6 DEF Completes, p
      <3>9. Toggle(b) \in Byte
        BY <1>1, ToggleByte
      <3> QED
        BY <2>4, <3>4, <3>5, <3>7, <3>8, <3>9
    <2> QED
      BY <2>5, <2>6
  <1>12. CASE m + l >= n
    <2>1. Ahead(fs, t, k + 1, 0) /\ ~a.escaped /\ (~a.done => p = i - 1)
      BY <1>4, <1>12
    <2>2. CASE a.done
      <3>1. r = a
        BY <1>5, <2>2 DEF Ends, Completes, Stops, Begins, Copies
      <3>2. Len(r.out) = l /\ r.used = p /\ r.out = a.out /\ r.done /\ ~r.escaped
        BY <2>1, <2>2, <3>1 DEF l, p
      <3>3. ~(m + l < n) /\ l <= p /\ p <= i
        BY <1>1, <1>2, <1>12
      <3> QED
        BY <1>2, <1>10, <2>1, <3>2, <3>3 DEF t
    <2>3. CASE ~a.done
      <3>1. p = i - 1
        BY <2>1, <2>3
      <3>2. 1 \in 1 .. Len(s) - p /\ 1 + p = i
        BY <1>1, <3>1
      <3>3. t[1] = b /\ Len(t) # 0
        BY <1>1, <1>7, <3>2 DEF b
      <3>4. t # <<>>
        BY <1>7, <3>3
      <3>5. AheadFirst(fs, t, k + 1, 0)
        BY <2>1, AheadBegins
      <3>6. \/ Quiet(b) /\ Ahead(fs, Shift(t, 1), k + 1, 0)
            \/ IsFramingByte(b)
        BY <3>3, <3>4, <3>5 DEF AheadFirst, Within, NoiseFirst, StartFirst
      <3>7. CASE Stops(a, b, room, r)
        <4>1. r.used = p /\ r.out = a.out /\ r.done /\ ~r.escaped
          BY <3>7 DEF Stops, p
        <4>2. Len(r.out) = l /\ ~(m + l < n) /\ l <= p /\ p <= i
          BY <1>1, <1>2, <1>12, <4>1 DEF l
        <4> QED
          BY <1>2, <1>10, <2>1, <4>1, <4>2 DEF t
      <3>8. CASE ~Stops(a, b, room, r)
        <4>1. Begins(a, b, room, r) \/ Copies(a, b, room, r)
          BY <1>5, <2>1, <2>3, <3>8 DEF Ends, Completes
        <4>2. Quiet(b) /\ Ahead(fs, Shift(t, 1), k + 1, 0)
          BY <3>6, <4>1 DEF Begins, Copies
        <4>3. Copies(a, b, room, r)
          BY <4>1, <4>2 DEF Begins, Quiet
        <4>4. r.used = i /\ r.out = Append(a.out, b) /\ ~r.escaped /\ ~r.done
          BY <1>1, <3>1, <4>3 DEF Copies, p
        <4>5. ~(m + Len(a.out) + 1 <= Len(f))
          BY <1>1, <1>12 DEF l, n
        <4>6. /\ Len(Append(a.out, b)) = l + 1
              /\ Continues(Append(a.out, b), f, m)
          BY <1>1, <1>2, <4>5, OneByteMore DEF l
        <4>7. Len(r.out) = l + 1 /\ Continues(r.out, f, m)
          BY <4>4, <4>6
        <4>8. ~(m + Len(r.out) < n) /\ Len(r.out) <= i /\ i <= i
          BY <1>1, <1>2, <1>12, <3>1, <4>7
        <4>9. Shift(t, 1) = Shift(s, i)
          <5>1. 1 \in 0 .. Len(s) - p /\ p + 1 = i
            BY <1>1, <3>2
          <5> QED
            BY <1>8, <5>1
        <4> QED
          BY <1>10, <4>2, <4>4, <4>7, <4>8, <4>9
      <3> QED
        BY <3>7, <3>8
    <2> QED
      BY <2>2, <2>3
  <1> QED
    BY <1>1, <1>11, <1>12

\* A longer sequence takes more room on the wire: at least what its next byte
\* takes, and no more than that when there is no other.
LEMMA EscapePrefix ==
  ASSUME NEW s \in Seq(Byte), NEW t \in Seq(Byte), Len(s) < Len(t),
         \A i \in 1 .. Len(s) : s[i] = t[i]
  PROVE  LET len == Len(Escape(s)) + Len(EscapedByte(t[Len(s) + 1]))
         IN  /\ Len(Escape(t)) >= len
             /\ Len(t) = Len(s) + 1 => Len(Escape(t)) = len
  <1> DEFINE n == Len(s)
             b == t[n + 1]
  <1>1. n \in Nat /\ Len(t) \in Nat /\ n + 1 \in 1 .. Len(t) /\ b \in Byte
    OBVIOUS
  <1>2. PICK u \in [0 .. Len(s) -> Seq(Byte)] :
          /\ Escape(s) = u[Len(s)]
          /\ u[0] = <<>>
          /\ \A i \in 1 .. Len(s) : u[i] = u[i - 1] \o EscapedByte(s[i])
          /\ \A i \in 0 .. Len(s) : Begin(u[i], Escape(s))
    BY EscapeSteps, Zenon
  <1>3. PICK v \in [0 .. Len(t) -> Seq(Byte)] :
          /\ Escape(t) = v[Len(t)]
          /\ v[0] = <<>>
          /\ \A i \in 1 .. Len(t) : v[i] = v[i - 1] \o EscapedByte(t[i])
          /\ \A i \in 0 .. Len(t) : Begin(v[i], Escape(t))
    BY EscapeSteps, Zenon
  <1> DEFINE Good == {i \in 0 .. n : u[i] = v[i]}
  <1>4. 0 \in Good
    BY <1>1, <1>2, <1>3
  <1>5. ASSUME NEW i \in 1 .. n, i - 1 \in Good PROVE i \in Good
    <2>1. i \in 1 .. Len(t) /\ i \in 0 .. n /\ s[i] = t[i]
      BY <1>1
    <2> QED
      BY <1>2, <1>3, <1>5, <2>1
  <1>6. v[n] = Escape(s)
    <2> HIDE DEF Good
    <2>1. 0 .. n \subseteq Good
      BY <1>1, <1>4, <1>5, NumbersUpTo
    <2>2. n \in Good
      BY <1>1, <2>1
    <2> QED
      BY <1>2, <2>2 DEF Good
  <1>7. v[n + 1] = Escape(s) \o EscapedByte(b)
    <2>1. (n + 1) - 1 = n
      BY <1>1
    <2> QED
      BY <1>1, <1>3, <1>6, <2>1
  <1>8. Escape(s) \in Seq(Byte) /\ EscapedByte(b) \in Seq(Byte)
    BY <1>1, EscapeType, EscapedByteType
  <1>9. Len(v[n + 1]) = Len(Escape(s)) + Len(EscapedByte(b))
    BY <1>7, <1>8
  <1>10. Len(v[n + 1]) <= Len(Escape(t))
    <2>1. n + 1 \in 0 .. Len(t)
      BY <1>1
    <2> QED
      BY <1>3, <2>1 DEF Begin
  <1>11. Len(Escape(t)) \in Nat
    <2>1. Escape(t) \in Seq(Byte)
      BY EscapeType
    <2> QED
      BY <2>1
  <1>12. Len(t) = n + 1 => Escape(t) = v[n + 1]
    BY <1>3
  <1>13. Len(Escape(s)) + Len(EscapedByte(b)) \in Nat
    BY <1>8
  <1> QED
    BY <1>9, <1>10, <1>11, <1>12, <1>13

\* One more byte takes up what it takes up on the wire.
LEMMA EscapeAppend ==
  ASSUME NEW s \in Seq(Byte), NEW b \in Byte
  PROVE  Len(Escape(Append(s, b))) = Len(Escape(s)) + Len(EscapedByte(b))
  <1> DEFINE t == Append(s, b)
  <1>1. /\ t \in Seq(Byte) /\ Len(t) = Len(s) + 1 /\ Len(s) < Len(t)
        /\ t[Len(s) + 1] = b /\ \A i \in 1 .. Len(s) : s[i] = t[i]
    OBVIOUS
  <1> HIDE DEF t
  <1> QED
    BY <1>1, EscapePrefix DEF t

\* Until the frame f is whole, the progress a has used what its bytes take up
\* on the wire.
Spent(f, m, a) == m + Len(a.out) < Len(f) => a.used = Len(Escape(a.out))

LEMMA SpentStep ==
  ASSUME NEW fs, NEW k \in Nat, NEW m \in Nat, m >= 1,
         fs[k + 1] \in Seq(Byte),
         NEW s \in Seq(Byte), NEW i \in 1 .. Len(s), NEW room \in Nat,
         NEW a \in Progress, Decoding(fs, k, m, s, i - 1, a),
         Spent(fs[k + 1], m, a),
         NEW r, r = UnescapeByte(a, s[i], room)
  PROVE  Spent(fs[k + 1], m, r)
  <1> DEFINE f == fs[k + 1]
             b == s[i]
             l == Len(a.out)
  <1> SUFFICES ASSUME m + Len(r.out) < Len(f)
               PROVE  r.used = Len(Escape(r.out))
    BY DEF Spent
  <1>1. /\ a.used \in Nat /\ a.out \in Seq(Byte) /\ l \in Nat /\ b \in Byte
        /\ i \in Nat /\ i >= 1 /\ i <= Len(s) /\ Len(s) \in Nat /\ Len(f) \in Nat
    BY DEF Progress
  <1>2. \/ Ends(a, r)
        \/ Completes(a, b, r)
        \/ Stops(a, b, room, r)
        \/ Begins(a, b, room, r)
        \/ Copies(a, b, room, r)
    BY <1>1, UnescapeByteCases
  <1>3. ASSUME r.out = a.out PROVE a.used = Len(Escape(r.out))
    BY <1>3 DEF Spent
  <1>4. ASSUME NEW x \in Byte, r.out = Append(a.out, x)
        PROVE  /\ m + l < Len(f) /\ a.used = Len(Escape(a.out))
               /\ Len(Escape(r.out)) = a.used + Len(EscapedByte(x))
    <2>1. Len(Append(a.out, x)) = l + 1
      BY <1>1
    <2>2. m + l < Len(f)
      <3>1. m + (l + 1) < Len(f)
        BY <1>4, <2>1
      <3> HIDE DEF l, f
      <3> QED
        BY <1>1, <3>1
    <2>3. a.used = Len(Escape(a.out))
      BY <2>2 DEF Spent
    <2>4. Len(Escape(Append(a.out, x))) = Len(Escape(a.out)) + Len(EscapedByte(x))
      BY <1>1, EscapeAppend
    <2> QED
      BY <1>4, <2>2, <2>3, <2>4
  <1> HIDE DEF l, b
  <1>5. CASE Ends(a, r) \/ Stops(a, b, room, r) \/ Begins(a, b, room, r)
    BY <1>3, <1>5 DEF Ends, Stops, Begins
  <1>6. CASE Copies(a, b, room, r)
    <2>1. Len(EscapedByte(b)) = 1
      <3>1. EscapedByte(b) = <<b>>
        BY <1>6 DEF Copies, EscapedByte
      <3> QED
        BY <3>1
    <2> QED
      BY <1>1, <1>4, <1>6, <2>1 DEF Copies
  <1>7. CASE Completes(a, b, r)
    <2> DEFINE x == Toggle(b)
               t == Shift(s, a.used)
    <2>1. x \in Byte /\ r.out = Append(a.out, x) /\ r.used = a.used + 2
      BY <1>1, <1>7, ToggleByte DEF Completes
    <2>2. m + l < Len(f) /\ a.escaped
      BY <1>4, <1>7, <2>1 DEF Completes
    <2>3. /\ Ahead(fs, t, k, m + l) /\ a.used = i - 2 /\ s[i - 1] = EscByte
          /\ a.used <= i - 1
      <3>1. (i - 1) - 1 = i - 2
        BY <1>1
      <3> QED
        BY <2>2, <3>1 DEF Decoding, l, f
    <2>4. t[1] = EscByte /\ t[2] = b
      <3>1. a.used \in 0 .. Len(s) /\ a.used + 2 = i
        BY <1>1, <2>3
      <3>2. \A y \in 1 .. Len(s) - a.used : t[y] = s[y + a.used]
        BY <3>1, ShiftType
      <3>3. 1 \in 1 .. Len(s) - a.used /\ 2 \in 1 .. Len(s) - a.used
        BY <1>1, <3>1
      <3>4. 1 + a.used = i - 1 /\ 2 + a.used = i
        BY <1>1, <3>1
      <3> QED
        BY <2>3, <3>2, <3>3, <3>4 DEF b
    <2> HIDE DEF t
    <2>5. PairFirst(t, f[m + l + 1])
      <3>1. AheadFirst(fs, t, k, m + l)
        BY <2>3, AheadBegins
      <3>2. m + l # 0
        BY <1>1
      <3>3. \A y : ~PlainFirst(t, y)
        BY <2>4 DEF PlainFirst, Quiet
      <3> QED
        BY <3>1, <3>2, <3>3 DEF AheadFirst
    <2>6. ~Quiet(x)
      BY <2>4, <2>5 DEF PairFirst
    <2>7. Len(EscapedByte(x)) = 2
      <3>1. EscapedByte(x) = <<EscByte, Toggle(x)>>
        BY <2>6 DEF EscapedByte, Quiet
      <3> QED
        BY <3>1
    <2> QED
      BY <1>4, <2>1, <2>7
  <1> QED
    BY <1>2, <1>5, <1>6, <1>7

\* What unescape makes of x, with `more' on the line after it, and leaves.
Decoded(fs, k, m, x, more, un) ==
  /\ un.used \in 0 .. Len(x) /\ un.out \in Seq(Byte) /\ Len(un.out) <= un.used
  /\ Continues(un.out, fs[k + 1], m)
  /\ m + Len(un.out) < Len(fs[k + 1]) =>
       /\ Ahead(fs, Shift(x, un.used) \o more, k, m + Len(un.out))
       /\ Shift(x, un.used) \in {<<>>, <<EscByte>>}
       /\ un.used = Len(Escape(un.out))
  /\ m + Len(un.out) >= Len(fs[k + 1]) =>
       Ahead(fs, Shift(x, un.used) \o more, k + 1, 0)
  /\ un.out = <<>> => un.used = 0

\* With room for the rest of the frame, or for every byte there is, unescape
\* makes bytes of the frame until it has them all or there are no more.
LEMMA UnescapeAhead ==
  ASSUME NEW fs, NEW k \in Nat, NEW m \in Nat, m >= 1,
         fs[k + 1] \in Seq(Byte), m < Len(fs[k + 1]),
         NEW x \in Seq(Byte), NEW more \in Seq(Byte), NEW room \in Nat,
         Len(fs[k + 1]) - m <= room \/ Len(x) <= room,
         Ahead(fs, x \o more, k, m)
  PROVE  Decoded(fs, k, m, x, more, Unescape(x, room))
  <1> DEFINE s == x \o more
             n == Len(x)
             un == Unescape(x, room)
  <1>1. /\ s \in Seq(Byte) /\ Len(s) = n + Len(more) /\ n \in Nat
        /\ Len(more) \in Nat /\ \A i \in 1 .. n : s[i] = x[i]
    BY ConcatType, ConcatFirst
  <1>2. PICK u \in [0 .. n -> Progress] :
          /\ un = u[n]
          /\ u[0] = NoProgress
          /\ \A i \in 1 .. n : u[i] = UnescapeByte(u[i - 1], x[i], room)
    BY UnescapeSteps, Zenon
  <1>3. \A i \in 0 .. n : Shift(s, i) = Shift(x, i) \o more
    BY ShiftConcat
  <1>4. Bounded(x, room, n, un)
    BY UnescapeBounded
  <1>5. Ahead(fs, s, k, m)
    OBVIOUS
  <1>6. Len(fs[k + 1]) - m <= room \/ n <= room
    OBVIOUS
  <1> HIDE DEF s, n, un
  <1> DEFINE Good == {i \in 0 .. n : /\ Decoding(fs, k, m, s, i, u[i])
                                    /\ Spent(fs[k + 1], m, u[i])}
  <1>7. 0 \in Good
    <2>1. /\ u[0].used = 0 /\ u[0].out = <<>> /\ ~u[0].escaped /\ ~u[0].done
      BY <1>2 DEF NoProgress
    <2>2. Len(<<>>) = 0 /\ m + 0 = m /\ ~(m + 0 >= Len(fs[k + 1])) /\ 0 \in 0 .. n
      BY <1>1
    <2>3. Shift(s, 0) = s
      BY <1>1, ShiftEnds
    <2>4. Decoding(fs, k, m, s, 0, u[0])
      BY <1>5, <2>1, <2>2, <2>3 DEF Decoding, Continues
    <2>5. Spent(fs[k + 1], m, u[0])
      <3>1. Len(Escape(<<>>)) = 0
        <4>1. <<>> \in Seq(Byte)
          OBVIOUS
        <4>2. Escape(<<>>) \in Seq(Byte) /\ Len(Escape(<<>>)) <= 2 * Len(<<>>)
          BY <4>1, EscapeType
        <4> QED
          BY <4>2
      <3> QED
        BY <2>1, <3>1 DEF Spent
    <2> QED
      BY <2>2, <2>4, <2>5
  <1>8. ASSUME NEW i \in 1 .. n, i - 1 \in Good PROVE i \in Good
    <2> DEFINE a == u[i - 1]
               r == u[i]
    <2>1. i \in 0 .. n /\ i - 1 \in 0 .. n /\ i \in 1 .. Len(s) /\ i <= n
      BY <1>1
    <2>2. /\ a \in Progress /\ Decoding(fs, k, m, s, i - 1, a)
          /\ Spent(fs[k + 1], m, a) /\ r = UnescapeByte(a, s[i], room)
      BY <1>1, <1>2, <1>8, <2>1
    <2>3. Len(fs[k + 1]) - m <= room \/ i <= room
      <3>1. CASE n <= room
        BY <1>1, <2>1, <3>1
      <3> QED
        BY <1>6, <3>1
    <2> HIDE DEF a, r
    <2>4. Decoding(fs, k, m, s, i, r)
      BY <1>1, <2>1, <2>2, <2>3, DecodingStep
    <2>5. Spent(fs[k + 1], m, r)
      BY <1>1, <2>1, <2>2, SpentStep
    <2> QED
      BY <2>1, <2>4, <2>5 DEF r
  <1>9. n \in Good
    <2> HIDE DEF Good
    <2>1. 0 .. n \subseteq Good
      BY <1>1, <1>7, <1>8, NumbersUpTo
    <2> QED
      BY <1>1, <2>1
  <1>10. Decoding(fs, k, m, s, n, un) /\ Spent(fs[k + 1], m, un)
    BY <1>2, <1>9
  <1>11. un \in Progress
    <2>1. n \in 0 .. n
      BY <1>1
    <2> QED
      BY <1>2, <2>1
  <1>12. /\ un.used \in Nat /\ un.used <= n /\ un.used \in 0 .. n
         /\ un.out \in Seq(Byte) /\ (un.out = <<>> => un.used = 0)
         /\ Len(un.out) \in Nat
    BY <1>1, <1>4, <1>11 DEF Progress, Bounded
  <1>13. Shift(s, un.used) = Shift(x, un.used) \o more
    BY <1>3, <1>12
  <1>14. ASSUME m + Len(un.out) < Len(fs[k + 1])
         PROVE  Shift(x, un.used) \in {<<>>, <<EscByte>>}
    <2>1. CASE ~un.escaped
      <3>1. un.used = n
        BY <1>10, <1>14, <2>1 DEF Decoding
      <3> QED
        BY <3>1, ShiftEnds DEF n
    <2>2. CASE un.escaped
      <3>1. un.used = n - 1 /\ s[n] = EscByte
        BY <1>10, <1>14, <2>2 DEF Decoding
      <3>2. n >= 1 /\ n - 1 \in 0 .. n /\ n - (n - 1) = 1 /\ 1 + (n - 1) = n
        BY <1>1, <1>12, <3>1
      <3> DEFINE y == Shift(x, n - 1)
      <3>3. y \in Seq(Byte) /\ Len(y) = 1 /\ y[1] = x[n]
        <4>1. /\ Shift(x, n - 1) \in Seq(Byte)
              /\ Len(Shift(x, n - 1)) = Len(x) - (n - 1)
              /\ \A i \in 1 .. Len(x) - (n - 1) : Shift(x, n - 1)[i] = x[i + (n - 1)]
          BY <3>2, ShiftType DEF n
        <4>2. Len(x) - (n - 1) = 1 /\ 1 \in 1 .. Len(x) - (n - 1)
          BY <3>2 DEF n
        <4> HIDE DEF y
        <4> QED
          BY <3>2, <4>1, <4>2 DEF y
      <3> HIDE DEF y
      <3>4. x[n] = EscByte
        BY <1>1, <3>1, <3>2
      <3>5. y = <<EscByte>>
        BY <3>3, <3>4
      <3> QED
        BY <3>1, <3>5 DEF y
    <2> QED
      BY <2>1, <2>2
  <1>15. /\ Len(un.out) <= un.used
         /\ Continues(un.out, fs[k + 1], m)
         /\ m + Len(un.out) < Len(fs[k + 1]) =>
              /\ Ahead(fs, Shift(x, un.used) \o more, k, m + Len(un.out))
              /\ un.used = Len(Escape(un.out))
         /\ m + Len(un.out) >= Len(fs[k + 1]) =>
              Ahead(fs, Shift(x, un.used) \o more, k + 1, 0)
    BY <1>10, <1>13 DEF Decoding, Spent
  <1> QED
    BY <1>12, <1>14, <1>15 DEF Decoded, un, n

-----------------------------------------------------------------------------
(* Looking for the start of a frame *)

\* The first p bytes of b are no framing bytes, the one after them is.
StartsAfter(b, p) ==
  /\ p \in 0 .. Len(b)
  /\ FromFrameStart(b) = Shift(b, p)
  /\ \A i \in 1 .. p : ~IsFramingByte(b[i])
  /\ p < Len(b) => IsFramingByte(b[p + 1])

LEMMA FromFrameStartSkips ==
  ASSUME NEW b \in Seq(Byte)
  PROVE  \E p : StartsAfter(b, p)
  <1> DEFINE starts == {i \in DOMAIN b : IsFramingByte(b[i])}
             n == Len(b)
  <1>1. n \in Nat /\ DOMAIN b = 1 .. n /\ starts \subseteq 1 .. n
    OBVIOUS
  <1>2. CASE starts = {}
    <2>1. FromFrameStart(b) = <<>>
      BY <1>2 DEF FromFrameStart
    <2>2. Shift(b, n) = <<>>
      BY ShiftEnds
    <2>3. \A i \in 1 .. n : ~IsFramingByte(b[i])
      BY <1>1, <1>2
    <2>4. StartsAfter(b, n)
      BY <1>1, <2>1, <2>2, <2>3 DEF StartsAfter
    <2> QED
      BY <2>4
  <1>3. CASE starts # {}
    <2> DEFINE first == CHOOSE i \in starts : \A j \in starts : i <= j
               p == first - 1
    <2>1. FromFrameStart(b) = Shift(b, p)
      BY <1>3 DEF FromFrameStart
    <2>2. starts \subseteq Nat
      BY <1>1
    <2>3. \E i \in starts : \A j \in starts : i <= j
      <3> HIDE DEF starts
      <3> QED
        BY <1>3, <2>2, Smallest
    <2>4. first \in starts /\ \A j \in starts : first <= j
      <3> HIDE DEF starts
      <3> QED
        BY <2>3
    <2> HIDE DEF first
    <2>5. first \in 1 .. n /\ IsFramingByte(b[first])
      BY <1>1, <2>4
    <2>6. p \in 0 .. n /\ p + 1 = first
      BY <1>1, <2>5
    <2>7. \A i \in 1 .. p : ~IsFramingByte(b[i])
      <3> SUFFICES ASSUME NEW i \in 1 .. p, IsFramingByte(b[i]) PROVE FALSE
        OBVIOUS
      <3>1. i \in 1 .. n /\ ~(first <= i)
        BY <1>1, <2>5, <2>6
      <3>2. i \in starts
        BY <1>1, <3>1
      <3> QED
        BY <2>4, <3>1, <3>2
    <2>8. StartsAfter(b, p)
      BY <2>1, <2>5, <2>6, <2>7 DEF StartsAfter
    <2> QED
      BY <2>8
  <1> QED
    BY <1>2, <1>3

\* Between frames, what is dropped is noise, and what is found is the start of
\* the next frame.
LEMMA StartAhead ==
  ASSUME NEW fs, NEW k, NEW x \in Seq(Byte), NEW more \in Seq(Byte),
         Ahead(fs, x \o more, k, 0)
  PROVE  LET from == FromFrameStart(x)
         IN  /\ from = <<>> => Ahead(fs, more, k, 0)
             /\ from # <<>> =>
                  /\ k < Len(fs) /\ from[1] = fs[k + 1][1]
                  /\ Ahead(fs, from \o more, k, 0)
                  /\ Ahead(fs, Tail(from) \o more, k, 1)
  <1> DEFINE from == FromFrameStart(x)
             s == x \o more
  <1>1. PICK p : StartsAfter(x, p)
    BY FromFrameStartSkips
  <1>2. /\ s \in Seq(Byte) /\ Len(s) = Len(x) + Len(more) /\ Len(x) \in Nat
        /\ Len(more) \in Nat /\ \A i \in 1 .. Len(x) : s[i] = x[i]
    BY ConcatType, ConcatFirst
  <1>3. p \in 0 .. Len(x) /\ from = Shift(x, p)
    BY <1>1 DEF StartsAfter
  <1>4. \A i \in 0 .. Len(x) : Shift(s, i) = Shift(x, i) \o more
    BY ShiftConcat
  <1>5. Ahead(fs, s, k, 0)
    OBVIOUS
  <1> HIDE DEF s
  <1> DEFINE Good == {i \in 0 .. p : Ahead(fs, Shift(s, i), k, 0)}
  <1>6. 0 \in Good
    <2>1. Shift(s, 0) = s
      BY <1>2, ShiftEnds
    <2> QED
      BY <1>3, <1>5, <2>1
  <1>7. ASSUME NEW i \in 1 .. p, i - 1 \in Good PROVE i \in Good
    <2> DEFINE t == Shift(s, i - 1)
    <2>1. /\ i - 1 \in 0 .. Len(s) /\ i \in 1 .. Len(x) /\ i \in 0 .. p
          /\ 1 \in 1 .. Len(s) - (i - 1) /\ 1 + (i - 1) = i
          /\ 1 \in 0 .. Len(s) - (i - 1) /\ (i - 1) + 1 = i
      BY <1>2, <1>3
    <2>2. Ahead(fs, t, k, 0)
      BY <1>7
    <2>3. t \in Seq(Byte) /\ t[1] = s[i] /\ Len(t) = Len(s) - (i - 1)
      <3>1. /\ Shift(s, i - 1) \in Seq(Byte)
            /\ Len(Shift(s, i - 1)) = Len(s) - (i - 1)
            /\ \A j \in 1 .. Len(s) - (i - 1) : Shift(s, i - 1)[j] = s[j + (i - 1)]
        BY <1>2, <2>1, ShiftType
      <3> HIDE DEF t
      <3> QED
        BY <2>1, <3>1 DEF t
    <2>4. Shift(t, 1) = Shift(s, i)
      <3>1. Shift(Shift(s, i - 1), 1) = Shift(s, (i - 1) + 1)
        BY <1>2, <2>1, ShiftShift
      <3> QED
        BY <2>1, <3>1
    <2> HIDE DEF t
    <2>5. ~IsFramingByte(t[1])
      BY <1>1, <1>2, <2>1, <2>3 DEF StartsAfter
    <2>6. t # <<>>
      <3>1. Len(s) - (i - 1) # 0
        BY <1>2, <2>1
      <3> QED
        BY <2>3, <3>1
    <2>7. AheadFirst(fs, t, k, 0)
      BY <2>2, AheadBegins
    <2>8. Ahead(fs, Shift(t, 1), k, 0)
      BY <2>5, <2>6, <2>7 DEF AheadFirst, StartFirst, Within
    <2> QED
      BY <2>1, <2>4, <2>8
  <1>8. p \in Good
    <2> HIDE DEF Good
    <2>1. p \in Nat /\ p \in 0 .. p
      BY <1>3
    <2>2. 0 .. p \subseteq Good
      BY <1>6, <1>7, <2>1, NumbersUpTo
    <2> QED
      BY <2>1, <2>2
  <1>9. Ahead(fs, from \o more, k, 0)
    BY <1>3, <1>4, <1>8
  <1>10. from \in Seq(Byte)
    BY FromFrameStartType
  <1>11. ASSUME from = <<>> PROVE Ahead(fs, more, k, 0)
    BY <1>9, <1>11, ConcatEmpty
  <1>12. ASSUME from # <<>>
         PROVE  /\ k < Len(fs) /\ from[1] = fs[k + 1][1]
                /\ Ahead(fs, Tail(from) \o more, k, 1)
    <2> DEFINE t == from \o more
    <2> HIDE DEF from
    <2>1. t \in Seq(Byte) /\ t # <<>> /\ t[1] = from[1] /\ Tail(t) = Tail(from) \o more
      BY <1>10, <1>12
    <2>2. IsFramingByte(from[1])
      <3>1. IsFramingByte(Head(from))
        BY <1>12, FromFrameStartType DEF from
      <3> QED
        BY <1>10, <1>12, <3>1, TailIsShift
    <2>3. AheadFirst(fs, t, k, 0)
      BY <1>9, AheadBegins
    <2> HIDE DEF t
    <2>4. /\ k < Len(fs) /\ t[1] = fs[k + 1][1]
          /\ Ahead(fs, Shift(t, 1), k, 1)
      BY <2>1, <2>2, <2>3
         DEF AheadFirst, NoiseFirst, Quiet, StartFirst, Within
    <2>5. Shift(t, 1) = Tail(t)
      BY <2>1, TailIsShift
    <2> QED
      BY <2>1, <2>4, <2>5
  <1> QED
    BY <1>9, <1>11, <1>12

-----------------------------------------------------------------------------
(* sricd on a clean line *)

SentFrames ==
  /\ sent \in Seq(Seq(Byte))
  /\ \A i \in 1 .. Len(sent) : WellFormed(sent[i])

\* The frames processed are the first of those sent.
Heard == /\ processed \in Seq(Seq(Byte))
         /\ \A i \in 1 .. Len(processed) : processed[i] = sent[i]

\* One frame more, the next of those sent, has been heard.
LEMMA OneMoreHeard ==
  ASSUME SentFrames, Heard, Len(processed) + 1 \in 1 .. Len(sent),
         processed' = Append(processed, sent[Len(processed) + 1]), sent' = sent
  PROVE  Heard' /\ Len(processed') = Len(processed) + 1
  <1> DEFINE k == Len(processed)
             f == sent[k + 1]
  <1>1. processed \in Seq(Seq(Byte)) /\ k \in Nat
    BY DEF Heard
  <1>2. f \in Seq(Byte)
    BY DEF SentFrames
  <1> HIDE DEF f
  <1>3. processed' \in Seq(Seq(Byte)) /\ Len(processed') = k + 1
    BY <1>1, <1>2 DEF f
  <1>4. ASSUME NEW i \in 1 .. k + 1 PROVE processed'[i] = sent[i]
    <2>1. CASE i = k + 1
      BY <1>1, <2>1
    <2>2. CASE i # k + 1
      <3>1. i \in 1 .. k
        BY <1>1, <2>2
      <3> QED
        BY <1>1, <3>1 DEF Heard
    <2> QED
      BY <2>1, <2>2
  <1> QED
    BY <1>3, <1>4 DEF Heard

\* Within a frame the line goes on with an ordinary byte.
LEMMA NoFramingByteWithin ==
  ASSUME NEW fs, NEW x \in Seq(Byte), NEW more \in Seq(Byte), x # <<>>,
         NEW k, NEW m, m # 0, Ahead(fs, x \o more, k, m)
  PROVE  ~IsFramingByte(x[1])
  <1> DEFINE s == x \o more
  <1>1. AheadFirst(fs, s, k, m)
    BY AheadBegins
  <1>2. s[1] = x[1]
    BY ConcatFirst
  <1> HIDE DEF s
  <1> QED
    BY <1>1, <1>2
       DEF AheadFirst, PlainFirst, PairFirst, Quiet, IsFramingByte, EscByte,
           Start, GwStart

\* With `later' still to be read, rxbuf and unesc_rx hold what is next: a frame
\* of which unesc_rx has the beginning, and between two reads not even that, but
\* for a 0x7D, is left to be unescaped.
SricdClean(later) ==
  /\ Heard
  /\ Ahead(sent, rxbuf \o later, Len(processed), Len(unesc))
  /\ unesc # <<>> => Agrees(unesc, sent[Len(processed) + 1])
  /\ ~looping => rxbuf = <<>> \/ (unesc # <<>> /\ rxbuf = <<EscByte>>)
  /\ looping /\ unesc # <<>> => ~IsFramingByte(rxbuf0)

\* advance_rx does not start afresh within a frame.
LEMMA FreshBetweenFrames ==
  ASSUME ReceiverInv, SentFrames, NEW later, SricdClean(later), looping
  PROVE  /\ Fresh <=> unesc = <<>>
         /\ unesc # <<>> => /\ Len(processed) < Len(sent)
                            /\ Len(unesc) < Len(sent[Len(processed) + 1])
  <1>1. ASSUME unesc # <<>>
        PROVE  /\ Len(processed) < Len(sent)
               /\ Len(unesc) < Len(sent[Len(processed) + 1])
               /\ ~Restarts
    <2> DEFINE k == Len(processed)
    <2>1. AheadFirst(sent, rxbuf \o later, k, Len(unesc))
      BY AheadBegins DEF SricdClean
    <2>2. unesc \in Seq(Byte) /\ Len(unesc) # 0
      BY <1>1 DEF ReceiverInv, FramingTypeOK
    <2>3. Within(sent, k, Len(unesc))
      BY <2>1, <2>2 DEF AheadFirst
    <2>4. k \in Nat /\ k + 1 \in 1 .. Len(sent)
      BY <2>3 DEF Within, SricdClean, Heard, SentFrames
    <2>5. IsFrame(sent[k + 1])
      BY <2>4 DEF SentFrames, WellFormed
    <2>6. Len(unesc) # UnescSize
      <3>1. Len(sent[k + 1]) \in Nat /\ Len(unesc) \in Nat /\ UnescSize \in Nat
        BY <2>2, <2>5, Sizes DEF IsFrame
      <3> QED
        BY <2>3, <2>5, <3>1 DEF Within, IsFrame
    <2>7. ~IsFramingByte(rxbuf0)
      BY <1>1 DEF SricdClean
    <2> QED
      BY <2>3, <2>6, <2>7 DEF Within, Restarts
  <1> QED
    BY <1>1 DEF Fresh

\* What unescape is called with in advance_rx.
LEMMA BeforeUnescapeClean ==
  ASSUME ReceiverInv, SentFrames, NEW later \in Seq(Byte), SricdClean(later),
         looping, ~(Fresh /\ Source = <<>>)
  PROVE  LET k == Len(processed)
         IN  /\ k \in Nat /\ k + 1 \in 1 .. Len(sent)
             /\ Begun \in Seq(Byte) /\ Len(Begun) >= 1
             /\ Len(Begun) < Len(sent[k + 1])
             /\ Agrees(Begun, sent[k + 1])
             /\ Rest \in Seq(Byte)
             /\ Ahead(sent, Rest \o later, k, Len(Begun))
  <1> DEFINE k == Len(processed)
  <1>1. rxbuf \in Seq(Byte) /\ unesc \in Seq(Byte)
    BY DEF ReceiverInv, FramingTypeOK
  <1>2. k \in Nat /\ Len(sent) \in Nat
    BY DEF SricdClean, Heard, SentFrames
  <1>3. Ahead(sent, rxbuf \o later, k, Len(unesc))
    BY DEF SricdClean
  <1>4. CASE unesc = <<>>
    <2> DEFINE from == FromFrameStart(rxbuf)
    <2>1. Fresh
      BY <1>4 DEF Fresh
    <2>2. from # <<>> /\ Begun = <<Head(from)>> /\ Rest = Tail(from)
      BY <2>1 DEF Source, Begun, Rest
    <2>3. Len(unesc) = 0
      BY <1>4
    <2>4. from \in Seq(Byte)
      BY <1>1, FromFrameStartType
    <2>5. /\ k < Len(sent) /\ from[1] = sent[k + 1][1]
          /\ Ahead(sent, Tail(from) \o later, k, 1)
      <3>1. rxbuf \in Seq(Byte) /\ later \in Seq(Byte)
            /\ Ahead(sent, rxbuf \o later, k, 0)
        BY <1>1, <1>3, <2>3
      <3> HIDE DEF k
      <3>2. from # <<>> =>
              /\ k < Len(sent) /\ from[1] = sent[k + 1][1]
              /\ Ahead(sent, from \o later, k, 0)
              /\ Ahead(sent, Tail(from) \o later, k, 1)
        BY ONLY <3>1, StartAhead
      <3> QED
        BY ONLY <2>2, <3>2
    <2> HIDE DEF from
    <2>6. /\ Begun \in Seq(Byte) /\ Len(Begun) = 1 /\ Begun[1] = sent[k + 1][1]
          /\ Rest \in Seq(Byte)
      BY <2>2, <2>4, <2>5
    <2>7. Agrees(Begun, sent[k + 1])
      BY <2>6 DEF Agrees
    <2>8. k + 1 \in 1 .. Len(sent)
      BY <1>2, <2>5
    <2>9. Len(Begun) < Len(sent[k + 1])
      <3>1. IsFrame(sent[k + 1])
        BY <2>8 DEF SentFrames, WellFormed
      <3>2. Len(sent[k + 1]) >= 6 /\ Len(sent[k + 1]) \in Nat
        BY <3>1, Sizes DEF IsFrame
      <3> QED
        BY <2>6, <3>2
    <2>10. Ahead(sent, Rest \o later, k, Len(Begun))
      BY <2>2, <2>5, <2>6
    <2> QED
      BY <1>2, <2>6, <2>7, <2>8, <2>9, <2>10
  <1>5. CASE unesc # <<>>
    <2>1. ~Fresh /\ k < Len(sent) /\ Len(unesc) < Len(sent[k + 1])
      BY <1>5, FreshBetweenFrames
    <2>2. Begun = unesc /\ Rest = rxbuf
      BY <2>1 DEF Source, Begun, Rest
    <2>3. Len(unesc) >= 1
      BY <1>1, <1>5
    <2>4. Agrees(unesc, sent[k + 1])
      BY <1>5 DEF SricdClean
    <2> QED
      BY <1>1, <1>2, <1>3, <2>1, <2>2, <2>3, <2>4
  <1> QED
    BY <1>4, <1>5

\* Joining what is decoded to what was known.
LEMMA AgreesConcat ==
  ASSUME NEW f, NEW u \in Seq(Byte), NEW o \in Seq(Byte),
         Agrees(u, f), Continues(o, f, Len(u))
  PROVE  /\ u \o o \in Seq(Byte) /\ Len(u \o o) = Len(u) + Len(o)
         /\ Agrees(u \o o, f)
  <1> DEFINE c == u \o o
  <1>1. c \in Seq(Byte) /\ Len(c) = Len(u) + Len(o)
    BY ConcatType
  <1>2. \A x \in 1 .. Len(u) : c[x] = u[x]
    BY ConcatFirst
  <1>3. \A x \in 1 .. Len(o) : c[Len(u) + x] = o[x]
    BY BeginConcat
  <1>4. Len(u) \in Nat /\ Len(o) \in Nat
    OBVIOUS
  <1> HIDE DEF c
  <1>5. ASSUME NEW x \in 1 .. Len(c), x <= Len(f) PROVE c[x] = f[x]
    <2>1. CASE x <= Len(u)
      BY <1>2, <1>4, <1>5, <2>1 DEF Agrees
    <2>2. CASE ~(x <= Len(u))
      <3> DEFINE y == x - Len(u)
      <3>1. y \in 1 .. Len(o) /\ Len(u) + y = x
        BY <1>1, <1>4, <2>2
      <3> HIDE DEF y
      <3>2. o[y] = f[Len(u) + y]
        BY <1>5, <3>1 DEF Continues
      <3> QED
        BY <1>3, <3>1, <3>2
    <2> QED
      BY <2>1, <2>2
  <1> QED
    BY <1>1, <1>5 DEF c, Agrees

LEMMA AdvanceClean ==
  ASSUME ReceiverInv, SentFrames, NEW later \in Seq(Byte), SricdClean(later),
         Advance, sent' = sent
  PROVE  SricdClean(later)'
  <1> DEFINE k == Len(processed)
             f == sent[k + 1]
             m == Len(Begun)
             room == UnescSize - m
             un == Unescape(Rest, room)
             u == Begun \o un.out
  <1>1. /\ looping /\ ~(Fresh /\ Source = <<>>)
        /\ rxbuf' = Shift(Rest, un.used)
        /\ rxbuf0' = ByteZero(rxbuf', ByteZero(Rest, ByteZero(Source, rxbuf0)))
        /\ looping' = (un.out # <<>>)
        /\ IF un.out # <<>> THEN Consider(u)
                            ELSE unesc' = Begun /\ processed' = processed
    BY DEF Advance
  <1>2. /\ k \in Nat /\ k + 1 \in 1 .. Len(sent)
        /\ Begun \in Seq(Byte) /\ m >= 1
        /\ m < Len(f)
        /\ Agrees(Begun, f)
        /\ Rest \in Seq(Byte)
        /\ Ahead(sent, Rest \o later, k, m)
    BY <1>1, BeforeUnescapeClean
  <1>3. WellFormed(f) /\ f \in Seq(Byte) /\ Len(f) <= UnescSize /\ Len(f) \in Nat
    BY <1>2 DEF SentFrames, WellFormed, IsFrame
  <1>4. m \in Nat /\ room \in Nat /\ Len(f) - m <= room
    BY <1>2, <1>3, Sizes
  <1>5. Heard /\ sent \in Seq(Seq(Byte))
    BY DEF SricdClean, SentFrames
  <1> HIDE DEF room, m, k
  <1>6. Decoded(sent, k, m, Rest, later, un)
    BY <1>2, <1>3, <1>4, UnescapeAhead
  <1> HIDE DEF un, f
  <1>7. /\ un.used \in 0 .. Len(Rest) /\ un.out \in Seq(Byte)
        /\ Len(un.out) <= un.used /\ Continues(un.out, f, m)
        /\ m + Len(un.out) < Len(f) =>
             /\ Ahead(sent, rxbuf' \o later, k, m + Len(un.out))
             /\ rxbuf' \in {<<>>, <<EscByte>>}
        /\ m + Len(un.out) >= Len(f) => Ahead(sent, rxbuf' \o later, k + 1, 0)
        /\ un.out = <<>> => un.used = 0
    BY <1>1, <1>6 DEF Decoded, f
  <1>8. u \in Seq(Byte) /\ Len(u) = m + Len(un.out) /\ Agrees(u, f)
    BY <1>2, <1>7, AgreesConcat DEF m
  <1> HIDE DEF u
  <1>9. Len(un.out) \in Nat /\ (un.out = <<>> <=> Len(un.out) = 0)
    BY <1>7
  <1>10. CASE un.out = <<>>
    <2>1. unesc' = Begun /\ processed' = processed /\ ~looping'
      BY <1>1, <1>10
    <2>2. m + Len(un.out) = m /\ m < Len(f)
      BY <1>2, <1>4, <1>9, <1>10
    <2>3. Ahead(sent, rxbuf' \o later, k, m) /\ rxbuf' \in {<<>>, <<EscByte>>}
      BY <1>7, <2>2
    <2>4. Begun # <<>>
      BY <1>2 DEF m
    <2>5. Heard'
      BY <1>5, <2>1 DEF Heard
    <2>6. Ahead(sent', rxbuf' \o later, Len(processed'), Len(unesc'))
      BY <2>1, <2>3 DEF k, m
    <2>7. Agrees(unesc', sent'[Len(processed') + 1])
      BY <1>2, <2>1 DEF k, f
    <2> QED
      BY <2>1, <2>3, <2>4, <2>5, <2>6, <2>7 DEF SricdClean
  <1>11. CASE un.out # <<>> /\ m + Len(un.out) < Len(f)
    <2>1. Consider(u) /\ looping'
      BY <1>1, <1>11
    <2>2. ~Whole(u)
      BY <1>3, <1>8, <1>11, WholeWhenAllThere
    <2>3. unesc' = u /\ processed' = processed
      BY <2>1, <2>2 DEF Consider
    <2>4. Heard'
      BY <1>5, <2>3 DEF Heard
    <2>5. Ahead(sent', rxbuf' \o later, Len(processed'), Len(unesc'))
      BY <1>7, <1>8, <1>11, <2>3 DEF k
    <2>6. Agrees(unesc', sent'[Len(processed') + 1])
      BY <1>8, <2>3 DEF k, f
    <2>7. ~IsFramingByte(rxbuf0')
      <3>1. Rest # <<>>
        <4>1. Len(Rest) # 0
          BY <1>7, <1>9, <1>11
        <4> QED
          BY <4>1
      <3>2. ~IsFramingByte(Rest[1])
        <4>1. m # 0
          BY <1>2
        <4> QED
          BY <1>2, <3>1, <4>1, NoFramingByteWithin
      <3>3. ByteZero(Rest, ByteZero(Source, rxbuf0)) = Rest[1]
        BY <1>2, <3>1 DEF ByteZero
      <3>4. CASE rxbuf' = <<>>
        BY <1>1, <3>2, <3>3, <3>4 DEF ByteZero
      <3>5. CASE rxbuf' = <<EscByte>>
        <4>1. rxbuf' # <<>> /\ Head(rxbuf') = EscByte
          BY <3>5
        <4>2. rxbuf0' = EscByte
          BY <1>1, <4>1 DEF ByteZero
        <4> QED
          BY <4>2 DEF IsFramingByte, EscByte, Start, GwStart
      <3> QED
        BY <1>7, <1>11, <3>4, <3>5
    <2> QED
      BY <2>1, <2>4, <2>5, <2>6, <2>7 DEF SricdClean
  <1>12. CASE m + Len(un.out) >= Len(f)
    <2>1. un.out # <<>>
      BY <1>2, <1>3, <1>4, <1>9, <1>12
    <2>2. Consider(u) /\ looping'
      BY <1>1, <2>1
    <2>3. Whole(u) /\ SubSeq(u, 1, Overhead + u[4]) = f
      BY <1>3, <1>8, <1>12, WholeWhenAllThere
    <2>4. unesc' = <<>> /\ processed' = Append(processed, f)
      BY <2>2, <2>3 DEF Consider
    <2>5. Heard' /\ Len(processed') = k + 1
      BY <1>2, <1>5, <2>4, OneMoreHeard DEF k, f
    <2>6. Ahead(sent', rxbuf' \o later, Len(processed'), Len(unesc'))
      <3>1. Len(unesc') = 0
        BY <2>4
      <3> QED
        BY <1>7, <1>12, <2>5, <3>1
    <2> QED
      BY <2>2, <2>4, <2>5, <2>6 DEF SricdClean
  <1>13. m + Len(un.out) < Len(f) \/ m + Len(un.out) >= Len(f)
    BY <1>3, <1>4, <1>9
  <1> QED
    BY <1>10, <1>11, <1>12, <1>13

LEMMA AdvanceFindsNothingClean ==
  ASSUME ReceiverInv, SentFrames, NEW later \in Seq(Byte), SricdClean(later),
         AdvanceFindsNothing, sent' = sent
  PROVE  SricdClean(later)'
  <1> DEFINE k == Len(processed)
  <1>1. /\ looping /\ Fresh /\ Source = <<>>
        /\ rxbuf' = <<>> /\ unesc' = <<>> /\ ~looping' /\ processed' = processed
    BY DEF AdvanceFindsNothing
  <1>2. unesc = <<>>
    BY <1>1, FreshBetweenFrames
  <1>3. FromFrameStart(rxbuf) = <<>>
    BY <1>1 DEF Source
  <1>4. Ahead(sent, rxbuf \o later, k, 0) /\ rxbuf \in Seq(Byte)
    <2>1. Len(unesc) = 0
      BY <1>2
    <2> QED
      BY <2>1 DEF SricdClean, ReceiverInv, FramingTypeOK
  <1> HIDE DEF k
  <1>5. Ahead(sent, later, k, 0)
    BY <1>3, <1>4, StartAhead
  <1>6. <<>> \o later = later /\ Len(<<>>) = 0
    BY ConcatEmpty
  <1>7. Ahead(sent', rxbuf' \o later, Len(processed'), Len(unesc'))
    BY <1>1, <1>5, <1>6 DEF k
  <1>8. Heard'
    BY <1>1 DEF SricdClean, Heard
  <1> QED
    BY <1>1, <1>7, <1>8 DEF SricdClean

LEMMA ReadIncomingClean ==
  ASSUME ReceiverInv, SentFrames, NEW n \in 0 .. RxBufSize, ReadIncoming(n),
         NEW more \in Seq(Byte), SricdClean(wire \o more), sent' = sent
  PROVE  SricdClean(wire \o more)'
  <1> DEFINE a == SubSeq(wire, 1, n)
             b == Shift(wire, n)
  <1>1. /\ rxbuf \in Seq(Byte) /\ wire \in Seq(Byte) /\ RxBufSize \in Nat
        /\ RxBufSize > 0
    BY Sizes DEF ReceiverInv, FramingTypeOK
  <1>2. /\ n \in 0 .. Len(wire) /\ (n > 0 \/ Len(rxbuf) = RxBufSize)
        /\ rxbuf' = rxbuf \o a /\ wire' = b /\ looping'
        /\ rxbuf0' = ByteZero(rxbuf', rxbuf0)
        /\ unesc' = unesc /\ processed' = processed
    BY <1>1 DEF ReadIncoming
  <1>3. a \in Seq(Byte) /\ Len(a) = n /\ b \in Seq(Byte) /\ a \o b = wire
    BY <1>1, <1>2, SubSeqType, ShiftType, CutInTwo
  <1> HIDE DEF a, b
  <1>4. rxbuf' \o (wire' \o more) = rxbuf \o (wire \o more)
    <2>1. (rxbuf \o a) \o (b \o more) = rxbuf \o (a \o (b \o more))
      <3>1. PICK c \in Seq(Byte) : c = b \o more
        BY <1>3, ConcatType
      <3>2. rxbuf \in Seq(Byte) /\ a \in Seq(Byte)
        BY <1>1, <1>3
      <3>3. (rxbuf \o a) \o c = rxbuf \o (a \o c)
        BY ONLY <3>1, <3>2, ConcatAssociates, ZenonT(60)
      <3> QED
        BY <3>1, <3>3
    <2>2. a \o (b \o more) = (a \o b) \o more
      BY <1>3, ConcatAssociates
    <2> QED
      BY <1>2, <1>3, <2>1, <2>2
  <1>5. Ahead(sent', rxbuf' \o (wire' \o more), Len(processed'), Len(unesc'))
    BY <1>2, <1>4 DEF SricdClean
  <1>6. Heard'
    BY <1>2 DEF SricdClean, Heard
  <1>7. unesc' # <<>> => Agrees(unesc', sent'[Len(processed') + 1])
    BY <1>2 DEF SricdClean
  <1>8. ASSUME unesc' # <<>> PROVE ~IsFramingByte(rxbuf0')
    <2> DEFINE x == rxbuf'
               y == wire' \o more
    <2>1. x \in Seq(Byte) /\ Len(x) = Len(rxbuf) + n /\ y \in Seq(Byte)
      BY <1>1, <1>2, <1>3, ConcatType
    <2>2. Len(x) # 0
      BY <1>1, <1>2, <2>1
    <2>3. x # <<>>
      BY <2>1, <2>2
    <2>4. Len(unesc') # 0
      BY <1>2, <1>8 DEF ReceiverInv, FramingTypeOK
    <2>5. Ahead(sent', x \o y, Len(processed'), Len(unesc'))
      BY <1>5
    <2> HIDE DEF x, y
    <2>6. ~IsFramingByte(x[1])
      BY <2>1, <2>3, <2>4, <2>5, NoFramingByteWithin
    <2>7. rxbuf0' = x[1]
      BY <1>2, <2>1, <2>3 DEF x, ByteZero
    <2> QED
      BY <2>6, <2>7
  <1> QED
    BY <1>2, <1>5, <1>6, <1>7, <1>8 DEF SricdClean

\* Bytes on their way to the listener.
OnTheWay == wire \o (buffer \o input)

LEMMA SricdRxClean ==
  ASSUME LineInv, SentFrames, SricdClean(OnTheWay), SricdRx
  PROVE  SricdClean(OnTheWay)'
  <1> DEFINE more == buffer \o input
  <1>1. ReceiverInv /\ RelayInv
    BY LineInvParts
  <1>2. more \in Seq(Byte) /\ OnTheWay \in Seq(Byte)
    BY <1>1, ConcatType DEF RelayInv, OnTheWay
  <1>3. sent' = sent /\ more' = more
    BY DEF SricdRx, relayVars
  <1>4. OnTheWay = wire \o more /\ OnTheWay' = wire' \o more
    BY <1>3 DEF OnTheWay
  <1> HIDE DEF more
  <1>5. CASE AdvanceFindsNothing
    <2>1. OnTheWay' = OnTheWay
      BY <1>4, <1>5 DEF AdvanceFindsNothing
    <2>2. PICK later \in Seq(Byte) : later = OnTheWay
      BY <1>2
    <2>3. SricdClean(later)'
      BY <1>1, <1>3, <1>5, <2>2, AdvanceFindsNothingClean
    <2> QED
      BY <2>1, <2>2, <2>3 DEF SricdClean
  <1>6. CASE Advance
    <2>1. OnTheWay' = OnTheWay
      BY <1>4, <1>6 DEF Advance
    <2>2. PICK later \in Seq(Byte) : later = OnTheWay
      BY <1>2
    <2>3. SricdClean(later)'
      BY <1>1, <1>3, <1>6, <2>2, AdvanceClean
    <2> QED
      BY <2>1, <2>2, <2>3 DEF SricdClean
  <1>7. CASE \E n \in 0 .. RxBufSize : ReadIncoming(n)
    <2>1. PICK n \in 0 .. RxBufSize : ReadIncoming(n)
      BY <1>7
    <2>2. PICK rest \in Seq(Byte) : rest = more
      BY <1>2
    <2>3. SricdClean(wire \o rest)
      BY <1>4, <2>2
    <2>4. SricdClean(wire \o rest)'
      BY <1>1, <1>3, <2>1, <2>3, ReadIncomingClean
    <2> QED
      BY <1>4, <2>2, <2>4 DEF SricdClean
  <1>8. Rx
    BY DEF SricdRx
  <1> QED
    BY <1>5, <1>6, <1>7, <1>8 DEF Rx

-----------------------------------------------------------------------------
(* Through trumpets *)

\* While trumpets has damaged nothing, what it does moves bytes on their way
\* and changes none of them.
LEMMA RelayClean ==
  ASSUME RelayInv, errors \in Nat, T!Relay
  PROVE  /\ errors' \in Nat
         /\ errors' = 0 => errors = 0 /\ OnTheWay' = OnTheWay
  <1>1. wire \in Seq(Byte) /\ input \in Seq(Byte) /\ buffer \in Seq(Byte)
    BY DEF RelayInv
  <1>2. BufSize \in Nat
    BY LineAssumption
  <1>3. ASSUME NEW n \in 1 .. BufSize, T!RxData(n)
        PROVE  /\ errors' \in Nat
               /\ errors' = 0 => errors = 0 /\ OnTheWay' = OnTheWay
    <2> DEFINE a == SubSeq(input, 1, n)
               b == Shift(input, n)
    <2>1. /\ n <= Len(input) /\ input' = b /\ wire' = wire
      BY <1>3, SameShift DEF T!RxData
    <2>2. PICK s \in T!Damaged(SubSeq(input, 1, n)) :
            /\ errors' = IF s = SubSeq(input, 1, n) THEN errors ELSE errors + 1
            /\ buffer' = buffer \o s
      BY <1>3, Zenon DEF T!RxData
    <2>3. n \in 0 .. Len(input)
      BY <1>1, <1>2, <2>1
    <2>4. a \in Seq(Byte) /\ b \in Seq(Byte) /\ a \o b = input
      BY <1>1, <2>3, SubSeqType, ShiftType, CutInTwo
    <2> HIDE DEF a, b
    <2>5. ASSUME errors' = 0 PROVE errors = 0 /\ OnTheWay' = OnTheWay
      <3>1. errors = 0 /\ buffer' = buffer \o a
        BY <2>2, <2>5 DEF a
      <3>2. (buffer \o a) \o b = buffer \o (a \o b)
        BY ONLY <1>1, <2>4, ConcatAssociates, ZenonT(60)
      <3> QED
        BY <2>1, <2>4, <3>1, <3>2 DEF OnTheWay
    <2> QED
      BY <2>2, <2>5
  <1>4. ASSUME NEW n \in 1 .. BufSize, T!TxData(n)
        PROVE  /\ errors' \in Nat
               /\ errors' = 0 => errors = 0 /\ OnTheWay' = OnTheWay
    <2> DEFINE a == SubSeq(buffer, 1, n)
               b == Shift(buffer, n)
    <2>1. /\ n <= Len(buffer) /\ wire' = wire \o a /\ buffer' = b
          /\ input' = input /\ errors' = errors
      BY <1>4, SameShift DEF T!TxData
    <2>2. n \in 0 .. Len(buffer)
      BY <1>1, <1>2, <2>1
    <2>3. a \in Seq(Byte) /\ b \in Seq(Byte) /\ a \o b = buffer
      BY <1>1, <2>2, SubSeqType, ShiftType, CutInTwo
    <2> HIDE DEF a, b
    <2>4. PICK c \in Seq(Byte) : c = b \o input
      BY <1>1, <2>3, ConcatType
    <2>5. a \in Seq(Byte) /\ b \in Seq(Byte) /\ wire \in Seq(Byte)
          /\ input \in Seq(Byte)
      BY <1>1, <2>3
    <2>6. (wire \o a) \o c = wire \o (a \o c)
      BY ONLY <2>4, <2>5, ConcatAssociates, ZenonT(60)
    <2>7. a \o (b \o input) = (a \o b) \o input
      BY ONLY <2>5, ConcatAssociates, ZenonT(60)
    <2> QED
      BY <2>1, <2>3, <2>4, <2>6, <2>7 DEF OnTheWay
  <1> QED
    BY <1>3, <1>4 DEF T!Relay

-----------------------------------------------------------------------------
(* ostric *)

LEMMA SameXor ==
  /\ \A a, b : O!Xor8(a, b) = Xor8(a, b)
  /\ \A a, b : O!Xor16(a, b) = Xor16(a, b)
  <1>1. O!XorDigit = XorDigit
    BY Zenon DEF O!XorDigit, XorDigit, O!Bit, Bit, O!Weight, Weight
  <1>2. \A a, b : O!Xor8(a, b) = Xor8(a, b)
    BY <1>1, Zenon DEF O!Xor8, Xor8
  <1>3. \A a, b : O!Xor16(a, b) = Xor16(a, b)
    BY <1>2, Zenon DEF O!Xor16, Xor16
  <1> QED
    BY <1>2, <1>3

LEMMA SameCrcShift == \A c : O!CrcShift(c) = CrcShift(c)
  <1>1. O!Polynomial = Polynomial
    BY DEF O!Polynomial, Polynomial
  <1> QED
    BY <1>1, SameXor DEF O!CrcShift, CrcShift


LEMMA SameCrcTable == O!CrcTable = CrcTable
  <1> DEFINE OShifts(n) ==
               CHOOSE s : s = [k \in 0 .. 8 |->
                                 IF k = 0 THEN n ELSE O!CrcShift(s[k - 1])]
             Shifts(n) ==
               CHOOSE s : s = [k \in 0 .. 8 |->
                                 IF k = 0 THEN n ELSE CrcShift(s[k - 1])]
  <1>1. ASSUME NEW n PROVE OShifts(n) = Shifts(n)
    <2> DEFINE P(s) == s = [k \in 0 .. 8 |->
                              IF k = 0 THEN n ELSE O!CrcShift(s[k - 1])]
               Q(s) == s = [k \in 0 .. 8 |->
                              IF k = 0 THEN n ELSE CrcShift(s[k - 1])]
    <2>1. \A s : P(s) <=> Q(s)
      BY SameCrcShift
    <2> HIDE DEF P, Q
    <2>2. (CHOOSE s : P(s)) = (CHOOSE s : Q(s))
      BY <2>1, Zenon
    <2> QED
      BY <2>2 DEF P, Q
  <1>2. /\ O!CrcTable = [n \in Byte |-> OShifts(n)[8]]
        /\ CrcTable = [n \in Byte |-> Shifts(n)[8]]
    BY Zenon DEF O!CrcTable, CrcTable, O!Byte, Byte
  <1> HIDE DEF OShifts, Shifts
  <1> QED
    BY <1>1, <1>2

LEMMA SameCrc16 == \A s : O!Crc16(s) = Crc16(s)
  <1> SUFFICES ASSUME NEW t PROVE O!Crc16(t) = Crc16(t)
    OBVIOUS
  <1> DEFINE P(u) == u = [i \in 0 .. Len(t) |->
                            IF i = 0 THEN 65535 ELSE O!CrcStep(u[i - 1], t[i])]
             Q(u) == u = [i \in 0 .. Len(t) |->
                            IF i = 0 THEN 65535 ELSE CrcStep(u[i - 1], t[i])]
             OSteps == CHOOSE u : P(u)
             Steps  == CHOOSE u : Q(u)
  <1>1. \A c, b : O!CrcStep(c, b) = CrcStep(c, b)
    BY SameCrcTable, SameXor DEF O!CrcStep, CrcStep
  <1>2. \A u : P(u) <=> Q(u)
    BY <1>1
  <1>3. O!Crc16(t) = 65535 - OSteps[Len(t)] /\ Crc16(t) = 65535 - Steps[Len(t)]
    BY DEF O!Crc16, Crc16
  <1> HIDE DEF P, Q
  <1>4. OSteps = Steps
    BY <1>2, Zenon
  <1> HIDE DEF OSteps, Steps
  <1> QED
    BY <1>3, <1>4

\* ostric works checksums out as sricd does.
LEMMA SameChecksum ==
  \A u, n : O!ChecksumRight(u, n) <=> ChecksumRight(u, n)
  BY SameCrc16, Zenon DEF O!ChecksumRight, ChecksumRight

\* What ostric decodes when a frame f begins its buffer: the whole of f or, of
\* what is there, everything but a lone escape byte.
LEMMA OstricGot ==
  ASSUME NEW fs, NEW k \in Nat, NEW f, f = fs[k + 1], WellFormed(f),
         f[HeaderSize] < LenModulus,
         NEW from \in Seq(Byte), from # <<>>, Len(from) <= PtyBufSize,
         from[1] = f[1],
         NEW more \in Seq(Byte), Ahead(fs, Tail(from) \o more, k, 1)
  PROVE  LET got == O!Got(from)
             un  == O!Decoded(from)
         IN  /\ Decoded(fs, k, 1, Tail(from), more, un)
             /\ Len(got) = 1 + Len(un.out)
             /\ O!Incomplete(got) <=> Len(got) < Len(f)
             /\ ~O!Incomplete(got) =>
                  /\ O!ChecksumRight(got, O!CmdLen(got))
                  /\ SubSeq(got, 1, O!CmdLen(got)) = f
  <1> DEFINE un  == Unescape(Tail(from), PtyBufSize - 1)
             got == <<Head(from)>> \o un.out
  <1>1. O!Got(from) = got /\ O!Decoded(from) = un
    BY SameUnescape DEF O!Got, O!Decoded
  <1>2. /\ PtyBufSize \in Nat /\ PtyBufSize - 1 \in Nat
        /\ LenModulus \in Nat /\ LenModulus > 0
    BY LineAssumption
  <1>3. /\ f \in Seq(Byte) /\ Len(f) >= 6 /\ Len(f) = 6 + f[4]
        /\ f[4] < LenModulus /\ f[4] \in Nat
    <2>1. f \in Seq(Byte) /\ Len(f) >= 6
      BY DEF WellFormed, IsFrame, Overhead, HeaderSize
    <2>2. 4 \in DOMAIN f
      BY <2>1
    <2>3. f[4] \in Nat
      BY <2>1, <2>2, ElementType, ByteIsNat
    <2> QED
      BY <2>1, <2>3 DEF WellFormed, Overhead, HeaderSize
  <1>4. /\ Tail(from) \in Seq(Byte) /\ Len(Tail(from)) = Len(from) - 1
        /\ Head(from) = from[1] /\ Head(from) \in Byte
    OBVIOUS
  <1>5. Decoded(fs, k, 1, Tail(from), more, un)
    <2>1. PICK x \in Seq(Byte) : x = Tail(from)
      BY <1>4
    <2>2. PICK room \in Nat : room = PtyBufSize - 1
      BY <1>2
    <2>3. Len(x) <= room
      <3>1. Len(from) \in Nat
        OBVIOUS
      <3> QED
        BY <1>2, <1>4, <2>1, <2>2, <3>1
    <2>4. /\ k \in Nat /\ 1 \in Nat /\ 1 >= 1 /\ fs[k + 1] \in Seq(Byte)
          /\ 1 < Len(fs[k + 1]) /\ Ahead(fs, x \o more, k, 1)
      BY <1>3, <2>1
    <2>5. Decoded(fs, k, 1, x, more, Unescape(x, room))
      BY <2>1, <2>2, <2>3, <2>4, UnescapeAhead
    <2> QED
      BY <2>1, <2>2, <2>5
  <1> HIDE DEF un
  <1>6. un.out \in Seq(Byte) /\ Continues(un.out, f, 1)
    BY <1>5 DEF Decoded
  <1>7. /\ got \in Seq(Byte) /\ Len(got) = 1 + Len(un.out) /\ Agrees(got, f)
    <2>1. PICK u : u = <<Head(from)>>
      OBVIOUS
    <2>2. u \in Seq(Byte) /\ Len(u) = 1
      BY <1>4, <2>1
    <2>3. Agrees(u, f)
      BY <1>4, <2>1, <2>2 DEF Agrees
    <2>4. Continues(un.out, f, Len(u))
      BY <1>6, <2>2
    <2>5. PICK o \in Seq(Byte) : o = un.out
      BY <1>6
    <2>6. Continues(o, f, Len(u))
      BY <2>4, <2>5
    <2>7. u \o o \in Seq(Byte) /\ Len(u \o o) = Len(u) + Len(o)
          /\ Agrees(u \o o, f)
      BY ONLY <2>2, <2>3, <2>6, AgreesConcat
    <2> QED
      BY <2>1, <2>2, <2>5, <2>7
  <1> HIDE DEF got
  <1>8. ASSUME Len(got) >= 4 PROVE O!CmdLen(got) = Len(f)
    <2>1. got[4] = f[4]
      <3>1. 4 \in 1 .. Len(got) /\ 4 <= Len(f)
        BY <1>3, <1>7, <1>8
      <3> QED
        BY <1>7, <3>1 DEF Agrees
    <2>2. \A v, w \in Nat : v < w => v % w = v
      OBVIOUS
    <2>3. got[4] % LenModulus = f[4]
      BY ONLY <1>2, <1>3, <2>1, <2>2
    <2>4. O!CmdLen(got) = (got[4] % LenModulus) + 6
      BY SameConstants DEF O!CmdLen, HeaderSize, Overhead
    <2> QED
      BY <1>3, <2>3, <2>4
  <1>9. O!Incomplete(got) <=> Len(got) < Len(f)
    <2>1. O!Incomplete(got) <=> Len(got) < 4 \/ Len(got) < O!CmdLen(got)
      BY SameConstants DEF O!Incomplete, HeaderSize
    <2>2. Len(got) \in Nat /\ Len(f) \in Nat /\ 4 <= Len(f)
      <3>1. got \in Seq(Byte)
        BY <1>7
      <3>2. f \in Seq(Byte) /\ Len(f) >= 6
        BY <1>3
      <3> QED
        BY ONLY <3>1, <3>2
    <2>3. CASE Len(got) < 4
      <3>1. Len(got) < Len(f)
        BY ONLY <2>2, <2>3
      <3> QED
        BY <2>1, <2>3, <3>1
    <2>4. CASE ~(Len(got) < 4)
      <3>1. O!CmdLen(got) = Len(f)
        BY <1>8, <2>2, <2>4
      <3> QED
        BY <2>1, <2>4, <3>1
    <2> QED
      BY <2>3, <2>4
  <1>10. ASSUME ~(Len(got) < Len(f))
         PROVE  /\ O!ChecksumRight(got, O!CmdLen(got))
                /\ SubSeq(got, 1, O!CmdLen(got)) = f
    <2>1. Len(got) >= Len(f) /\ Len(got) >= 4
      <3>1. Len(got) \in Nat /\ Len(f) \in Nat /\ 4 <= Len(f)
        <4>1. got \in Seq(Byte)
          BY <1>7
        <4>2. f \in Seq(Byte) /\ Len(f) >= 6
          BY <1>3
        <4> QED
          BY ONLY <4>1, <4>2
      <3> QED
        BY ONLY <1>10, <3>1
    <2>2. O!CmdLen(got) = Len(f)
      BY <1>8, <2>1
    <2>3. ChecksumRight(got, Len(f)) /\ SubSeq(got, 1, Len(f)) = f
      BY <1>7, <2>1, HoldsFrame
    <2> QED
      BY <2>2, <2>3, SameChecksum
  <1> QED
    BY <1>1, <1>5, <1>7, <1>9, <1>10

\* Every frame sent has a length that process_command can tell.
LengthsTold == \A i \in 1 .. Len(sent) : sent[i][HeaderSize] < LenModulus

\* ostric has executed the first frames sent, and the others are ahead of it.
OstricClean(later) ==
  /\ Heard
  /\ Ahead(sent, ptyBuf \o later, Len(processed), 0)

LEMMA ParseClean ==
  ASSUME SentFrames, LengthsTold, Heard,
         NEW buf \in Seq(Byte), Len(buf) <= PtyBufSize,
         NEW more \in Seq(Byte), Ahead(sent, buf \o more, Len(processed), 0),
         O!Parse(buf), sent' = sent
  PROVE  OstricClean(more)'
  <1> DEFINE k    == Len(processed)
             from == FromFrameStart(buf)
             f    == sent[k + 1]
  <1>1. from \in Seq(Byte) /\ Len(from) <= PtyBufSize
    <2>1. from \in Seq(Byte) /\ Len(from) <= Len(buf)
      BY FromFrameStartType
    <2>2. Len(from) \in Nat /\ Len(buf) \in Nat /\ PtyBufSize \in Nat
      BY <2>1, LineAssumption
    <2> QED
      BY <2>1, <2>2
  <1>2. k \in Nat /\ processed \in Seq(Seq(Byte))
    BY DEF Heard
  <1>3. /\ from = <<>> => Ahead(sent, more, k, 0)
        /\ from # <<>> => /\ k < Len(sent) /\ from[1] = f[1]
                          /\ Ahead(sent, from \o more, k, 0)
                          /\ Ahead(sent, Tail(from) \o more, k, 1)
    BY StartAhead
  <1> HIDE DEF from
  <1>4. CASE from = <<>>
    <2>1. ptyBuf' = <<>> /\ processed' = processed
      BY <1>4, SameFromFrameStart DEF O!Parse, from
    <2>2. <<>> \o more = more
      BY ConcatEmpty
    <2> QED
      BY <1>3, <1>4, <2>1, <2>2 DEF OstricClean, Heard
  <1>5. CASE from # <<>>
    <2> DEFINE got == O!Got(from)
               un  == O!Decoded(from)
    <2>1. IF O!Incomplete(got)
            THEN ptyBuf' = from /\ processed' = processed
            ELSE ptyBuf' = Shift(from, un.used + 1) /\ O!ProcessCommand(got)
      BY <1>5, SameFromFrameStart, SameShift DEF O!Parse, O!ParseFrame, from
    <2>2. k + 1 \in 1 .. Len(sent)
      <3>1. Len(sent) \in Nat
        BY DEF SentFrames
      <3> QED
        BY <1>2, <1>3, <1>5, <3>1
    <2>3. WellFormed(f) /\ f[HeaderSize] < LenModulus /\ Len(f) \in Nat
      <3>1. WellFormed(f) /\ f[HeaderSize] < LenModulus
        BY <2>2 DEF SentFrames, LengthsTold
      <3> QED
        BY <3>1 DEF WellFormed, IsFrame
    <2>4. /\ from[1] = f[1] /\ Ahead(sent, Tail(from) \o more, k, 1)
          /\ Ahead(sent, from \o more, k, 0)
      BY <1>3, <1>5
    <2> HIDE DEF k
    <2>5. /\ Decoded(sent, k, 1, Tail(from), more, un)
          /\ Len(got) = 1 + Len(un.out)
          /\ O!Incomplete(got) <=> Len(got) < Len(f)
          /\ ~O!Incomplete(got) =>
               /\ O!ChecksumRight(got, O!CmdLen(got))
               /\ SubSeq(got, 1, O!CmdLen(got)) = f
      BY <1>1, <1>2, <1>5, <2>3, <2>4, OstricGot
    <2> HIDE DEF got, un, f
    <2>6. CASE O!Incomplete(got)
      <3>1. ptyBuf' = from /\ processed' = processed
        BY <2>1, <2>6
      <3>2. Ahead(sent', ptyBuf' \o more, Len(processed'), 0)
        BY <2>4, <3>1 DEF k
      <3> QED
        BY <3>1, <3>2 DEF OstricClean, Heard
    <2>7. CASE ~O!Incomplete(got)
      <3>1. ptyBuf' = Shift(from, un.used + 1) /\ O!ProcessCommand(got)
        BY <2>1, <2>7
      <3>2. processed' = Append(processed, f)
        BY <2>5, <2>7, <3>1 DEF O!ProcessCommand
      <3>3. Heard' /\ Len(processed') = k + 1
        BY <2>2, <3>2, OneMoreHeard DEF k, f
      <3>4. /\ un.used \in 0 .. Len(Tail(from)) /\ un.out \in Seq(Byte)
            /\ 1 + Len(un.out) >= Len(f) =>
                 Ahead(sent, Shift(Tail(from), un.used) \o more, k + 1, 0)
        BY <2>5 DEF Decoded, f
      <3>5. 1 + Len(un.out) >= Len(f)
        <4>1. Len(un.out) \in Nat
          BY <3>4
        <4> QED
          BY <2>3, <2>5, <2>7, <4>1
      <3>6. Shift(Tail(from), un.used) = Shift(from, un.used + 1)
        <4>1. Tail(from) = Shift(from, 1) /\ Len(Tail(from)) = Len(from) - 1
              /\ Len(from) \in Nat /\ 1 \in 0 .. Len(from)
          BY <1>1, <1>5, TailIsShift
        <4>2. PICK n \in Nat : n = un.used
          BY <3>4
        <4>3. n \in 0 .. Len(from) - 1
          BY <3>4, <4>1, <4>2
        <4>4. Shift(Shift(from, 1), n) = Shift(from, 1 + n)
          BY <1>1, <4>1, <4>3, ShiftShift
        <4>5. 1 + n = n + 1
          BY <4>2
        <4> QED
          BY <4>1, <4>2, <4>4, <4>5
      <3>7. Ahead(sent', ptyBuf' \o more, Len(processed'), 0)
        BY <3>1, <3>3, <3>4, <3>5, <3>6
      <3> QED
        BY <3>3, <3>7 DEF OstricClean
    <2> QED
      BY <2>6, <2>7
  <1> QED
    BY <1>4, <1>5

LEMMA OstricTurnClean ==
  ASSUME LineInv, SentFrames, LengthsTold, OstricClean(OnTheWay), OstricTurn
  PROVE  OstricClean(OnTheWay)'
  <1> DEFINE room == PtyBufSize - Len(ptyBuf)
             n    == IF room < Len(wire) THEN room ELSE Len(wire)
             a    == SubSeq(wire, 1, n)
             b    == Shift(wire, n)
             buf  == ptyBuf \o a
  <1>1. /\ wire \in Seq(Byte) /\ input \in Seq(Byte) /\ buffer \in Seq(Byte)
        /\ ptyBuf \in Seq(Byte) /\ Len(ptyBuf) <= PtyBufSize
    BY LineInvParts DEF RelayInv, PtyInv
  <1>2. PtyBufSize \in Nat
    BY LineAssumption
  <1>3. wire' = b /\ O!Parse(buf)
    BY SameShift DEF OstricTurn, O!Turn, O!ReadRoom
  <1>4. sent' = sent /\ buffer' = buffer /\ input' = input
    BY DEF OstricTurn, relayVars
  <1>5. n \in 0 .. Len(wire) /\ Len(ptyBuf) + n <= PtyBufSize
    BY <1>1, <1>2
  <1> HIDE DEF n
  <1>6. /\ a \in Seq(Byte) /\ Len(a) = n /\ b \in Seq(Byte) /\ a \o b = wire
    BY <1>1, <1>5, SubSeqType, ShiftType, CutInTwo
  <1> HIDE DEF a, b
  <1>7. buf \in Seq(Byte) /\ Len(buf) <= PtyBufSize
    <2>1. buf \in Seq(Byte) /\ Len(buf) = Len(ptyBuf) + Len(a)
      BY <1>1, <1>6, ConcatType
    <2> QED
      BY <1>5, <1>6, <2>1
  <1> DEFINE later == buffer \o input
             more  == b \o later
  <1>8. later \in Seq(Byte) /\ OnTheWay = wire \o later
        /\ OnTheWay' = wire' \o later
    BY <1>1, <1>4, ConcatType DEF OnTheWay
  <1> HIDE DEF later
  <1>9. more \in Seq(Byte)
    BY <1>6, <1>8, ConcatType
  <1>10. buf \o more = ptyBuf \o OnTheWay
    <2>1. a \in Seq(Byte) /\ b \in Seq(Byte) /\ later \in Seq(Byte)
          /\ ptyBuf \in Seq(Byte)
      BY <1>1, <1>6, <1>8
    <2>2. PICK c \in Seq(Byte) : c = b \o later
      BY <1>9
    <2>3. (ptyBuf \o a) \o c = ptyBuf \o (a \o c)
      BY ONLY <2>1, <2>2, ConcatAssociates, ZenonT(60)
    <2>4. a \o (b \o later) = (a \o b) \o later
      BY ONLY <2>1, ConcatAssociates, ZenonT(60)
    <2> QED
      BY <1>6, <1>8, <2>2, <2>3, <2>4
  <1> HIDE DEF buf, more
  <1>11. Heard /\ Ahead(sent, buf \o more, Len(processed), 0)
    BY <1>10 DEF OstricClean
  <1>12. PICK rest \in Seq(Byte) : rest = more
    BY <1>9
  <1>13. OstricClean(rest)'
    BY <1>3, <1>4, <1>7, <1>11, <1>12, ParseClean
  <1>14. OnTheWay' = rest
    BY <1>3, <1>8, <1>12 DEF more
  <1> QED
    BY <1>13, <1>14 DEF OstricClean

-----------------------------------------------------------------------------
(* What is sent *)

QuietBytes == {q \in Seq(Byte) : \A i \in 1 .. Len(q) : Quiet(q[i])}

\* The bytes s are those of the frames sent, each after some quiet bytes.
QuietStream(s) ==
  \E qs \in [1 .. Len(sent) -> QuietBytes] :
    s = FlattenSeq([i \in 1 .. Len(sent) |-> qs[i] \o OnWire(sent[i])])

\* What the line carries at first.
QuietLine == QuietStream(OnTheWay)

\* No byte that comes before a frame is taken for part of one.
QuietNoises == \A q \in Noises : q \in QuietBytes

\* A whole frame, after quiet bytes, before what is ahead of the next one.
LEMMA QuietFrameAhead ==
  ASSUME NEW fs, NEW i \in 1 .. Len(fs), Len(fs) \in Nat,
         NEW f, f = fs[i], WellFormed(f),
         NEW q \in Seq(Byte), \A j \in 1 .. Len(q) : Quiet(q[j]),
         NEW s, Ahead(fs, s, i, 0)
  PROVE  Ahead(fs, (q \o OnWire(f)) \o s, i - 1, 0)
  <1>1. f \in Seq(Byte) /\ Len(f) >= 2 /\ f # <<>> /\ IsFramingByte(f[1])
    BY Sizes DEF WellFormed, IsFrame
  <1>2. PICK k \in 0 .. Len(fs) : k = i - 1
    OBVIOUS
  <1>3. k < Len(fs) /\ k + 1 = i
    BY <1>2
  <1>4. s \in Seq(Byte)
    BY AheadBegins DEF AheadFirst
  <1>5. PICK w \in Seq(Byte) : w = OnWire(f)
    BY <1>1, OnWireType
  <1>6. Ahead(fs, w \o s, k, 0)
    <2>1. f = fs[k + 1] /\ Ahead(fs, s, k + 1, 0)
      BY <1>3
    <2>2. Ahead(fs, OnWire(f) \o s, k, 0)
      BY <1>1, <1>3, <2>1, FrameAhead
    <2> QED
      BY <1>5, <2>2
  <1>7. PICK t : t = w \o s
    OBVIOUS
  <1>8. Ahead(fs, q \o t, k, 0)
    BY <1>6, <1>7, NoiseAhead
  <1>9. (q \o w) \o s = q \o (w \o s)
    BY ONLY q \in Seq(Byte), <1>4, <1>5, ConcatAssociates, ZenonT(60)
  <1> QED
    BY <1>2, <1>5, <1>7, <1>8, <1>9

LEMMA StreamAhead ==
  ASSUME NEW fs \in Seq(Seq(Byte)), NEW n, n = Len(fs),
         \A i \in 1 .. n : WellFormed(fs[i]),
         NEW qs, \A i \in 1 .. n : /\ qs[i] \in Seq(Byte)
                                   /\ \A j \in 1 .. Len(qs[i]) : Quiet(qs[i][j])
  PROVE  Ahead(fs, FlattenSeq([i \in 1 .. n |-> qs[i] \o OnWire(fs[i])]), 0, 0)
  <1> DEFINE ss == [i \in 1 .. n |-> qs[i] \o OnWire(fs[i])]
  <1>1. n \in Nat /\ Len(fs) \in Nat
    OBVIOUS
  <1>2. ASSUME NEW i \in 1 .. n PROVE ss[i] \in Seq(Byte)
    <2>1. fs[i] \in Seq(Byte) /\ fs[i] # <<>>
      BY Sizes DEF WellFormed, IsFrame
    <2>2. OnWire(fs[i]) \in Seq(Byte) /\ qs[i] \in Seq(Byte)
      BY <2>1, OnWireType
    <2>3. qs[i] \o OnWire(fs[i]) \in Seq(Byte)
      BY <2>2, ConcatType
    <2> QED
      BY <2>3
  <1>3. ss \in Seq(Seq(Byte)) /\ Len(ss) = n
    BY <1>1, <1>2
  <1>4. ASSUME NEW i \in 1 .. n, NEW s, Ahead(fs, s, i, 0)
        PROVE  Ahead(fs, ss[i] \o s, i - 1, 0)
    <2>1. PICK f : f = fs[i]
      OBVIOUS
    <2>2. PICK q \in Seq(Byte) : q = qs[i]
      OBVIOUS
    <2>3. WellFormed(f) /\ \A j \in 1 .. Len(q) : Quiet(q[j])
      BY <2>1, <2>2
    <2>4. Ahead(fs, (q \o OnWire(f)) \o s, i - 1, 0)
      BY <1>1, <1>4, <2>1, <2>3, QuietFrameAhead
    <2> QED
      BY <2>1, <2>2, <2>4
  <1> HIDE DEF ss
  <1>5. \A i \in 1 .. Len(ss) : \A s :
          Ahead(fs, s, i, 0) => Ahead(fs, ss[i] \o s, i - 1, 0)
    BY <1>3, <1>4
  <1>6. Ahead(fs, FlattenSeq(ss), 0, 0)
    BY <1>3, <1>5, FramesAhead
  <1> QED
    BY <1>6 DEF ss

LEMMA QuietStreamAhead ==
  ASSUME SentFrames, NEW s, QuietStream(s)
  PROVE  Ahead(sent, s, 0, 0)
  <1>1. PICK qs \in [1 .. Len(sent) -> QuietBytes] :
          s = FlattenSeq([i \in 1 .. Len(sent) |-> qs[i] \o OnWire(sent[i])])
    BY DEF QuietStream
  <1>2. PICK n : n = Len(sent)
    OBVIOUS
  <1>3. sent \in Seq(Seq(Byte)) /\ \A i \in 1 .. n : WellFormed(sent[i])
    BY <1>2 DEF SentFrames
  <1>4. \A i \in 1 .. n : /\ qs[i] \in Seq(Byte)
                          /\ \A j \in 1 .. Len(qs[i]) : Quiet(qs[i][j])
    BY <1>1, <1>2 DEF QuietBytes
  <1>5. Ahead(sent, FlattenSeq([i \in 1 .. n |-> qs[i] \o OnWire(sent[i])]), 0, 0)
    BY <1>2, <1>3, <1>4, StreamAhead
  <1> QED
    BY <1>1, <1>2, <1>5

\* The noisy line carries well-formed frames, and is quiet if the noise is.
LEMMA NoisyLineClean ==
  ASSUME NoisyLine
  PROVE  SentFrames /\ input = <<>> /\ (QuietNoises => QuietStream(wire))
  <1>1. PICK k \in 1 .. NumFrames :
          \E ps \in [1 .. k -> Payloads], ns \in [1 .. k -> Noises],
             types \in [1 .. k -> {Start, GwStart}] :
            /\ sent = [i \in 1 .. k |-> Frame("sricd", types[i], ps[i])]
            /\ wire = FlattenSeq([i \in 1 .. k |-> ns[i] \o OnWire(sent[i])])
    BY DEF NoisyLine
  <1>2. PICK ps \in [1 .. k -> Payloads], ns \in [1 .. k -> Noises],
             types \in [1 .. k -> {Start, GwStart}] :
          /\ sent = [i \in 1 .. k |-> Frame("sricd", types[i], ps[i])]
          /\ wire = FlattenSeq([i \in 1 .. k |-> ns[i] \o OnWire(sent[i])])
    BY <1>1
  <1>3. k \in Nat
    BY LineAssumption
  <1>4. ASSUME NEW i \in 1 .. k PROVE WellFormed(sent[i]) /\ sent[i] \in Seq(Byte)
    <2>1. ps[i] \in Seq(Byte) /\ Len(ps[i]) <= PayloadMax
      BY LineAssumption
    <2>2. types[i] \in {Start, GwStart}
      OBVIOUS
    <2>3. WellFormed(Frame("sricd", types[i], ps[i]))
      BY <2>1, <2>2, FrameWellFormed
    <2>4. WellFormed(sent[i])
      BY <1>2, <2>3
    <2> QED
      BY <2>4 DEF WellFormed, IsFrame
  <1>5. sent \in Seq(Seq(Byte)) /\ Len(sent) = k
    BY <1>2, <1>3, <1>4
  <1>6. \A i \in 1 .. k : WellFormed(sent[i])
    BY <1>4
  <1>7. ASSUME QuietNoises PROVE QuietStream(wire)
    <2>1. ns \in [1 .. k -> QuietBytes]
      BY <1>7 DEF QuietNoises
    <2> QED
      BY <1>2, <1>5, <2>1 DEF QuietStream
  <1> QED
    BY <1>5, <1>6, <1>7 DEF SentFrames, NoisyLine

\* The line behind trumpets carries well-formed frames and nothing else.
LEMMA RelayedLineClean ==
  ASSUME RelayedLine, listener \in {"sricd", "ostric"}
  PROVE  SentFrames /\ wire = <<>> /\ QuietStream(input)
  <1>1. PICK t \in Relayed[listener] :
          sent = [i \in DOMAIN t |-> Frame(listener, t[i].type, t[i].payload)]
    BY DEF RelayedLine
  <1>2. /\ t \in Seq([type : {Start, GwStart}, payload : Seq(Byte)])
        /\ \A i \in DOMAIN t : Len(t[i].payload) <= PayloadMax
    BY LineAssumption
  <1> DEFINE k == Len(t)
  <1>3. k \in Nat /\ DOMAIN t = 1 .. k
    BY <1>2
  <1>4. DOMAIN sent = 1 .. k
    BY <1>1, <1>3
  <1>5. ASSUME NEW i \in 1 .. k PROVE WellFormed(sent[i]) /\ sent[i] \in Seq(Byte)
    <2>1. t[i] \in [type : {Start, GwStart}, payload : Seq(Byte)]
      <3> HIDE DEF k
      <3> QED
        BY <1>2, <1>3, ElementType
    <2>2. t[i].type \in {Start, GwStart} /\ t[i].payload \in Seq(Byte)
      BY <2>1
    <2>3. WellFormed(Frame(listener, t[i].type, t[i].payload))
      BY <1>2, <1>3, <2>2, FrameWellFormed
    <2>4. WellFormed(sent[i])
      BY <1>1, <1>3, <2>3
    <2> QED
      BY <2>4 DEF WellFormed, IsFrame
  <1> HIDE DEF k
  <1>6. sent \in Seq(Seq(Byte)) /\ Len(sent) = k
    BY <1>1, <1>3, <1>4, <1>5
  <1> DEFINE qs == [i \in 1 .. k |-> <<>>]
  <1>7. qs \in [1 .. k -> QuietBytes]
    <2>1. <<>> \in QuietBytes
      BY DEF QuietBytes
    <2> QED
      BY <2>1
  <1>8. \A i \in 1 .. k : qs[i] \o OnWire(sent[i]) = OnWire(sent[i])
    <2> TAKE i \in 1 .. k
    <2>1. sent[i] \in Seq(Byte) /\ sent[i] # <<>>
      BY <1>5, Sizes DEF WellFormed, IsFrame
    <2>2. OnWire(sent[i]) \in Seq(Byte)
      BY <2>1, OnWireType
    <2>3. <<>> \o OnWire(sent[i]) = OnWire(sent[i])
      BY <2>2, ConcatEmpty
    <2> QED
      BY <2>3
  <1> HIDE DEF qs
  <1>9. \A i \in 1 .. k : WellFormed(sent[i])
    BY <1>5
  <1>10. [i \in 1 .. k |-> qs[i] \o OnWire(sent[i])]
           = [i \in DOMAIN sent |-> OnWire(sent[i])]
    BY <1>4, <1>8
  <1>11. input = FlattenSeq([i \in 1 .. k |-> qs[i] \o OnWire(sent[i])])
    BY <1>10 DEF RelayedLine
  <1> QED
    BY <1>6, <1>7, <1>9, <1>11 DEF SentFrames, RelayedLine, QuietStream

-----------------------------------------------------------------------------
(* The invariant of a clean line *)

\* While no bit has gone wrong, the listener has the frames already processed
\* behind it and, in its buffers and on their way, the others ahead of it.
CleanLineInv ==
  /\ LineInv
  /\ SentFrames
  /\ errors \in Nat
  /\ listener \in {"sricd", "ostric"}
  /\ errors = 0 /\ listener = "sricd" => SricdClean(OnTheWay)
  /\ errors = 0 /\ listener = "ostric" /\ LengthsTold => OstricClean(OnTheWay)

\* Every line is quiet behind trumpets, and with quiet noise before it.
LEMMA LinesAreQuiet ==
  ASSUME LineInit, RelayedLine \/ QuietNoises
  PROVE  QuietLine
  <1>1. listener \in {"sricd", "ostric"} /\ buffer = <<>>
    BY DEF LineInit
  <1>2. wire \in Seq(Byte) /\ input \in Seq(Byte)
    BY LineInvInit, LineInvParts DEF RelayInv
  <1>3. \A s \in Seq(Byte) : s \o <<>> = s /\ <<>> \o s = s
    BY ConcatEmpty
  <1>4. OnTheWay = wire \o input
    BY <1>1, <1>2, <1>3 DEF OnTheWay
  <1>5. CASE RelayedLine
    <2>1. wire = <<>> /\ QuietStream(input)
      BY <1>1, <1>5, RelayedLineClean
    <2>2. OnTheWay = input
      BY <1>2, <1>3, <1>4, <2>1
    <2> QED
      BY <2>1, <2>2 DEF QuietLine
  <1>6. CASE NoisyLine /\ QuietNoises
    <2>1. input = <<>> /\ QuietStream(wire)
      BY <1>6, NoisyLineClean
    <2>2. OnTheWay = wire
      BY <1>2, <1>3, <1>4, <2>1
    <2> QED
      BY <2>1, <2>2 DEF QuietLine
  <1> QED
    BY <1>5, <1>6 DEF LineInit

LEMMA CleanLineInit ==
  ASSUME LineInit, QuietLine
  PROVE  CleanLineInv
  <1>1. LineInv
    BY LineInvInit
  <1>2. /\ listener \in {"sricd", "ostric"} /\ errors = 0 /\ buffer = <<>>
        /\ ptyBuf = <<>> /\ rxbuf = <<>> /\ unesc = <<>> /\ ~looping
        /\ processed = <<>>
    BY DEF LineInit, Init
  <1>3. wire \in Seq(Byte) /\ input \in Seq(Byte)
    BY <1>1, LineInvParts DEF RelayInv
  <1>4. \A s \in Seq(Byte) : s \o <<>> = s /\ <<>> \o s = s
    BY ConcatEmpty
  <1>5. SentFrames /\ Ahead(sent, OnTheWay, 0, 0)
    <2>1. SentFrames
      BY <1>2, NoisyLineClean, RelayedLineClean DEF LineInit
    <2> QED
      BY <2>1, QuietStreamAhead DEF QuietLine
  <1>6. OnTheWay \in Seq(Byte)
    BY <1>5, AheadBegins DEF AheadFirst
  <1>7. <<>> \o OnTheWay = OnTheWay
    BY <1>4, <1>6
  <1>8. Len(<<>>) = 0 /\ <<>> \in Seq(Seq(Byte))
    OBVIOUS
  <1>9. Heard
    BY <1>2, <1>8 DEF Heard
  <1>10. SricdClean(OnTheWay)
    BY <1>2, <1>5, <1>7, <1>8, <1>9 DEF SricdClean
  <1>11. OstricClean(OnTheWay)
    BY <1>2, <1>5, <1>7, <1>8, <1>9 DEF OstricClean
  <1> QED
    BY <1>1, <1>2, <1>5, <1>10, <1>11 DEF CleanLineInv

LEMMA CleanLineStep == CleanLineInv /\ [LineNext]_vars => CleanLineInv'
  <1> SUFFICES ASSUME CleanLineInv, [LineNext]_vars PROVE CleanLineInv'
    OBVIOUS
  <1>1. /\ LineInv /\ SentFrames /\ errors \in Nat
        /\ listener \in {"sricd", "ostric"}
        /\ errors = 0 /\ listener = "sricd" => SricdClean(OnTheWay)
        /\ errors = 0 /\ listener = "ostric" /\ LengthsTold
             => OstricClean(OnTheWay)
    BY DEF CleanLineInv
  <1>2. LineInv'
    BY <1>1, LineInvStep
  <1>3. sent' = sent /\ listener' = listener
    BY DEF LineNext, SricdRx, OstricTurn, TrumpetsRelay, vars
  <1>4. SentFrames' /\ (LengthsTold' <=> LengthsTold)
    BY <1>1, <1>3 DEF SentFrames, LengthsTold
  <1>5. CASE SricdRx
    <2>1. errors' = errors /\ listener = "sricd"
      BY <1>5 DEF SricdRx, relayVars
    <2>2. errors = 0 => SricdClean(OnTheWay)'
      BY <1>1, <1>5, <2>1, SricdRxClean
    <2> QED
      BY <1>1, <1>2, <1>3, <1>4, <2>1, <2>2 DEF CleanLineInv
  <1>6. CASE OstricTurn
    <2>1. errors' = errors /\ listener = "ostric"
      BY <1>6 DEF OstricTurn, relayVars
    <2>2. errors = 0 /\ LengthsTold => OstricClean(OnTheWay)'
      BY <1>1, <1>6, <2>1, OstricTurnClean
    <2> QED
      BY <1>1, <1>2, <1>3, <1>4, <2>1, <2>2 DEF CleanLineInv
  <1>7. CASE TrumpetsRelay
    <2>1. /\ T!Relay /\ UNCHANGED <<receiverVars, ptyBuf>>
      BY <1>7 DEF TrumpetsRelay
    <2>2. RelayInv
      BY <1>1, LineInvParts
    <2>3. errors' \in Nat /\ (errors' = 0 => errors = 0 /\ OnTheWay' = OnTheWay)
      BY <1>1, <2>1, <2>2, RelayClean
    <2>4. ASSUME errors' = 0, listener = "sricd" PROVE SricdClean(OnTheWay)'
      <3>1. SricdClean(OnTheWay) /\ OnTheWay' = OnTheWay
        BY <1>1, <2>3, <2>4
      <3> QED
        BY <1>3, <2>1, <3>1 DEF SricdClean, Heard, receiverVars
    <2>5. ASSUME errors' = 0, listener = "ostric", LengthsTold
          PROVE  OstricClean(OnTheWay)'
      <3>1. OstricClean(OnTheWay) /\ OnTheWay' = OnTheWay
        BY <1>1, <2>3, <2>5
      <3> QED
        BY <1>3, <2>1, <3>1 DEF OstricClean, Heard, receiverVars
    <2> QED
      BY <1>1, <1>2, <1>3, <1>4, <2>3, <2>4, <2>5 DEF CleanLineInv
  <1>8. CASE UNCHANGED vars
    <2>1. UNCHANGED <<wire, receiverVars, ptyBuf, relayVars>>
      BY <1>8 DEF vars
    <2>2. errors' = errors /\ OnTheWay' = OnTheWay
      BY <2>1 DEF OnTheWay, relayVars
    <2>3. SricdClean(OnTheWay) => SricdClean(OnTheWay)'
      BY <1>3, <2>1, <2>2 DEF SricdClean, Heard, receiverVars
    <2>4. OstricClean(OnTheWay) => OstricClean(OnTheWay)'
      BY <1>3, <2>1, <2>2 DEF OstricClean, Heard, receiverVars
    <2> QED
      BY <1>1, <1>2, <1>3, <1>4, <2>2, <2>3, <2>4 DEF CleanLineInv
  <1> QED
    BY <1>5, <1>6, <1>7, <1>8 DEF LineNext

-----------------------------------------------------------------------------
(* What a clean line comes to *)

\* Nothing is ahead of a listener that has at most a lone escape byte left.
LEMMA AheadEnds ==
  ASSUME NEW fs, NEW s, NEW k, NEW m, Ahead(fs, s, k, m),
         s \in {<<>>, <<EscByte>>}
  PROVE  k = Len(fs) /\ m = 0
  <1>1. AheadFirst(fs, s, k, m)
    BY AheadBegins
  <1>2. Len(s) < 2
    OBVIOUS
  <1>3. s # <<>> => ~IsFramingByte(s[1]) /\ ~Quiet(s[1])
    <2>1. s = <<EscByte>> => s[1] = EscByte
      OBVIOUS
    <2> QED
      BY <2>1 DEF Quiet, IsFramingByte, EscByte, Start, GwStart
  <1>4. ~NoiseFirst(s)
    BY <1>3 DEF NoiseFirst
  <1>5. \A f : ~StartFirst(s, f)
    BY <1>3 DEF StartFirst
  <1>6. \A b : ~PlainFirst(s, b)
    BY <1>3 DEF PlainFirst
  <1>7. \A b : ~PairFirst(s, b)
    BY <1>2 DEF PairFirst
  <1> QED
    BY <1>1, <1>4, <1>5, <1>6, <1>7 DEF AheadFirst

\* No bit has gone wrong, and ostric can tell the length of every frame.
CleanLine == errors = 0 /\ (listener = "ostric" => LengthsTold)

LEMMA CleanHeard ==
  ASSUME CleanLineInv, CleanLine
  PROVE  /\ Heard /\ SentFrames
         /\ Len(sent) \in Nat /\ Len(processed) \in 0 .. Len(sent)
  <1>1. Heard /\ SentFrames
    BY DEF CleanLineInv, CleanLine, SricdClean, OstricClean
  <1>2. PICK s : Ahead(sent, s, Len(processed), 0)
              \/ Ahead(sent, s, Len(processed), Len(unesc))
    BY DEF CleanLineInv, CleanLine, SricdClean, OstricClean
  <1>3. Len(processed) \in 0 .. Len(sent)
    BY <1>2, AheadBegins DEF AheadFirst
  <1> QED
    BY <1>1, <1>3 DEF SentFrames

LEMMA CleanFramesInOrder ==
  ASSUME CleanLineInv, CleanLine
  PROVE  FramesInOrder
  <1> DEFINE at == [i \in DOMAIN processed |-> i]
  <1>1. /\ \A i \in 1 .. Len(processed) : processed[i] = sent[i]
        /\ processed \in Seq(Seq(Byte)) /\ sent \in Seq(Seq(Byte))
        /\ Len(sent) \in Nat /\ Len(processed) \in 0 .. Len(sent)
    BY CleanHeard DEF Heard, SentFrames
  <1>2. DOMAIN processed = 1 .. Len(processed) /\ DOMAIN sent = 1 .. Len(sent)
    BY <1>1
  <1>3. DOMAIN processed \subseteq DOMAIN sent
    BY <1>1, <1>2
  <1>4. at \in [DOMAIN processed -> DOMAIN sent]
    BY <1>3
  <1>5. /\ \A i \in DOMAIN processed : processed[i] = sent[at[i]]
        /\ \A i, j \in DOMAIN processed : i < j => at[i] < at[j]
    BY <1>1, <1>2
  <1> QED
    BY <1>4, <1>5 DEF FramesInOrder

LEMMA NothingOnTheWay ==
  ASSUME LineInv, Delivered
  PROVE  OnTheWay = <<>> /\ \A s \in Seq(Byte) : s \o OnTheWay = s
  <1>1. \A s \in Seq(Byte) : s \o <<>> = s /\ <<>> \o s = s
    BY ConcatEmpty
  <1>2. <<>> \in Seq(Byte)
    OBVIOUS
  <1>3. OnTheWay = <<>>
    BY <1>1, <1>2 DEF OnTheWay, Delivered
  <1> QED
    BY <1>1, <1>3

LEMMA CleanNothingHeldBack ==
  ASSUME CleanLineInv, CleanLine
  PROVE  NothingHeldBack
  <1> SUFFICES ASSUME listener = "sricd", Delivered, ~looping
               PROVE  Missing <= errors
    BY DEF NothingHeldBack
  <1>1. LineInv /\ SricdClean(OnTheWay) /\ errors = 0
    BY DEF CleanLineInv, CleanLine
  <1>2. rxbuf \in Seq(Byte)
    BY <1>1, LineInvParts DEF ReceiverInv, FramingTypeOK
  <1>3. Ahead(sent, rxbuf, Len(processed), Len(unesc))
    BY <1>1, <1>2, NothingOnTheWay DEF SricdClean
  <1>4. rxbuf \in {<<>>, <<EscByte>>}
    BY <1>1 DEF SricdClean
  <1>5. Len(processed) = Len(sent)
    BY <1>3, <1>4, AheadEnds
  <1> QED
    BY <1>1, <1>5, CleanHeard DEF Missing

\* The frame that blocks ostric is the next one, which it has in part: as much
\* of the line as is in pty_buf, but for a lone 0x7D, is some of its bytes.
LEMMA CleanBlocked ==
  ASSUME CleanLineInv, CleanLine, listener = "ostric", O!Blocked
  PROVE  LET k == Len(processed)
             f == sent[k + 1]
         IN  /\ k < Len(sent)
             /\ Len(ptyBuf) < Len(OnWire(f))
             /\ \E rest \in {<<>>, <<EscByte>>}, m \in Nat \ {0} :
                  Ahead(sent, rest \o OnTheWay, k, m)
  <1> DEFINE k == Len(processed)
             f == sent[k + 1]
             x == Tail(ptyBuf)
             un == O!Decoded(ptyBuf)
             got == O!Got(ptyBuf)
  <1>1. /\ ptyBuf # <<>> /\ IsFramingByte(ptyBuf[1]) /\ O!Incomplete(got)
    BY DEF O!Blocked, O!IsFramingByte, IsFramingByte, O!Start, Start,
           O!GwStart, GwStart
  <1>2. LineInv /\ OstricClean(OnTheWay) /\ LengthsTold /\ SentFrames
    BY DEF CleanLineInv, CleanLine
  <1>3. ptyBuf \in Seq(Byte) /\ Len(ptyBuf) <= PtyBufSize
    BY <1>2, LineInvParts DEF PtyInv
  <1>4. PICK more \in Seq(Byte) : more = OnTheWay
    <2>1. OnTheWay \in Seq(Byte)
      BY <1>2, LineInvParts, ConcatType DEF RelayInv, OnTheWay
    <2> QED
      BY <2>1
  <1>5. k < Len(sent) /\ ptyBuf[1] = f[1] /\ Ahead(sent, x \o more, k, 1)
    <2> DEFINE s == ptyBuf \o more
    <2>1. Ahead(sent, s, k, 0)
      BY <1>2, <1>4 DEF OstricClean
    <2>2. AheadFirst(sent, s, k, 0)
      BY <2>1, AheadBegins
    <2>3. s # <<>> /\ s[1] = ptyBuf[1] /\ Shift(s, 1) = x \o more
      <3>1. x = Shift(ptyBuf, 1) /\ 1 \in 1 .. Len(ptyBuf)
        BY <1>1, <1>3, TailIsShift
      <3>2. 1 \in 0 .. Len(ptyBuf) /\ Len(ptyBuf) \in Nat /\ Len(more) \in Nat
        BY <1>3, <3>1
      <3>3. Shift(s, 1) = Shift(ptyBuf, 1) \o more
        BY <1>3, <3>2, ShiftConcat
      <3>4. s[1] = ptyBuf[1] /\ Len(s) # 0
        BY <1>3, <3>1, <3>2, ConcatFirst, ConcatType
      <3>5. s # <<>>
        <4> HIDE DEF s
        <4> QED
          BY <3>4
      <3>6. Shift(s, 1) = x \o more
        BY <3>1, <3>3
      <3> HIDE DEF s
      <3> QED
        BY <3>4, <3>5, <3>6
    <2> HIDE DEF s
    <2>4. ~NoiseFirst(s)
      BY <1>1, <2>3 DEF NoiseFirst, Quiet
    <2>5. k < Len(sent) /\ StartFirst(s, f) /\ Ahead(sent, Shift(s, 1), k, 1)
      BY <2>2, <2>3, <2>4 DEF AheadFirst, Within
    <2> QED
      BY <2>3, <2>5 DEF StartFirst
  <1>6. k \in Nat /\ k + 1 \in 1 .. Len(sent)
    BY <1>5, CleanHeard
  <1>7. /\ WellFormed(f) /\ f[HeaderSize] < LenModulus
        /\ f \in Seq(Byte) /\ Len(f) \in Nat /\ Len(f) >= 6
    <2>1. WellFormed(f) /\ f[HeaderSize] < LenModulus
      BY <1>2, <1>6 DEF SentFrames, LengthsTold
    <2>2. f \in Seq(Byte) /\ Len(f) >= 6
      BY <2>1, Sizes DEF WellFormed, IsFrame
    <2>3. Len(f) \in Nat
      BY <2>2
    <2> QED
      BY <2>1, <2>2, <2>3
  <1>8. x \in Seq(Byte) /\ Len(x) = Len(ptyBuf) - 1 /\ Len(ptyBuf) \in Nat
    BY <1>1, <1>3
  <1> HIDE DEF k
  <1>9. /\ Decoded(sent, k, 1, x, more, un)
        /\ Len(got) = 1 + Len(un.out)
        /\ O!Incomplete(got) <=> Len(got) < Len(f)
    BY <1>1, <1>3, <1>5, <1>6, <1>7, OstricGot
  <1> HIDE DEF un, got, f, x
  <1> DEFINE o == un.out
             m == 1 + Len(o)
             rest == Shift(x, un.used)
  <1>10. /\ o \in Seq(Byte) /\ Len(o) \in Nat /\ m \in Nat \ {0} /\ m < Len(f)
         /\ un.used \in 0 .. Len(x) /\ Continues(o, f, 1)
    BY <1>1, <1>9 DEF Decoded, f
  <1>11. /\ Ahead(sent, rest \o more, k, m) /\ rest \in {<<>>, <<EscByte>>}
         /\ un.used = Len(Escape(o))
    BY <1>9, <1>10 DEF Decoded, f
  <1>12. Len(rest) = Len(x) - un.used
    BY <1>8, <1>10, ShiftType
  <1> HIDE DEF o, rest
  \* The byte the frame goes on with, and what stands on the wire for it.
  <1> DEFINE c == f[m + 1]
             t == Tail(f)
  <1>13. /\ t \in Seq(Byte) /\ Len(o) < Len(t) /\ c \in Byte /\ t[Len(o) + 1] = c
         /\ \A i \in 1 .. Len(o) : o[i] = t[i]
    <2>1. t \in Seq(Byte) /\ Len(t) = Len(f) - 1 /\ \A i \in 1 .. Len(t) : t[i] = f[i + 1]
      BY <1>7
    <2>2. Len(o) + 1 \in 1 .. Len(t) /\ (Len(o) + 1) + 1 = m + 1
          /\ m + 1 \in 1 .. Len(f)
      BY <1>7, <1>10, <2>1
    <2>3. c \in Byte
      BY <1>7, <2>2
    <2>4. ASSUME NEW i \in 1 .. Len(o) PROVE o[i] = t[i]
      <3>1. i \in 1 .. Len(t) /\ 1 + i <= Len(f) /\ 1 + i = i + 1
        BY <1>7, <1>10, <2>1
      <3> QED
        BY <1>10, <2>1, <3>1 DEF Continues
    <2> HIDE DEF t, c
    <2> QED
      BY <1>7, <1>10, <2>1, <2>2, <2>3, <2>4 DEF c
  <1>14. /\ Len(EscapedByte(c)) \in Nat
         /\ Len(rest) < Len(EscapedByte(c))
    <2>1. Len(EscapedByte(c)) \in 1 .. 2
      BY <1>13, EscapedByteType
    <2>2. rest = <<>> => Len(rest) = 0
      OBVIOUS
    <2>3. ASSUME rest = <<EscByte>>
          PROVE  Len(rest) = 1 /\ Len(EscapedByte(c)) = 2
      <3> DEFINE s == rest \o more
      <3>1. Len(rest) = 1 /\ s[1] = EscByte
        BY <1>4, <2>3
      <3>2. AheadFirst(sent, s, k, m)
        BY <1>11, AheadBegins
      <3> HIDE DEF s
      <3>3. \A y : ~PlainFirst(s, y)
        BY <3>1 DEF PlainFirst, Quiet
      <3>4. ~Quiet(c)
        BY <1>10, <3>2, <3>3 DEF AheadFirst, PairFirst, f
      <3>5. EscapedByte(c) = <<EscByte, Toggle(c)>>
        BY <3>4 DEF EscapedByte, Quiet
      <3>6. Len(EscapedByte(c)) = 2
        BY <3>5
      <3> QED
        BY <3>1, <3>6
    <2> HIDE DEF t, c
    <2>4. CASE rest = <<>>
      BY <2>1, <2>2, <2>4
    <2>5. CASE rest = <<EscByte>>
      <3>1. Len(rest) = 1 /\ Len(EscapedByte(c)) = 2
        BY <2>3, <2>5
      <3> QED
        BY <3>1
    <2> QED
      BY <1>11, <2>4, <2>5
  <1> HIDE DEF t, c
  <1>15. Len(Escape(t)) >= Len(Escape(o)) + Len(EscapedByte(c))
    BY <1>10, <1>13, EscapePrefix
  <1>16. Len(OnWire(f)) = 1 + Len(Escape(t)) /\ Len(Escape(t)) \in Nat
    <2>1. Escape(t) \in Seq(Byte)
      BY <1>13, EscapeType
    <2>2. PICK u \in Seq(Byte) : u = Escape(t)
      BY <2>1
    <2>3. Head(f) \in Byte
      BY <1>7
    <2>4. Len(<<Head(f)>> \o u) = 1 + Len(u) /\ Len(u) \in Nat
      BY <2>3
    <2> QED
      BY <2>2, <2>4 DEF OnWire, t
  <1>17. Len(ptyBuf) < Len(OnWire(f))
    <2>1. Len(ptyBuf) = 1 + un.used + Len(rest) /\ un.used \in Nat
      BY <1>8, <1>10, <1>12
    <2> QED
      BY <1>8, <1>11, <1>14, <1>15, <1>16, <2>1
  <1> QED
    BY <1>4, <1>5, <1>10, <1>11, <1>17 DEF f, k

LEMMA CleanNotBlocked ==
  ASSUME CleanLineInv, CleanLine, listener = "ostric", Delivered
  PROVE  ~O!Blocked
  <1> SUFFICES ASSUME O!Blocked PROVE FALSE
    OBVIOUS
  <1>1. PICK rest \in {<<>>, <<EscByte>>}, m \in Nat \ {0} :
          Ahead(sent, rest \o OnTheWay, Len(processed), m)
    BY CleanBlocked
  <1>2. rest \o OnTheWay = rest
    <2>1. <<>> \in Seq(Byte) /\ <<EscByte>> \in Seq(Byte)
      <3>1. EscByte \in Byte
        BY DEF EscByte, Byte
      <3> QED
        BY <3>1
    <2>2. rest \in Seq(Byte)
      BY <2>1
    <2>3. LineInv
      BY DEF CleanLineInv
    <2> QED
      BY <2>2, <2>3, NothingOnTheWay
  <1>3. Ahead(sent, rest, Len(processed), m)
    BY <1>1, <1>2
  <1>4. m = 0
    BY <1>3, AheadEnds
  <1> QED
    BY <1>4

LEMMA CleanOstricHears ==
  ASSUME CleanLineInv, CleanLine
  PROVE  OstricHears
  <1> SUFFICES ASSUME listener = "ostric", OstricAtRest
               PROVE  /\ \/ Missing <= errors + Cardinality(Untaken)
                         \/ O!Blocked /\ (errors > 0 \/ Untaken # {})
                      /\ \A i \in DOMAIN sent :
                           (\A j \in 1 .. i : TakenIn(sent[j]))
                             => i \in DOMAIN processed /\ processed[i] = sent[i]
    BY DEF OstricHears
  <1> DEFINE k == Len(processed)
  <1>1. LineInv /\ OstricClean(OnTheWay) /\ errors = 0 /\ Heard
    BY CleanHeard DEF CleanLineInv, CleanLine
  <1>2. /\ sent \in Seq(Seq(Byte)) /\ Len(sent) \in Nat /\ k \in 0 .. Len(sent)
        /\ DOMAIN sent = 1 .. Len(sent) /\ DOMAIN processed = 1 .. k
    BY CleanHeard DEF SentFrames, Heard
  <1>3. \A i \in 1 .. k : processed[i] = sent[i]
    BY <1>1 DEF Heard
  <1> HIDE DEF k
  <1>4. CASE Delivered /\ (ptyBuf = <<>> \/ O!Blocked)
    <2>1. ptyBuf = <<>>
      BY <1>4, CleanNotBlocked
    <2>2. ptyBuf \o OnTheWay = ptyBuf
      BY <1>1, <1>4, NothingOnTheWay, LineInvParts DEF PtyInv
    <2>3. Ahead(sent, <<>>, k, 0)
      BY <1>1, <2>1, <2>2 DEF OstricClean, k
    <2>4. k = Len(sent)
      BY <2>3, AheadEnds
    <2>5. Cardinality(Untaken) \in Nat
      <3>1. IsFiniteSet(1 .. Len(sent))
        BY <1>2, FS_Interval
      <3>2. Untaken \subseteq 1 .. Len(sent)
        BY <1>2 DEF Untaken
      <3>3. IsFiniteSet(Untaken)
        BY <3>1, <3>2, FS_Subset
      <3> QED
        BY <3>3, FS_CardinalityType
    <2>6. Missing = 0
      BY <1>2, <2>4 DEF Missing, k
    <2>7. Missing <= errors + Cardinality(Untaken)
      BY <1>1, <2>5, <2>6
    <2> QED
      BY <1>2, <1>3, <2>4, <2>7
  <1>5. CASE O!Blocked /\ O!ReadRoom = 0
    <2>0. Len(ptyBuf) = PtyBufSize
      <3>1. ptyBuf \in Seq(Byte) /\ PtyBufSize \in Nat
        BY <1>1, LineInvParts, LineAssumption DEF PtyInv
      <3>2. Len(ptyBuf) \in Nat
        BY <3>1
      <3> QED
        BY <1>5, <3>1, <3>2 DEF O!ReadRoom
    <2>1. k < Len(sent) /\ Len(ptyBuf) < Len(OnWire(sent[k + 1]))
      BY <1>5, CleanBlocked DEF k
    <2>2. k \in Nat /\ k + 1 \in 1 .. Len(sent)
      BY <1>2, <2>1
    <2>3. ~TakenIn(sent[k + 1])
      <3>1. sent[k + 1] \in Seq(Byte) /\ sent[k + 1] # <<>>
        <4>1. IsFrame(sent[k + 1])
          BY <2>2 DEF CleanLineInv, CleanLine, SentFrames, WellFormed
        <4> QED
          BY <4>1, Sizes DEF IsFrame
      <3>2. Len(OnWire(sent[k + 1])) \in Nat
        BY <3>1, OnWireType
      <3>3. PtyBufSize \in Nat
        BY LineAssumption
      <3> QED
        BY <2>0, <2>1, <3>2, <3>3 DEF TakenIn
    <2>4. Untaken # {}
      BY <1>2, <2>2, <2>3 DEF Untaken
    <2>5. ASSUME NEW i \in 1 .. Len(sent), \A j \in 1 .. i : TakenIn(sent[j])
          PROVE  i \in 1 .. k
      <3>1. ~(k + 1 \in 1 .. i)
        BY <2>3, <2>5
      <3> QED
        BY <2>2, <3>1
    <2> QED
      BY <1>2, <1>3, <1>5, <2>4, <2>5
  <1> QED
    BY <1>4, <1>5 DEF OstricAtRest

\* On a line that carries frames and quiet bytes, the invariant holds in every
\* reachable state, for frames of any number, order and contents.
THEOREM CleanLineInvariant ==
  LineSpec /\ QuietLine => []CleanLineInv
  <1>1. LineInit /\ QuietLine => CleanLineInv
    BY CleanLineInit
  <1>2. CleanLineInv /\ [LineNext]_vars => CleanLineInv'
    BY CleanLineStep
  <1> QED
    BY <1>1, <1>2, PTL DEF LineSpec

\* Both listeners act on the frames sent, unchanged, in order and once each,
\* however their bytes are cut into reads (FramesInOrder): what sricd's rx and
\* ostric's read_frames do to their buffers loses and invents nothing.
THEOREM CleanLineInOrder ==
  LineSpec /\ QuietLine => [](CleanLine => FramesInOrder)
  <1>1. CleanLineInv => (CleanLine => FramesInOrder)
    BY CleanFramesInOrder
  <1> QED
    BY <1>1, CleanLineInvariant, PTL

\* Once every byte has been read and rx() has returned, sricd has processed
\* every frame (NothingHeldBack): advance_rx holds none back.
THEOREM CleanLineHoldsNothingBack ==
  LineSpec /\ QuietLine => [](CleanLine => NothingHeldBack)
  <1>1. CleanLineInv => (CleanLine => NothingHeldBack)
    BY CleanNothingHeldBack
  <1> QED
    BY <1>1, CleanLineInvariant, PTL

\* Once its turns change nothing, ostric has executed every frame sent before
\* the first that pty_buf has no room for, the one that just fills it included
\* (OstricHears): it is blocked by such a frame only, and is not when every
\* byte has reached it.
THEOREM CleanLineOstricHears ==
  LineSpec /\ QuietLine => [](CleanLine => OstricHears)
  <1>1. CleanLineInv => (CleanLine => OstricHears)
    BY CleanOstricHears
  <1> QED
    BY <1>1, CleanLineInvariant, PTL
=============================================================================
