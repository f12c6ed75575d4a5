------------------------------ MODULE LineProofs ------------------------------
(***************************************************************************)
(* Theorems about SerialLine and the modules it composes: what the         *)
(* checksum, escaping and unescaping make of bytes, and that the receivers *)
(* of sricd and ostric and the relay keep within their buffers.            *)
(***************************************************************************)
EXTENDS SerialLine, Induction

-----------------------------------------------------------------------------
(* Bits and the checksum *)

LargestWord == 65535

Word == 0 .. LargestWord

LEMMA InByte == \A x \in Nat : x <= 255 => x \in Byte
  BY DEF Byte

LEMMA ByteIsNat == \A x \in Byte : x \in Nat
  BY DEF Byte

LEMMA Remainder ==
  ASSUME NEW x \in Nat, NEW m \in Nat, m > 0
  PROVE  x % m \in Nat
  OBVIOUS

LEMMA InWord == \A x : x \in Word <=> x \in Int /\ 0 <= x /\ x <= LargestWord
  <1>1. LargestWord \in Int
    BY DEF LargestWord
  <1> QED
    BY <1>1 DEF Word

LEMMA FlipByte ==
  ASSUME NEW n \in Byte, NEW i \in 0 .. 7
  PROVE  Flip(n, i) \in Byte
  <1>1. \/ i = 0 \/ i = 1 \/ i = 2 \/ i = 3 \/ i = 4 \/ i = 5 \/ i = 6 \/ i = 7
    OBVIOUS
  <1>2. CASE i = 0
    BY <1>2 DEF Flip, Bit, Weight, Byte
  <1>3. CASE i = 1
    BY <1>3 DEF Flip, Bit, Weight, Byte
  <1>4. CASE i = 2
    BY <1>4 DEF Flip, Bit, Weight, Byte
  <1>5. CASE i = 3
    BY <1>5 DEF Flip, Bit, Weight, Byte
  <1>6. CASE i = 4
    BY <1>6 DEF Flip, Bit, Weight, Byte
  <1>7. CASE i = 5
    BY <1>7 DEF Flip, Bit, Weight, Byte
  <1>8. CASE i = 6
    BY <1>8 DEF Flip, Bit, Weight, Byte
  <1>9. CASE i = 7
    BY <1>9 DEF Flip, Bit, Weight, Byte
  <1> QED
    BY <1>1, <1>2, <1>3, <1>4, <1>5, <1>6, <1>7, <1>8, <1>9

LEMMA ToggleByte ==
  ASSUME NEW b \in Byte
  PROVE  Toggle(b) \in Byte /\ Toggle(Toggle(b)) = b
  <1>1. Toggle(b) \in Byte
    BY FlipByte DEF Toggle
  <1>2. Toggle(Toggle(b)) = b
    BY DEF Toggle, Flip, Bit, Weight, Byte
  <1> QED
    BY <1>1, <1>2

LEMMA XorDigitType ==
  ASSUME NEW a \in 0 .. 15, NEW b \in 0 .. 15
  PROVE  XorDigit[a][b] \in 0 .. 15
  <1> DEFINE d(i) == (Bit(a, i) + Bit(b, i)) % 2
  <1>1. ASSUME NEW i \in 0 .. 3 PROVE d(i) \in {0, 1}
    <2>1. \A n \in 0 .. 15 : Bit(n, i) \in 0 .. 1
      BY DEF Bit, Weight
    <2> QED
      BY <2>1
  <1>2. XorDigit[a][b] = 1 * d(0) + 2 * d(1) + 4 * d(2) + 8 * d(3)
    BY DEF XorDigit, Weight
  <1> HIDE DEF d
  <1>3. d(0) \in {0, 1} /\ d(1) \in {0, 1} /\ d(2) \in {0, 1} /\ d(3) \in {0, 1}
    BY <1>1
  <1> QED
    BY <1>2, <1>3

LEMMA Xor8Type ==
  ASSUME NEW a \in Byte, NEW b \in Byte
  PROVE  Xor8(a, b) \in Byte
  <1>1. /\ a \div 16 \in 0 .. 15 /\ b \div 16 \in 0 .. 15
        /\ a % 16 \in 0 .. 15 /\ b % 16 \in 0 .. 15
    BY DEF Byte
  <1>2. /\ XorDigit[a \div 16][b \div 16] \in 0 .. 15
        /\ XorDigit[a % 16][b % 16] \in 0 .. 15
    BY <1>1, XorDigitType
  <1> QED
    BY <1>2 DEF Xor8, Byte

LEMMA Halves ==
  ASSUME NEW a \in Word
  PROVE  a \div 256 \in Byte /\ a % 256 \in Byte
  <1>1. a \in Nat /\ a <= 65535
    BY InWord DEF LargestWord
  <1>2. a \div 256 \in Nat /\ a \div 256 <= 255
    BY <1>1
  <1>3. a % 256 \in Nat /\ a % 256 <= 255
    BY <1>1
  <1> QED
    BY <1>2, <1>3 DEF Byte

LEMMA Xor16Type ==
  ASSUME NEW a \in Word, NEW b \in Word
  PROVE  Xor16(a, b) \in Word
  <1>1. /\ Xor8(a \div 256, b \div 256) \in Byte
        /\ Xor8(a % 256, b % 256) \in Byte
    BY Halves, Xor8Type
  <1> DEFINE hi == Xor8(a \div 256, b \div 256)
             lo == Xor8(a % 256, b % 256)
  <1>2. hi \in 0 .. 255 /\ lo \in 0 .. 255 /\ Xor16(a, b) = 256 * hi + lo
    BY <1>1 DEF Xor16, Byte
  <1> HIDE DEF hi, lo
  <1>3. /\ 256 * hi + lo \in Int
        /\ 0 <= 256 * hi + lo
        /\ 256 * hi + lo <= 65535
    BY <1>2
  <1> QED
    BY <1>2, <1>3, InWord DEF LargestWord

LEMMA CrcShiftType ==
  ASSUME NEW c \in Word
  PROVE  CrcShift(c) \in Word
  <1>1. c \div 2 \in Word
    <2>1. c \in Int /\ 0 <= c /\ c <= 65535
      BY InWord DEF LargestWord
    <2>2. c \div 2 \in Int /\ 0 <= c \div 2 /\ c \div 2 <= 65535
      BY <2>1
    <2> QED
      BY <2>2, InWord DEF LargestWord
  <1>2. Polynomial \in Word
    BY InWord DEF Polynomial, LargestWord
  <1> QED
    BY <1>1, <1>2, Xor16Type DEF CrcShift

LEMMA CrcTableType ==
  ASSUME NEW n \in Byte
  PROVE  CrcTable[n] \in Word
  <1> DEFINE Body(f) == [k \in 0 .. 8 |-> IF k = 0 THEN n ELSE CrcShift(f[k - 1])]
             step == [k \in 1 .. 8 |-> [c \in Word |-> CrcShift(c)]]
             u == CHOOSE f : f = Body(f)
  <1>1. n \in Word
    <2>1. n \in Int /\ 0 <= n /\ n <= 65535
      BY DEF Byte
    <2> QED
      BY <2>1, InWord DEF LargestWord
  <1>2. CrcTable[n] = u[8]
    BY DEF CrcTable
  <1>3. \E f : f = Body(f)
    <2>1. step \in [1 .. 8 -> [Word -> Word]]
      BY CrcShiftType
    <2>2. \A k \in 1 .. 8, c \in Word : step[k][c] = CrcShift(c)
      OBVIOUS
    <2> HIDE DEF step
    <2>3. PICK f : Solves(f, 8, Word, n, step)
      <3> HIDE DEF Body
      <3> QED
        BY <1>1, <2>1, Recursion
    <2>4. \A k \in 0 .. 8 : f[k] = IF k = 0 THEN n ELSE CrcShift(f[k - 1])
      BY <2>2, <2>3 DEF Solves
    <2>5. f = Body(f)
      BY <2>3, <2>4 DEF Solves
    <2> QED
      BY <2>5
  <1>4. u = Body(u)
    BY <1>3
  <1> HIDE DEF u
  <1>5. u[0] \in Word
    BY <1>1, <1>4
  <1>6. \A k \in 1 .. 8 : u[k - 1] \in Word => u[k] \in Word
    BY <1>4, CrcShiftType
  <1>7. \A k \in 0 .. 8 : u[k] \in Word
    <2> HIDE DEF Body
    <2> QED
      BY <1>5, <1>6, StaysIn
  <1> QED
    BY <1>2, <1>7

LEMMA CrcStepType ==
  ASSUME NEW c \in Word, NEW b \in Byte
  PROVE  CrcStep(c, b) \in Word
  <1>1. c \div 256 \in Byte /\ c % 256 \in Byte
    BY Halves
  <1>2. Xor8(c % 256, b) \in Byte
    BY <1>1, Xor8Type
  <1>3. CrcTable[Xor8(c % 256, b)] \in Word
    BY <1>2, CrcTableType
  <1>4. c \div 256 \in Word
    <2> DEFINE hi == c \div 256
    <2>1. hi \in Int /\ 0 <= hi /\ hi <= 65535
      BY <1>1 DEF Byte
    <2> QED
      BY <2>1, InWord DEF LargestWord
  <1> QED
    BY <1>3, <1>4, Xor16Type DEF CrcStep

LEMMA Crc16Type ==
  ASSUME NEW s \in Seq(Byte)
  PROVE  Crc16(s) \in Word
  <1> DEFINE n == Len(s)
             Body(f) == [i \in 0 .. n |->
                           IF i = 0 THEN 65535 ELSE CrcStep(f[i - 1], s[i])]
             step == [i \in 1 .. n |-> [c \in Word |-> CrcStep(c, s[i])]]
             u == CHOOSE f : f = Body(f)
  <1>1. 65535 \in Word /\ n \in Nat
    BY DEF Word, LargestWord
  <1>2. Crc16(s) = 65535 - u[n]
    BY DEF Crc16
  <1>10. \A i \in 1 .. n, c \in Word : CrcStep(c, s[i]) \in Word
    BY CrcStepType
  <1>3. \E f : f = Body(f)
    <2>1. step \in [1 .. n -> [Word -> Word]]
      BY <1>10
    <2>2. \A i \in 1 .. n, c \in Word : step[i][c] = CrcStep(c, s[i])
      OBVIOUS
    <2> HIDE DEF step
    <2>3. PICK f : Solves(f, n, Word, 65535, step)
      <3> HIDE DEF Body
      <3> QED
        BY <1>1, <2>1, Recursion
    <2>4. \A i \in 0 .. n : f[i] = IF i = 0 THEN 65535 ELSE CrcStep(f[i - 1], s[i])
      BY <1>1, <2>2, <2>3 DEF Solves
    <2>5. f = Body(f)
      BY <2>3, <2>4 DEF Solves
    <2> QED
      BY <2>5
  <1>4. u = Body(u)
    BY <1>3
  <1> HIDE DEF u
  <1>5. u[0] \in Word
    BY <1>1, <1>4
  <1>6. \A i \in 1 .. n : u[i - 1] \in Word => u[i] \in Word
    <2> TAKE i \in 1 .. n
    <2>1. u[i] = CrcStep(u[i - 1], s[i])
      BY <1>1, <1>4
    <2> QED
      BY <2>1, <1>10
  <1>7. \A i \in 0 .. n : u[i] \in Word
    <2> HIDE DEF Body, step, n
    <2>1. n \in Nat
      BY <1>1
    <2> QED
      BY <2>1, <1>5, <1>6, StaysIn, Zenon
  <1>8. u[n] \in Word
    BY <1>1, <1>7
  <1> HIDE DEF n
  <1>9. 65535 - u[n] \in Word
    BY <1>8, InWord DEF LargestWord
  <1> QED
    BY <1>2, <1>9

-----------------------------------------------------------------------------
(* Flattening and escaping *)

\* FlattenSeq concatenates from the left.
LEMMA FlattenSteps ==
  ASSUME NEW V, NEW ss \in Seq(Seq(V))
  PROVE  \E u \in [0 .. Len(ss) -> Seq(V)] :
           /\ FlattenSeq(ss) = u[Len(ss)]
           /\ u[0] = <<>>
           /\ \A i \in 1 .. Len(ss) : u[i] = u[i - 1] \o ss[i]
  <1> DEFINE n == Len(ss)
             Body(f) == [i \in 1 .. n |->
                           IF i = 1 THEN ss[i] ELSE f[i - 1] \o ss[i]]
             step == [i \in 1 .. n |-> [s \in Seq(V) |-> s \o ss[i]]]
             w == CHOOSE f : f = Body(f)
             u == [i \in 0 .. n |-> IF i = 0 THEN <<>> ELSE w[i]]
  <1>1. n \in Nat /\ <<>> \in Seq(V) /\ \A i \in 1 .. n : ss[i] \in Seq(V)
    OBVIOUS
  <1>2. \A i \in 1 .. n, s \in Seq(V) : s \o ss[i] \in Seq(V)
    BY <1>1
  <1>3. ss[1] = <<>> \o ss[1] \/ n = 0
    BY <1>1
  <1>4. \E f : f = Body(f)
    <2>1. step \in [1 .. n -> [Seq(V) -> Seq(V)]]
      BY <1>2
    <2>2. \A i \in 1 .. n, s \in Seq(V) : step[i][s] = s \o ss[i]
      OBVIOUS
    <2> HIDE DEF step, n
    <2>3. PICK f : Solves(f, n, Seq(V), <<>>, step)
      <3> HIDE DEF Body, w, u
      <3> QED
        BY <1>1, <2>1, Recursion
    <2>4. \A i \in 1 .. n : f[i] = f[i - 1] \o ss[i]
      <3> TAKE i \in 1 .. n
      <3>1. f \in [0 .. n -> Seq(V)] /\ f[i] = step[i][f[i - 1]]
        BY <2>3 DEF Solves
      <3>2. i - 1 \in 0 .. n
        BY <1>1
      <3>3. f[i - 1] \in Seq(V)
        BY <3>1, <3>2
      <3> QED
        BY <2>2, <3>1, <3>3
    <2> DEFINE g == [i \in 1 .. n |-> f[i]]
    <2>5. ASSUME NEW i \in 1 .. n
          PROVE  g[i] = IF i = 1 THEN ss[i] ELSE g[i - 1] \o ss[i]
      <3>1. CASE i = 1
        <4>1. f[0] = <<>> /\ i - 1 = 0
          BY <2>3, <3>1 DEF Solves
        <4>2. f[i] = <<>> \o ss[i]
          BY <2>4, <4>1
        <4>3. n # 0
          BY <1>1
        <4> QED
          BY <1>3, <3>1, <4>2, <4>3
      <3>2. CASE i # 1
        <4>1. i - 1 \in 1 .. n
          BY <1>1, <3>2
        <4> QED
          BY <2>4, <3>2, <4>1
      <3> QED
        BY <3>1, <3>2
    <2>6. g = Body(g)
      BY <2>5
    <2> QED
      BY <2>6
  <1>5. w = Body(w)
    BY <1>4
  <1>6. FlattenSeq(ss) = u[n]
    <2>1. CASE n = 0
      BY <2>1 DEF FlattenSeq
    <2>2. CASE n # 0
      <3>1. FlattenSeq(ss) = w[n]
        BY <2>2 DEF FlattenSeq
      <3> QED
        BY <1>1, <2>2, <3>1
    <2> QED
      BY <2>1, <2>2
  <1> HIDE DEF w
  <1>7. \A i \in 1 .. n : u[i] = u[i - 1] \o ss[i]
    <2> TAKE i \in 1 .. n
    <2>1. CASE i = 1
      <3>1. w[i] = ss[i] /\ i - 1 = 0
        BY <1>5, <2>1
      <3>2. u[0] = <<>> /\ u[i] = w[i]
        BY <1>1, <2>1
      <3> QED
        BY <1>3, <2>1, <3>1, <3>2
    <2>2. CASE i # 1
      <3>1. i - 1 \in 1 .. n
        BY <1>1, <2>2
      <3>2. w[i] = w[i - 1] \o ss[i]
        BY <1>5, <2>2
      <3>3. i - 1 \in 0 .. n /\ i - 1 # 0 /\ i # 0
        BY <1>1, <3>1
      <3>4. u[i] = w[i] /\ u[i - 1] = w[i - 1]
        BY <3>3
      <3> QED
        BY <3>2, <3>4
    <2> QED
      BY <2>1, <2>2
  <1>8. u[0] = <<>> /\ DOMAIN u = 0 .. n
    BY <1>1
  <1>9. u = [i \in 0 .. n |-> u[i]]
    OBVIOUS
  <1> HIDE DEF u
  <1>10. \A i \in 1 .. n : u[i - 1] \in Seq(V) => u[i] \in Seq(V)
    BY <1>2, <1>7
  <1>11. \A i \in 0 .. n : u[i] \in Seq(V)
    <2> HIDE DEF n
    <2> QED
      BY <1>1, <1>8, <1>10, StaysIn, Zenon
  <1>12. u \in [0 .. n -> Seq(V)]
    BY <1>9, <1>11
  <1> QED
    BY <1>6, <1>7, <1>8, <1>12

LEMMA FlattenType ==
  ASSUME NEW V, NEW ss \in Seq(Seq(V))
  PROVE  FlattenSeq(ss) \in Seq(V)
  <1>1. Len(ss) \in 0 .. Len(ss)
    OBVIOUS
  <1>2. PICK u \in [0 .. Len(ss) -> Seq(V)] : FlattenSeq(ss) = u[Len(ss)]
    BY FlattenSteps, Zenon
  <1> QED
    BY <1>1, <1>2

LEMMA EscapedByteType ==
  ASSUME NEW b \in Byte
  PROVE  EscapedByte(b) \in Seq(Byte) /\ Len(EscapedByte(b)) \in 1 .. 2
  <1>1. EscByte \in Byte
    BY DEF EscByte, Byte
  <1>2. Toggle(b) \in Byte
    BY ToggleByte
  <1> QED
    BY <1>1, <1>2 DEF EscapedByte

LEMMA EscapeType ==
  ASSUME NEW s \in Seq(Byte)
  PROVE  Escape(s) \in Seq(Byte) /\ Len(Escape(s)) <= 2 * Len(s)
  <1> DEFINE ss == [i \in DOMAIN s |-> EscapedByte(s[i])]
             n == Len(s)
  <1>1. n \in Nat /\ DOMAIN s = 1 .. n
    OBVIOUS
  <1>2. \A i \in 1 .. n : ss[i] \in Seq(Byte) /\ Len(ss[i]) \in 1 .. 2
    BY EscapedByteType
  <1>3. ss \in Seq(Seq(Byte)) /\ Len(ss) = n
    BY <1>1, <1>2
  <1>4. Escape(s) = FlattenSeq(ss)
    BY DEF Escape
  <1> HIDE DEF ss
  <1>5. PICK u \in [0 .. n -> Seq(Byte)] :
          /\ FlattenSeq(ss) = u[n]
          /\ u[0] = <<>>
          /\ \A i \in 1 .. n : u[i] = u[i - 1] \o ss[i]
    <2>1. PICK u \in [0 .. Len(ss) -> Seq(Byte)] :
            /\ FlattenSeq(ss) = u[Len(ss)]
            /\ u[0] = <<>>
            /\ \A i \in 1 .. Len(ss) : u[i] = u[i - 1] \o ss[i]
      BY <1>3, FlattenSteps, Zenon
    <2> HIDE DEF n
    <2> QED
      BY <2>1, <1>3
  <1>6. \A i \in 0 .. n : Len(u[i]) <= 2 * i
    <2> DEFINE Good == {i \in 0 .. n : Len(u[i]) <= 2 * i}
    <2>1. 0 \in Good
      BY <1>1, <1>5
    <2>2. ASSUME NEW i \in 1 .. n, i - 1 \in Good PROVE i \in Good
      <3> HIDE DEF Good
      <3>1. /\ u[i] = u[i - 1] \o ss[i]
            /\ u[i - 1] \in Seq(Byte) /\ ss[i] \in Seq(Byte)
        <4>1. i - 1 \in 0 .. n
          BY <1>1
        <4> QED
          BY <1>2, <1>5, <4>1
      <3>2. Len(u[i]) = Len(u[i - 1]) + Len(ss[i])
        BY <3>1
      <3>3. Len(u[i - 1]) \in Nat /\ Len(u[i - 1]) <= 2 * (i - 1) /\ Len(ss[i]) \in 1 .. 2
        BY <1>2, <2>2, <3>1 DEF Good
      <3>4. Len(u[i]) <= 2 * i
        <4> DEFINE x == Len(u[i - 1])
                   y == Len(ss[i])
        <4> HIDE DEF x, y
        <4>1. x \in Nat /\ x <= 2 * (i - 1) /\ y \in 1 .. 2
          BY <3>3 DEF x, y
        <4>2. i \in Nat
          BY <1>1
        <4>3. x + y <= 2 * i
          BY <4>1, <4>2
        <4> QED
          BY <3>2, <4>3 DEF x, y
      <3> QED
        BY <3>4 DEF Good
    <2> HIDE DEF Good
    <2>3. 0 .. n \subseteq Good
      BY <1>1, <2>1, <2>2, NumbersUpTo
    <2> QED
      BY <2>3 DEF Good
  <1>7. n \in 0 .. n
    BY <1>1
  <1> QED
    BY <1>4, <1>5, <1>6, <1>7

-----------------------------------------------------------------------------
(* Frames and buffers *)

LEMMA ConcatType ==
  ASSUME NEW V, NEW s \in Seq(V), NEW t \in Seq(V)
  PROVE  s \o t \in Seq(V) /\ Len(s \o t) = Len(s) + Len(t)
  OBVIOUS

LEMMA PackedType ==
  ASSUME NEW type \in Byte, NEW dst \in Byte, NEW src \in Byte,
         NEW payload \in Seq(Byte), Len(payload) \in Byte
  PROVE  /\ Packed(type, dst, src, payload) \in Seq(Byte)
         /\ Len(Packed(type, dst, src, payload)) = Overhead + Len(payload)
  <1> DEFINE header == <<type, dst, src, Len(payload)>>
             body == header \o payload
             crc  == Crc16(body)
             tail == <<crc % 256, crc \div 256>>
  <1>1. header \in Seq(Byte) /\ Len(header) = 4
    OBVIOUS
  <1> HIDE DEF header
  <1>2. body \in Seq(Byte) /\ Len(body) = 4 + Len(payload)
    <2> HIDE DEF crc, tail
    <2> QED
      BY <1>1, ConcatType
  <1> HIDE DEF body
  <1>3. crc % 256 \in Byte /\ crc \div 256 \in Byte
    BY <1>2, Crc16Type, Halves
  <1>4. tail \in Seq(Byte) /\ Len(tail) = 2
    BY <1>3
  <1> HIDE DEF tail
  <1>5. body \o tail \in Seq(Byte) /\ Len(body \o tail) = 6 + Len(payload)
    <2>1. /\ body \o tail \in Seq(Byte)
          /\ Len(body \o tail) = (4 + Len(payload)) + 2
      BY <1>2, <1>4, ConcatType, ZenonT(40)
    <2>2. Len(payload) \in Nat
      OBVIOUS
    <2> QED
      BY <2>1, <2>2
  <1>6. Packed(type, dst, src, payload) = body \o tail
    BY DEF Packed, body, header, tail
  <1>7. Overhead = 6
    BY DEF Overhead, HeaderSize
  <1> QED
    BY <1>5, <1>6, <1>7

LEMMA OnWireType ==
  ASSUME NEW frame \in Seq(Byte), frame # <<>>
  PROVE  OnWire(frame) \in Seq(Byte)
  <1>1. Head(frame) \in Byte /\ Tail(frame) \in Seq(Byte)
    OBVIOUS
  <1>2. Escape(Tail(frame)) \in Seq(Byte)
    BY <1>1, EscapeType
  <1>3. <<Head(frame)>> \in Seq(Byte)
    BY <1>1
  <1> QED
    BY <1>2, <1>3 DEF OnWire

LEMMA ElementType ==
  ASSUME NEW V, NEW s \in Seq(V), NEW i \in DOMAIN s
  PROVE  s[i] \in V
  OBVIOUS

LEMMA SubSeqType ==
  ASSUME NEW V, NEW s \in Seq(V), NEW n \in 0 .. Len(s)
  PROVE  SubSeq(s, 1, n) \in Seq(V) /\ Len(SubSeq(s, 1, n)) = n
  OBVIOUS

LEMMA ShiftType ==
  ASSUME NEW V, NEW b \in Seq(V), NEW n \in 0 .. Len(b)
  PROVE  /\ Shift(b, n) \in Seq(V)
         /\ Len(Shift(b, n)) = Len(b) - n
         /\ \A i \in 1 .. Len(b) - n : Shift(b, n)[i] = b[i + n]
  BY DEF Shift

LEMMA FromFrameStartType ==
  ASSUME NEW b \in Seq(Byte)
  PROVE  /\ FromFrameStart(b) \in Seq(Byte)
         /\ Len(FromFrameStart(b)) <= Len(b)
         /\ FromFrameStart(b) # <<>> => IsFramingByte(Head(FromFrameStart(b)))
  <1> DEFINE starts == {i \in DOMAIN b : IsFramingByte(b[i])}
  <1>1. CASE starts = {}
    BY <1>1 DEF FromFrameStart
  <1>2. CASE starts # {}
    <2> DEFINE first == CHOOSE i \in starts : \A j \in starts : i <= j
    <2>1. starts \subseteq Nat /\ starts \subseteq 1 .. Len(b)
      OBVIOUS
    <2>2. FromFrameStart(b) = Shift(b, first - 1)
      BY <1>2 DEF FromFrameStart
    <2>3. \E i \in starts : \A j \in starts : i <= j
      BY <1>2, <2>1, Smallest
    <2> HIDE DEF starts
    <2>4. first \in starts
      BY <2>3
    <2> HIDE DEF first
    <2>5. first - 1 \in 0 .. Len(b) /\ Len(b) - (first - 1) >= 1
      BY <2>1, <2>4
    <2>6. /\ Shift(b, first - 1) \in Seq(Byte)
          /\ Len(Shift(b, first - 1)) = Len(b) - (first - 1)
          /\ Shift(b, first - 1)[1] = b[1 + (first - 1)]
      <3> DEFINE n == first - 1
      <3>1. n \in 0 .. Len(b) /\ 1 \in 1 .. Len(b) - n
        BY <2>5
      <3> HIDE DEF n
      <3>2. /\ Shift(b, n) \in Seq(Byte)
            /\ Len(Shift(b, n)) = Len(b) - n
            /\ Shift(b, n)[1] = b[1 + n]
        BY <3>1, ShiftType
      <3> QED
        BY <3>2 DEF n
    <2>7. 1 + (first - 1) = first
      BY <2>1, <2>4
    <2>8. IsFramingByte(b[first])
      BY <2>4 DEF starts
    <2>9. Len(Shift(b, first - 1)) <= Len(b)
      BY <2>5, <2>6
    <2> QED
      BY <2>2, <2>6, <2>7, <2>8, <2>9
  <1> QED
    BY <1>1, <1>2

-----------------------------------------------------------------------------
(* Unescaping *)

\* What unescape keeps while it goes through its source.
Progress == [used : Nat, out : Seq(Byte), escaped : BOOLEAN, done : BOOLEAN]

NoProgress == [used |-> 0, out |-> <<>>, escaped |-> FALSE, done |-> FALSE]

\* UnescapeByte, case by case.
Ends(a, r)         == a.done /\ r = a
Completes(a, b, r) ==
  /\ ~a.done /\ a.escaped
  /\ r.used = a.used + 2 /\ r.out = Append(a.out, Toggle(b))
  /\ ~r.escaped /\ ~r.done
Stops(a, b, room, r) ==
  /\ ~a.done /\ ~a.escaped
  /\ Len(a.out) = room \/ IsFramingByte(b)
  /\ r.used = a.used /\ r.out = a.out
  /\ ~r.escaped /\ r.done
Begins(a, b, room, r) ==
  /\ ~a.done /\ ~a.escaped
  /\ Len(a.out) # room /\ ~IsFramingByte(b) /\ b = EscByte
  /\ r.used = a.used /\ r.out = a.out
  /\ r.escaped /\ ~r.done
Copies(a, b, room, r) ==
  /\ ~a.done /\ ~a.escaped
  /\ Len(a.out) # room /\ ~IsFramingByte(b) /\ b # EscByte
  /\ r.used = a.used + 1 /\ r.out = Append(a.out, b)
  /\ ~r.escaped /\ ~r.done

LEMMA UnescapeByteCases ==
  ASSUME NEW a \in Progress, NEW b \in Byte, NEW room \in Nat
  PROVE  LET r == UnescapeByte(a, b, room)
         IN  /\ r \in Progress
             /\ \/ Ends(a, r)
                \/ Completes(a, b, r)
                \/ Stops(a, b, room, r)
                \/ Begins(a, b, room, r)
                \/ Copies(a, b, room, r)
  <1> DEFINE r == UnescapeByte(a, b, room)
  <1>1. /\ a.used \in Nat /\ a.out \in Seq(Byte)
        /\ a.escaped \in BOOLEAN /\ a.done \in BOOLEAN
        /\ a = [used |-> a.used, out |-> a.out,
                escaped |-> a.escaped, done |-> a.done]
    BY DEF Progress
  <1>2. Toggle(b) \in Byte
    BY ToggleByte
  <1>3. FALSE \in BOOLEAN /\ TRUE \in BOOLEAN
    OBVIOUS
  <1>4. CASE a.done
    BY <1>4 DEF UnescapeByte, Ends
  <1>5. CASE ~a.done /\ a.escaped
    <2>1. r = [a EXCEPT !.used = @ + 2, !.out = Append(@, Toggle(b)),
                        !.escaped = FALSE]
      BY <1>5 DEF UnescapeByte
    <2>2. r = [used |-> a.used + 2, out |-> Append(a.out, Toggle(b)),
               escaped |-> FALSE, done |-> a.done]
      BY <1>1, <2>1
    <2>3. a.used + 2 \in Nat /\ Append(a.out, Toggle(b)) \in Seq(Byte)
      BY <1>1, <1>2
    <2>4. r \in Progress
      BY <1>1, <1>3, <2>2, <2>3 DEF Progress
    <2> HIDE DEF r
    <2>5. Completes(a, b, r)
      BY <1>5, <2>2 DEF Completes
    <2> QED
      BY <2>4, <2>5 DEF r
  <1>6. CASE ~a.done /\ ~a.escaped /\ (Len(a.out) = room \/ IsFramingByte(b))
    <2>1. r = [a EXCEPT !.done = TRUE]
      BY <1>6 DEF UnescapeByte
    <2>2. r = [used |-> a.used, out |-> a.out,
               escaped |-> a.escaped, done |-> TRUE]
      BY <1>1, <2>1
    <2>3. r \in Progress
      BY <1>1, <1>3, <2>2 DEF Progress
    <2> HIDE DEF r
    <2>4. Stops(a, b, room, r)
      BY <1>6, <2>2 DEF Stops
    <2> QED
      BY <2>3, <2>4 DEF r
  <1>7. CASE /\ ~a.done /\ ~a.escaped
             /\ ~(Len(a.out) = room \/ IsFramingByte(b)) /\ b = EscByte
    <2>1. r = [a EXCEPT !.escaped = TRUE]
      BY <1>7 DEF UnescapeByte
    <2>2. r = [used |-> a.used, out |-> a.out,
               escaped |-> TRUE, done |-> a.done]
      BY <1>1, <2>1
    <2>3. r \in Progress
      BY <1>1, <1>3, <2>2 DEF Progress
    <2> HIDE DEF r
    <2>4. Begins(a, b, room, r)
      BY <1>7, <2>2 DEF Begins
    <2> QED
      BY <2>3, <2>4 DEF r
  <1>8. CASE /\ ~a.done /\ ~a.escaped
             /\ ~(Len(a.out) = room \/ IsFramingByte(b)) /\ b # EscByte
    <2>1. r = [a EXCEPT !.used = @ + 1, !.out = Append(@, b)]
      BY <1>8 DEF UnescapeByte
    <2>2. r = [used |-> a.used + 1, out |-> Append(a.out, b),
               escaped |-> a.escaped, done |-> a.done]
      BY <1>1, <2>1
    <2>3. a.used + 1 \in Nat /\ Append(a.out, b) \in Seq(Byte)
      BY <1>1
    <2>4. r \in Progress
      BY <1>1, <2>2, <2>3 DEF Progress
    <2> HIDE DEF r
    <2>5. Copies(a, b, room, r)
      BY <1>8, <2>2 DEF Copies
    <2> QED
      BY <2>4, <2>5 DEF r
  <1> QED
    BY <1>4, <1>5, <1>6, <1>7, <1>8, Zenon

LEMMA UnescapeSteps ==
  ASSUME NEW s \in Seq(Byte), NEW room \in Nat
  PROVE  \E u \in [0 .. Len(s) -> Progress] :
           /\ Unescape(s, room) = u[Len(s)]
           /\ u[0] = NoProgress
           /\ \A i \in 1 .. Len(s) : u[i] = UnescapeByte(u[i - 1], s[i], room)
  <1> DEFINE n == Len(s)
             Next1(i, a) == UnescapeByte(a, s[i], room)
             Body(f) == [i \in 0 .. n |->
                           IF i = 0 THEN NoProgress ELSE Next1(i, f[i - 1])]
             step == [i \in 1 .. n |-> [a \in Progress |-> Next1(i, a)]]
             u == CHOOSE f : f = Body(f)
  <1>1. n \in Nat /\ \A i \in 1 .. n : s[i] \in Byte
    OBVIOUS
  <1>2. NoProgress \in Progress
    <2>1. FALSE \in BOOLEAN /\ <<>> \in Seq(Byte) /\ 0 \in Nat
      OBVIOUS
    <2> QED
      BY <2>1 DEF NoProgress, Progress
  <1>3. \A i \in 1 .. n, a \in Progress : Next1(i, a) \in Progress
    BY <1>1, UnescapeByteCases
  <1>4. Unescape(s, room) = u[n]
    BY DEF Unescape, NoProgress
  <1> HIDE DEF Next1
  <1>5. \E f : f = Body(f)
    <2>1. step \in [1 .. n -> [Progress -> Progress]]
      BY <1>3
    <2>2. \A i \in 1 .. n, a \in Progress : step[i][a] = Next1(i, a)
      OBVIOUS
    <2> HIDE DEF step, n
    <2>3. PICK f : Solves(f, n, Progress, NoProgress, step)
      <3> HIDE DEF Body, u
      <3> QED
        BY <1>1, <1>2, <2>1, Recursion
    <2>4. ASSUME NEW i \in 0 .. n
          PROVE  f[i] = IF i = 0 THEN NoProgress ELSE Next1(i, f[i - 1])
      <3>1. CASE i = 0
        BY <2>3, <3>1 DEF Solves
      <3>2. CASE i # 0
        <4>1. i \in 1 .. n /\ i - 1 \in 0 .. n
          BY <1>1, <3>2
        <4>2. f[i - 1] \in Progress
          BY <2>3, <4>1 DEF Solves
        <4>3. f[i] = step[i][f[i - 1]]
          BY <2>3, <4>1 DEF Solves
        <4> QED
          BY <2>2, <3>2, <4>1, <4>2, <4>3
      <3> QED
        BY <3>1, <3>2
    <2>5. f = Body(f)
      BY <2>3, <2>4 DEF Solves
    <2> QED
      BY <2>5
  <1>6. u = Body(u)
    BY <1>5
  <1> HIDE DEF u
  <1>7. DOMAIN u = 0 .. n /\ u[0] = NoProgress
    BY <1>1, <1>6
  <1>8. \A i \in 1 .. n : u[i] = Next1(i, u[i - 1])
    BY <1>1, <1>6
  <1>9. \A i \in 1 .. n : u[i - 1] \in Progress => u[i] \in Progress
    BY <1>3, <1>8
  <1>10. \A i \in 0 .. n : u[i] \in Progress
    <2> HIDE DEF n
    <2>1. n \in Nat /\ u[0] \in Progress
      BY <1>1, <1>2, <1>7
    <2> QED
      BY <1>9, <2>1, StaysIn, Zenon
  <1>11. u \in [0 .. n -> Progress]
    BY <1>6, <1>10
  <1> QED
    BY <1>4, <1>7, <1>8, <1>11 DEF Next1

\* The progress a after i bytes of s, with room for `room' bytes: it uses no
\* more than there is and makes no more than fits, and if it has made nothing
\* it has used nothing, and what is to blame is the first byte or the room.
Bounded(s, room, i, a) ==
  /\ Len(a.out) <= room
  /\ a.escaped => Len(a.out) < room /\ a.used + 1 <= i
  /\ a.used <= i
  /\ a.out = <<>> => a.used = 0
  /\ a.out = <<>> /\ ~a.done => \/ i = 0 /\ ~a.escaped
                                \/ i = 1 /\ a.escaped
  /\ a.out = <<>> /\ a.done => i >= 1 /\ (room = 0 \/ IsFramingByte(s[1]))

LEMMA UnescapeBounded ==
  ASSUME NEW s \in Seq(Byte), NEW room \in Nat
  PROVE  Bounded(s, room, Len(s), Unescape(s, room))
  <1> DEFINE n == Len(s)
  <1>1. n \in Nat /\ \A i \in 1 .. n : s[i] \in Byte
    OBVIOUS
  <1>2. PICK u \in [0 .. n -> Progress] :
           /\ Unescape(s, room) = u[n]
           /\ u[0] = NoProgress
           /\ \A i \in 1 .. n : u[i] = UnescapeByte(u[i - 1], s[i], room)
    BY UnescapeSteps, Zenon
  <1> DEFINE Good == {i \in 0 .. n : Bounded(s, room, i, u[i])}
  <1> HIDE DEF n
  <1>3. 0 \in Good
    <2>1. Len(<<>>) = 0
      OBVIOUS
    <2> QED
      BY <1>1, <1>2, <2>1 DEF NoProgress, Bounded
  <1>4. ASSUME NEW i \in 1 .. n, i - 1 \in Good PROVE i \in Good
    <2> DEFINE a == u[i - 1]
               b == s[i]
               r == u[i]
    <2>1. i - 1 \in 0 .. n /\ i \in 0 .. n /\ i \in Nat /\ i - 1 \in Nat
      BY <1>1
    <2>2. Bounded(s, room, i - 1, a)
      BY <1>4
    <2>3. a \in Progress /\ b \in Byte
      BY <1>1, <1>2, <2>1
    <2>4. r = UnescapeByte(a, b, room)
      BY <1>2
    <2> HIDE DEF a, b, r
    <2>5. /\ r \in Progress
          /\ \/ Ends(a, r)
             \/ Completes(a, b, r)
             \/ Stops(a, b, room, r)
             \/ Begins(a, b, room, r)
             \/ Copies(a, b, room, r)
      BY <2>3, <2>4, UnescapeByteCases
    <2>6. /\ a.used \in Nat /\ a.out \in Seq(Byte)
          /\ r.used \in Nat /\ r.out \in Seq(Byte)
      BY <2>3, <2>5 DEF Progress
    <2>7. Bounded(s, room, i, r)
      <3>1. CASE Ends(a, r)
        BY <2>1, <2>2, <2>6, <3>1 DEF Ends, Bounded
      <3>2. CASE Completes(a, b, r)
        <4>1. Len(r.out) = Len(a.out) + 1 /\ r.out # <<>>
          BY <2>6, <3>2 DEF Completes
        <4>2. Len(a.out) \in Nat
          BY <2>6
        <4> QED
          BY <2>1, <2>2, <2>6, <3>2, <4>1, <4>2, SMTT(30) DEF Completes, Bounded
      <3>3. CASE Stops(a, b, room, r)
        <4>1. Len(a.out) \in Nat /\ Len(<<>>) = 0
          BY <2>6
        <4>2. a.out = <<>> => i = 1 /\ b = s[1]
          BY <2>1, <2>2, <3>3 DEF Stops, Bounded, b
        <4> QED
          BY <2>1, <2>2, <2>6, <3>3, <4>1, <4>2 DEF Stops, Bounded
      <3>4. CASE Begins(a, b, room, r)
        <4>1. Len(a.out) \in Nat
          BY <2>6
        <4> QED
          BY <2>1, <2>2, <2>6, <3>4, <4>1 DEF Begins, Bounded
      <3>5. CASE Copies(a, b, room, r)
        <4>1. Len(r.out) = Len(a.out) + 1 /\ r.out # <<>>
          BY <2>3, <2>6, <3>5 DEF Copies
        <4>2. Len(a.out) \in Nat
          BY <2>6
        <4> QED
          BY <2>1, <2>2, <2>6, <3>5, <4>1, <4>2, SMTT(30) DEF Copies, Bounded
      <3> QED
        BY <2>5, <3>1, <3>2, <3>3, <3>4, <3>5
    <2> QED
      BY <2>1, <2>7 DEF r
  <1>5. n \in Good
    <2> HIDE DEF Good
    <2>1. 0 .. n \subseteq Good
      BY <1>1, <1>3, <1>4, NumbersUpTo
    <2> QED
      BY <1>1, <2>1
  <1> QED
    BY <1>2, <1>5 DEF n

LEMMA UnescapeType ==
  ASSUME NEW s \in Seq(Byte), NEW room \in Nat
  PROVE  Unescape(s, room) \in Progress
  <1>1. Len(s) \in 0 .. Len(s)
    OBVIOUS
  <1>2. PICK u \in [0 .. Len(s) -> Progress] : Unescape(s, room) = u[Len(s)]
    BY UnescapeSteps, Zenon
  <1> QED
    BY <1>1, <1>2

-----------------------------------------------------------------------------
(* The line *)

LEMMA Sizes ==
  /\ UnescSize \in Nat /\ UnescSize = PayloadMax + 6
  /\ RxBufSize = 2 * UnescSize /\ TxBufSize = 2 * UnescSize
  /\ PayloadMax \in Nat /\ Overhead = 6
  <1>1. PayloadMax \in Nat
    BY FramingAssumption DEF Byte
  <1> QED
    BY <1>1 DEF UnescSize, RxBufSize, TxBufSize, Overhead, HeaderSize

\* A frame that sricd has room for.
IsFrame(f) == f \in Seq(Byte) /\ Len(f) >= Overhead /\ Len(f) <= UnescSize

LEMMA FrameIsFrame ==
  ASSUME NEW l, NEW type \in {Start, GwStart}, NEW payload \in Seq(Byte),
         Len(payload) <= PayloadMax
  PROVE  IsFrame(Frame(l, type, payload))
  <1> DEFINE dst == DestOf(l)
             src == IF l = "sricd" THEN 2 ELSE 1
  <1>1. type \in Byte /\ dst \in Byte /\ src \in Byte
    BY DEF Start, GwStart, DestOf, Byte
  <1>2. Len(payload) \in Byte
    <2>1. Len(payload) \in Nat /\ PayloadMax \in Nat /\ PayloadMax <= 255
      BY FramingAssumption DEF Byte
    <2>2. Len(payload) \in Nat /\ Len(payload) <= 255
      BY <2>1
    <2> QED
      BY <2>2, InByte
  <1>3. Frame(l, type, payload) = Packed(type, dst, src, payload)
    BY DEF Frame
  <1> HIDE DEF dst, src
  <1>4. /\ Packed(type, dst, src, payload) \in Seq(Byte)
        /\ Len(Packed(type, dst, src, payload)) = Overhead + Len(payload)
    BY <1>1, <1>2, PackedType
  <1>5. Len(payload) \in Nat
    OBVIOUS
  <1> QED
    BY <1>3, <1>4, <1>5, Sizes DEF IsFrame

\* The bytes on either side of trumpets, the receivers' buffers, and rxbuf[0].
LineInv ==
  /\ FramingTypeOK
  /\ rxbuf # <<>> => rxbuf0 = Head(rxbuf)
  /\ AlwaysRoomToRead
  /\ ptyBuf \in Seq(Byte) /\ Len(ptyBuf) <= PtyBufSize
  /\ input \in Seq(Byte)
  /\ buffer \in Seq(Byte) /\ Len(buffer) <= BufSize
  /\ NoByteForgotten
  /\ \A i \in DOMAIN sent : IsFrame(sent[i])

LEMMA OnWireOfFrames ==
  ASSUME NEW k \in Nat, NEW fs, \A i \in 1 .. k : IsFrame(fs[i]),
         NEW ns, \A i \in 1 .. k : ns[i] \in Seq(Byte)
  PROVE  /\ FlattenSeq([i \in 1 .. k |-> ns[i] \o OnWire(fs[i])]) \in Seq(Byte)
         /\ FlattenSeq([i \in 1 .. k |-> OnWire(fs[i])]) \in Seq(Byte)
  <1>1. ASSUME NEW i \in 1 .. k
        PROVE  OnWire(fs[i]) \in Seq(Byte) /\ ns[i] \o OnWire(fs[i]) \in Seq(Byte)
    <2>1. fs[i] \in Seq(Byte) /\ fs[i] # <<>>
      BY Sizes DEF IsFrame
    <2>2. OnWire(fs[i]) \in Seq(Byte)
      BY <2>1, OnWireType
    <2> QED
      BY <2>2, ConcatType
  <1>2. [i \in 1 .. k |-> ns[i] \o OnWire(fs[i])] \in Seq(Seq(Byte))
    BY <1>1
  <1>3. [i \in 1 .. k |-> OnWire(fs[i])] \in Seq(Seq(Byte))
    BY <1>1
  <1> QED
    BY <1>2, <1>3, FlattenType

LEMMA NoisyLineTypes ==
  ASSUME NoisyLine
  PROVE  /\ wire \in Seq(Byte) /\ input \in Seq(Byte)
         /\ \A i \in DOMAIN sent : IsFrame(sent[i])
  <1>10. PICK k \in 1 .. NumFrames :
          \E ps \in [1 .. k -> Payloads], ns \in [1 .. k -> Noises],
             types \in [1 .. k -> {Start, GwStart}] :
            /\ sent = [i \in 1 .. k |-> Frame("sricd", types[i], ps[i])]
            /\ wire = FlattenSeq([i \in 1 .. k |-> ns[i] \o OnWire(sent[i])])
    BY DEF NoisyLine
  <1>1. PICK ps \in [1 .. k -> Payloads], ns \in [1 .. k -> Noises],
             types \in [1 .. k -> {Start, GwStart}] :
          /\ sent = [i \in 1 .. k |-> Frame("sricd", types[i], ps[i])]
          /\ wire = FlattenSeq([i \in 1 .. k |-> ns[i] \o OnWire(sent[i])])
    BY <1>10
  <1>2. k \in Nat
    BY LineAssumption
  <1>3. \A i \in 1 .. k : IsFrame(sent[i])
    <2> TAKE i \in 1 .. k
    <2>1. ps[i] \in Seq(Byte) /\ Len(ps[i]) <= PayloadMax
      BY LineAssumption
    <2>2. types[i] \in {Start, GwStart}
      OBVIOUS
    <2>3. IsFrame(Frame("sricd", types[i], ps[i]))
      BY <2>1, <2>2, FrameIsFrame
    <2> QED
      BY <1>1, <2>3
  <1>4. \A i \in 1 .. k : ns[i] \in Seq(Byte)
    BY LineAssumption
  <1>5. wire \in Seq(Byte)
    BY <1>1, <1>2, <1>3, <1>4, OnWireOfFrames, ZenonT(40)
  <1>6. DOMAIN sent = 1 .. k
    BY <1>1
  <1>7. input \in Seq(Byte)
    BY DEF NoisyLine
  <1> QED
    BY <1>3, <1>5, <1>6, <1>7

LEMMA RelayedLineTypes ==
  ASSUME RelayedLine, listener \in {"sricd", "ostric"}
  PROVE  /\ wire \in Seq(Byte) /\ input \in Seq(Byte)
         /\ \A i \in DOMAIN sent : IsFrame(sent[i])
  <1>1. PICK t \in Relayed[listener] :
          sent = [i \in DOMAIN t |-> Frame(listener, t[i].type, t[i].payload)]
    BY DEF RelayedLine
  <1>2. /\ t \in Seq([type : {Start, GwStart}, payload : Seq(Byte)])
        /\ \A i \in DOMAIN t : Len(t[i].payload) <= PayloadMax
    BY LineAssumption
  <1> DEFINE k == Len(t)
  <1>3. k \in Nat /\ DOMAIN t = 1 .. k
    BY <1>2
  <1>4. DOMAIN sent = 1 .. k
    BY <1>1, <1>3
  <1>5. \A i \in 1 .. k : IsFrame(sent[i])
    <2> TAKE i \in 1 .. k
    <2>1. t[i] \in [type : {Start, GwStart}, payload : Seq(Byte)]
      <3> HIDE DEF k
      <3> QED
        BY <1>2, <1>3, ElementType
    <2>2. t[i].type \in {Start, GwStart} /\ t[i].payload \in Seq(Byte)
      BY <2>1
    <2>3. IsFrame(Frame(listener, t[i].type, t[i].payload))
      BY <1>2, <1>3, <2>2, FrameIsFrame
    <2> QED
      BY <1>1, <1>3, <2>3
  <1>6. input = FlattenSeq([i \in 1 .. k |-> OnWire(sent[i])])
    BY <1>4 DEF RelayedLine
  <1> HIDE DEF k
  <1>7. \A i \in 1 .. k : [j \in 1 .. k |-> <<>>][i] \in Seq(Byte)
    OBVIOUS
  <1>8. input \in Seq(Byte)
    BY <1>3, <1>5, <1>6, <1>7, OnWireOfFrames
  <1>9. wire \in Seq(Byte)
    BY DEF RelayedLine
  <1> QED
    BY <1>4, <1>5, <1>8, <1>9

LEMMA LineInvInit == LineInit => LineInv
  <1> SUFFICES ASSUME LineInit PROVE LineInv
    OBVIOUS
  <1>1. /\ wire \in Seq(Byte) /\ input \in Seq(Byte)
        /\ \A i \in DOMAIN sent : IsFrame(sent[i])
    BY NoisyLineTypes, RelayedLineTypes DEF LineInit
  <1>2. /\ rxbuf = <<>> /\ rxbuf0 = 0 /\ unesc = <<>> /\ looping = FALSE
        /\ processed = <<>> /\ ptyBuf = <<>> /\ buffer = <<>>
    BY DEF LineInit, Init
  <1>3. /\ <<>> \in Seq(Byte) /\ <<>> \in Seq(Seq(Byte)) /\ Len(<<>>) = 0
        /\ 0 \in Byte /\ FALSE \in BOOLEAN
    BY DEF Byte
  <1>4. FramingTypeOK
    <2>1. Len(rxbuf) <= RxBufSize /\ Len(unesc) <= UnescSize
      BY <1>2, <1>3, Sizes
    <2> QED
      BY <1>1, <1>2, <1>3, <2>1 DEF FramingTypeOK
  <1>5. AlwaysRoomToRead
    BY <1>2, <1>3, Sizes DEF AlwaysRoomToRead
  <1>6. NoByteForgotten
    BY <1>2 DEF NoByteForgotten
  <1>7. PtyBufSize \in Nat /\ BufSize \in Nat
    BY LineAssumption
  <1> QED
    BY <1>1, <1>2, <1>3, <1>4, <1>5, <1>6, <1>7 DEF LineInv

-----------------------------------------------------------------------------
(* The receiver of sricd *)

\* What a step of the receiver leaves of the invariant.
ReceiverInv ==
  /\ FramingTypeOK
  /\ rxbuf # <<>> => rxbuf0 = Head(rxbuf)
  /\ AlwaysRoomToRead

LEMMA ByteZeroType ==
  ASSUME NEW b \in Seq(Byte), NEW b0 \in Byte
  PROVE  /\ ByteZero(b, b0) \in Byte
         /\ b # <<>> => ByteZero(b, b0) = Head(b)
  BY DEF ByteZero

LEMMA ReadIncomingInv ==
  ASSUME ReceiverInv, NEW n \in 0 .. RxBufSize, ReadIncoming(n)
  PROVE  ReceiverInv'
  <1>1. /\ rxbuf \in Seq(Byte) /\ wire \in Seq(Byte) /\ rxbuf0 \in Byte
        /\ unesc \in Seq(Byte) /\ Len(unesc) <= UnescSize
        /\ processed \in Seq(Seq(Byte))
    BY DEF ReceiverInv, FramingTypeOK
  <1>2. /\ n <= RxBufSize - Len(rxbuf) /\ n <= Len(wire)
        /\ rxbuf' = rxbuf \o SubSeq(wire, 1, n)
        /\ rxbuf0' = ByteZero(rxbuf', rxbuf0)
        /\ wire' = Shift(wire, n)
        /\ looping' = TRUE /\ unesc' = unesc /\ processed' = processed
    BY DEF ReadIncoming
  <1>3. n \in Nat /\ n \in 0 .. Len(wire) /\ RxBufSize \in Nat
    BY <1>1, <1>2, Sizes
  <1>4. SubSeq(wire, 1, n) \in Seq(Byte) /\ Len(SubSeq(wire, 1, n)) = n
    BY <1>1, <1>3, SubSeqType
  <1>5. rxbuf' \in Seq(Byte) /\ Len(rxbuf') = Len(rxbuf) + n
    BY <1>1, <1>2, <1>4, ConcatType
  <1>6. Len(rxbuf') <= RxBufSize
    BY <1>1, <1>2, <1>3, <1>5
  <1>7. wire' \in Seq(Byte)
    BY <1>1, <1>2, <1>3, ShiftType
  <1>8. rxbuf0' \in Byte /\ (rxbuf' # <<>> => rxbuf0' = Head(rxbuf'))
    BY <1>1, <1>2, <1>5, ByteZeroType
  <1>9. UnescSize' = UnescSize /\ RxBufSize' = RxBufSize
    BY DEF UnescSize, RxBufSize
  <1>10. FramingTypeOK'
    BY <1>1, <1>2, <1>5, <1>6, <1>7, <1>8, <1>9 DEF FramingTypeOK
  <1>11. AlwaysRoomToRead'
    BY <1>2 DEF AlwaysRoomToRead
  <1> QED
    BY <1>8, <1>10, <1>11 DEF ReceiverInv

LEMMA AdvanceFindsNothingInv ==
  ASSUME ReceiverInv, AdvanceFindsNothing
  PROVE  ReceiverInv'
  <1>1. /\ rxbuf' = <<>> /\ unesc' = <<>> /\ looping' = FALSE
        /\ wire' = wire /\ rxbuf0' = rxbuf0 /\ processed' = processed
    BY DEF AdvanceFindsNothing
  <1>2. <<>> \in Seq(Byte) /\ Len(<<>>) = 0 /\ FALSE \in BOOLEAN
    OBVIOUS
  <1>3. 0 <= RxBufSize /\ 0 <= UnescSize /\ 0 < RxBufSize
    BY Sizes
  <1>4. FramingTypeOK'
    BY <1>1, <1>2, <1>3 DEF ReceiverInv, FramingTypeOK
  <1>5. AlwaysRoomToRead'
    BY <1>1, <1>2, <1>3 DEF AlwaysRoomToRead
  <1> QED
    BY <1>1, <1>4, <1>5 DEF ReceiverInv

\* What unescape is called with in advance_rx.
LEMMA BeforeUnescape ==
  ASSUME ReceiverInv, ~(Fresh /\ Source = <<>>)
  PROVE  /\ Begun \in Seq(Byte) /\ Len(Begun) <= UnescSize
         /\ Rest \in Seq(Byte) /\ Len(Rest) <= RxBufSize
         /\ ByteZero(Source, rxbuf0) \in Byte
         /\ Fresh => Len(Rest) < RxBufSize /\ Len(Begun) < UnescSize
         /\ ~Fresh => /\ Len(Begun) < UnescSize
                      /\ Rest # <<>> => ~IsFramingByte(Rest[1])
  <1>1. /\ rxbuf \in Seq(Byte) /\ rxbuf0 \in Byte
        /\ Len(rxbuf) <= RxBufSize /\ RxBufSize \in Nat
        /\ unesc \in Seq(Byte) /\ Len(unesc) <= UnescSize
        /\ UnescSize \in Nat /\ UnescSize >= 6
        /\ rxbuf # <<>> => rxbuf0 = Head(rxbuf)
    BY Sizes DEF ReceiverInv, FramingTypeOK
  <1>2. CASE Fresh
    <2>1. Source = FromFrameStart(rxbuf) /\ Source # <<>>
      BY <1>2 DEF Source
    <2>2. Source \in Seq(Byte) /\ Len(Source) <= Len(rxbuf)
      BY <1>1, <2>1, FromFrameStartType
    <2>3. Begun = <<Head(Source)>> /\ Rest = Tail(Source)
      BY <1>2 DEF Begun, Rest
    <2>4. Head(Source) \in Byte /\ Tail(Source) \in Seq(Byte)
          /\ Len(Tail(Source)) = Len(Source) - 1
      BY <2>1, <2>2
    <2>5. Begun \in Seq(Byte) /\ Len(Begun) = 1
      BY <2>3, <2>4
    <2>6. ByteZero(Source, rxbuf0) \in Byte
      BY <1>1, <2>2, ByteZeroType
    <2>7. Len(Source) \in Nat /\ Len(rxbuf) \in Nat
      BY <1>1, <2>2
    <2>8. Len(Rest) < RxBufSize /\ Len(Begun) < UnescSize
      BY <1>1, <2>2, <2>3, <2>4, <2>5, <2>7
    <2> QED
      BY <1>1, <1>2, <2>3, <2>4, <2>5, <2>6, <2>8
  <1>3. CASE ~Fresh
    <2>1. Source = rxbuf /\ Begun = unesc /\ Rest = rxbuf
      BY <1>3 DEF Source, Begun, Rest
    <2>2. ~IsFramingByte(rxbuf0) /\ Len(unesc) # UnescSize
      BY <1>3 DEF Fresh, Restarts
    <2>3. Len(Begun) < UnescSize
      BY <1>1, <2>1, <2>2
    <2>4. Rest # <<>> => ~IsFramingByte(Rest[1])
      BY <1>1, <2>1, <2>2
    <2>5. ByteZero(Source, rxbuf0) \in Byte
      BY <1>1, <2>1, ByteZeroType
    <2> QED
      BY <1>1, <1>3, <2>1, <2>3, <2>4, <2>5
  <1> QED
    BY <1>2, <1>3

LEMMA ConsiderType ==
  ASSUME NEW u \in Seq(Byte), Len(u) <= UnescSize,
         processed \in Seq(Seq(Byte)), Consider(u)
  PROVE  /\ unesc' \in Seq(Byte) /\ Len(unesc') <= UnescSize
         /\ processed' \in Seq(Seq(Byte))
  <1>1. CASE Whole(u)
    <2>1. /\ Len(u) >= 6 /\ Len(u) >= 6 + u[4]
      BY <1>1, Sizes DEF Whole
    <2>2. u[4] \in Byte
      BY <2>1
    <2>3. 6 + u[4] \in 0 .. Len(u)
      <3>1. u[4] \in Nat /\ Len(u) \in Nat
        BY <2>2, ByteIsNat
      <3> QED
        BY <2>1, <3>1
    <2>4. SubSeq(u, 1, Overhead + u[4]) \in Seq(Byte)
      BY <2>3, SubSeqType, Sizes
    <2>5. /\ processed' = Append(processed, SubSeq(u, 1, Overhead + u[4]))
          /\ unesc' = <<>>
      BY <1>1 DEF Consider
    <2>6. <<>> \in Seq(Byte) /\ Len(<<>>) = 0 /\ 0 <= UnescSize
      BY Sizes
    <2> QED
      BY <2>4, <2>5, <2>6
  <1>2. CASE ~Whole(u)
    BY <1>2 DEF Consider
  <1> QED
    BY <1>1, <1>2

LEMMA AdvanceInv ==
  ASSUME ReceiverInv, Advance
  PROVE  ReceiverInv'
  <1> DEFINE room == UnescSize - Len(Begun)
             un   == Unescape(Rest, room)
  <1>1. /\ ~(Fresh /\ Source = <<>>)
        /\ rxbuf' = Shift(Rest, un.used)
        /\ rxbuf0' = ByteZero(rxbuf', ByteZero(Rest, ByteZero(Source, rxbuf0)))
        /\ looping' = (un.out # <<>>)
        /\ IF un.out # <<>> THEN Consider(Begun \o un.out)
                            ELSE unesc' = Begun /\ UNCHANGED processed
        /\ wire' = wire
    BY DEF Advance
  <1>2. /\ Begun \in Seq(Byte) /\ Len(Begun) <= UnescSize
        /\ Rest \in Seq(Byte) /\ Len(Rest) <= RxBufSize
        /\ ByteZero(Source, rxbuf0) \in Byte
        /\ Fresh => Len(Rest) < RxBufSize /\ Len(Begun) < UnescSize
        /\ ~Fresh => /\ Len(Begun) < UnescSize
                     /\ Rest # <<>> => ~IsFramingByte(Rest[1])
    BY <1>1, BeforeUnescape
  <1>3. /\ wire \in Seq(Byte) /\ processed \in Seq(Seq(Byte))
        /\ UnescSize \in Nat /\ RxBufSize \in Nat /\ RxBufSize >= 12
    BY Sizes DEF ReceiverInv, FramingTypeOK
  <1>4. room \in Nat /\ room # 0
    BY <1>2, <1>3
  <1> HIDE DEF room
  <1>5. un \in Progress /\ Bounded(Rest, room, Len(Rest), un)
    BY <1>2, <1>4, UnescapeType, UnescapeBounded
  <1> HIDE DEF un
  <1>6. /\ un.used \in Nat /\ un.out \in Seq(Byte)
        /\ un.used <= Len(Rest) /\ Len(un.out) <= room
        /\ un.out = <<>> => un.used = 0
    BY <1>5 DEF Progress, Bounded
  <1>7. un.used \in 0 .. Len(Rest)
    BY <1>2, <1>6
  <1>8. rxbuf' \in Seq(Byte) /\ Len(rxbuf') = Len(Rest) - un.used
    BY <1>1, <1>2, <1>7, ShiftType
  <1>9. Len(rxbuf') <= RxBufSize
    BY <1>2, <1>3, <1>6, <1>8
  <1>10. rxbuf0' \in Byte /\ (rxbuf' # <<>> => rxbuf0' = Head(rxbuf'))
    <2>1. ByteZero(Rest, ByteZero(Source, rxbuf0)) \in Byte
      BY <1>2, ByteZeroType
    <2> QED
      BY <1>1, <1>8, <2>1, ByteZeroType
  <1>11. /\ unesc' \in Seq(Byte) /\ Len(unesc') <= UnescSize
         /\ processed' \in Seq(Seq(Byte))
    <2>1. CASE un.out # <<>>
      <3>1. /\ Begun \o un.out \in Seq(Byte)
            /\ Len(Begun \o un.out) = Len(Begun) + Len(un.out)
        BY <1>2, <1>6, ConcatType
      <3>2. Len(un.out) <= UnescSize - Len(Begun)
        BY <1>6 DEF room
      <3>3. Len(Begun \o un.out) <= UnescSize
        BY <1>2, <1>3, <1>6, <3>1, <3>2
      <3>4. Consider(Begun \o un.out)
        BY <1>1, <2>1
      <3> QED
        BY <1>3, <3>1, <3>3, <3>4, ConsiderType
    <2>2. CASE un.out = <<>>
      BY <1>1, <1>2, <1>3, <2>2
    <2> QED
      BY <2>1, <2>2
  <1>12. ~looping' => Len(rxbuf') < RxBufSize
    <2> SUFFICES ASSUME ~looping' PROVE Len(rxbuf') < RxBufSize
      OBVIOUS
    <2>1. un.out = <<>>
      BY <1>1
    <2>2. Len(rxbuf') = Len(Rest)
      BY <1>2, <1>6, <1>8, <2>1
    <2>3. CASE Fresh
      BY <1>2, <2>2, <2>3
    <2>4. CASE ~Fresh
      <3>1. CASE un.done
        <4>1. Len(Rest) >= 1 /\ IsFramingByte(Rest[1])
          BY <1>4, <1>5, <2>1, <3>1 DEF Bounded
        <4>2. Rest # <<>>
          BY <1>2, <4>1
        <4> QED
          BY <1>2, <2>4, <4>1, <4>2
      <3>2. CASE ~un.done
        <4>1. Len(Rest) = 0 \/ Len(Rest) = 1
          BY <1>5, <2>1, <3>2 DEF Bounded
        <4> QED
          <5> DEFINE m == Len(rxbuf')
          <5>1. m = 0 \/ m = 1
            BY <2>2, <4>1
          <5> HIDE DEF m
          <5>2. m < RxBufSize
            BY <1>3, <5>1
          <5> QED
            BY <5>2 DEF m
      <3> QED
        BY <3>1, <3>2
    <2> QED
      BY <2>3, <2>4
  <1>13. looping' \in BOOLEAN
    BY <1>1
  <1>14. UnescSize' = UnescSize /\ RxBufSize' = RxBufSize
    BY DEF UnescSize, RxBufSize
  <1>15. FramingTypeOK'
    BY <1>1, <1>3, <1>8, <1>9, <1>10, <1>11, <1>13, <1>14 DEF FramingTypeOK
  <1>16. AlwaysRoomToRead'
    BY <1>12, <1>14 DEF AlwaysRoomToRead
  <1> QED
    BY <1>10, <1>15, <1>16 DEF ReceiverInv

LEMMA RxInv == ReceiverInv /\ Rx => ReceiverInv'
  BY ReadIncomingInv, AdvanceFindsNothingInv, AdvanceInv DEF Rx

-----------------------------------------------------------------------------
(* The receiver of ostric *)

\* OstricRx and Trumpets have the helpers of Frames under their own names.
LEMMA SameShift == \A b, n : O!Shift(b, n) = Shift(b, n) /\ T!Shift(b, n) = Shift(b, n)
  BY DEF O!Shift, T!Shift, Shift

LEMMA SameFlip == \A n, i : T!Flip(n, i) = Flip(n, i)
  BY Zenon DEF T!Flip, Flip, T!Bit, Bit, T!Weight, Weight

LEMMA SameConstants == O!HeaderSize = HeaderSize /\ O!Overhead = Overhead
  BY DEF O!Overhead, Overhead, O!HeaderSize, HeaderSize

LEMMA SameFromFrameStart == \A b : O!FromFrameStart(b) = FromFrameStart(b)
  BY Zenon DEF O!FromFrameStart, FromFrameStart, O!Shift, Shift,
               O!IsFramingByte, IsFramingByte, O!Start, Start, O!GwStart, GwStart

LEMMA SameUnescape == \A s, room : O!Unescape(s, room) = Unescape(s, room)
  BY Zenon DEF O!Unescape, Unescape, O!UnescapeByte, UnescapeByte, O!Toggle,
               Toggle, O!Flip, Flip, O!Bit, Bit, O!Weight, Weight,
               O!IsFramingByte, IsFramingByte, O!Start, Start, O!GwStart,
               GwStart, O!EscByte, EscByte

LEMMA TurnType ==
  ASSUME wire \in Seq(Byte), processed \in Seq(Seq(Byte)),
         ptyBuf \in Seq(Byte), Len(ptyBuf) <= PtyBufSize, O!Turn
  PROVE  /\ wire' \in Seq(Byte) /\ processed' \in Seq(Seq(Byte))
         /\ ptyBuf' \in Seq(Byte) /\ Len(ptyBuf') <= PtyBufSize
  <1> DEFINE room == PtyBufSize - Len(ptyBuf)
             n    == IF room < Len(wire) THEN room ELSE Len(wire)
             buf  == ptyBuf \o SubSeq(wire, 1, n)
             from == FromFrameStart(buf)
             un   == Unescape(Tail(from), PtyBufSize - 1)
             got  == <<Head(from)>> \o un.out
             len  == (got[4] % LenModulus) + 6
  <1>1. wire' = Shift(wire, n) /\ O!Parse(buf)
    BY SameShift DEF O!Turn, O!ReadRoom
  <1>2. /\ PtyBufSize \in Nat /\ PtyBufSize - 1 \in Nat
        /\ LenModulus \in Nat /\ LenModulus > 0
    BY LineAssumption
  <1>3. n \in 0 .. Len(wire) /\ Len(ptyBuf) + n <= PtyBufSize
    BY <1>2
  <1> HIDE DEF n
  <1>4. wire' \in Seq(Byte)
    BY <1>1, <1>3, ShiftType
  <1>5. buf \in Seq(Byte) /\ Len(buf) <= PtyBufSize
    <2>1. SubSeq(wire, 1, n) \in Seq(Byte) /\ Len(SubSeq(wire, 1, n)) = n
      BY <1>3, SubSeqType
    <2>2. /\ buf \in Seq(Byte)
          /\ Len(buf) = Len(ptyBuf) + Len(SubSeq(wire, 1, n))
      BY <2>1, ConcatType
    <2> QED
      BY <1>3, <2>1, <2>2
  <1> HIDE DEF buf
  <1>6. from \in Seq(Byte) /\ Len(from) <= PtyBufSize
    <2>1. from \in Seq(Byte) /\ Len(from) <= Len(buf)
      BY <1>5, FromFrameStartType
    <2>2. Len(from) \in Nat /\ Len(buf) \in Nat
      BY <1>5, <2>1
    <2> QED
      BY <1>2, <1>5, <2>1, <2>2
  <1>7. CASE from = <<>>
    <2>1. ptyBuf' = <<>> /\ processed' = processed
      BY <1>1, <1>7, SameFromFrameStart DEF O!Parse
    <2>2. <<>> \in Seq(Byte) /\ Len(<<>>) = 0
      OBVIOUS
    <2> QED
      BY <1>2, <1>4, <2>1, <2>2
  <1>8. CASE from # <<>>
    <2>1. O!ParseFrame(from)
      BY <1>1, <1>8, SameFromFrameStart DEF O!Parse
    <2>2. O!Got(from) = got /\ O!Decoded(from) = un
      BY SameUnescape DEF O!Got, O!Decoded
    <2>3. O!CmdLen(got) = len
      BY SameConstants DEF O!CmdLen, HeaderSize, Overhead
    <2> HIDE DEF from
    <2>4. /\ Head(from) \in Byte /\ Tail(from) \in Seq(Byte)
          /\ Len(Tail(from)) = Len(from) - 1
      BY <1>6, <1>8
    <2>5. un \in Progress /\ Bounded(Tail(from), PtyBufSize - 1, Len(Tail(from)), un)
      BY <1>2, <2>4, UnescapeType, UnescapeBounded
    <2> HIDE DEF un
    <2>6. un.out \in Seq(Byte) /\ un.used \in Nat /\ un.used <= Len(from) - 1
      BY <2>4, <2>5 DEF Progress, Bounded
    <2>7. got \in Seq(Byte)
      <3>1. <<Head(from)>> \in Seq(Byte)
        BY <2>4
      <3> QED
        BY <2>6, <3>1, ConcatType
    <2> HIDE DEF got
    <2>8. CASE O!Incomplete(got)
      <3>1. ptyBuf' = from /\ processed' = processed
        BY <2>1, <2>2, <2>8 DEF O!ParseFrame
      <3> QED
        BY <1>4, <1>6, <3>1
    <2>9. CASE ~O!Incomplete(got)
      <3>1. ptyBuf' = Shift(from, un.used + 1) /\ O!ProcessCommand(got)
        BY <2>1, <2>2, <2>9, SameShift DEF O!ParseFrame
      <3>2. un.used + 1 \in 0 .. Len(from)
        BY <1>6, <2>6
      <3>3. ptyBuf' \in Seq(Byte) /\ Len(ptyBuf') = Len(from) - (un.used + 1)
        BY <1>6, <3>1, <3>2, ShiftType
      <3>4. Len(ptyBuf') <= PtyBufSize
        <4>1. Len(from) \in Nat
          BY <1>6
        <4> QED
          BY <1>2, <1>6, <2>6, <3>3, <4>1
      <3>5. Len(got) >= 4 /\ Len(got) >= len
        <4>1. ~(Len(got) < HeaderSize) /\ ~(Len(got) < len)
          BY <2>3, <2>9, SameConstants DEF O!Incomplete
        <4>2. Len(got) \in Nat
          BY <2>7
        <4>3. got[4] \in Byte
          BY <2>7, <4>1, <4>2 DEF HeaderSize
        <4>4. len \in Nat
          <5>1. got[4] \in Nat
            BY <4>3, ByteIsNat
          <5>2. got[4] % LenModulus \in Nat
            BY <1>2, <5>1, Remainder
          <5> QED
            BY <5>2
        <4> HIDE DEF len
        <4> QED
          BY <4>1, <4>2, <4>4 DEF HeaderSize
      <3>6. len \in 0 .. Len(got)
        <4>1. Len(got) \in Nat
          BY <2>7
        <4>2. got[4] \in Byte
          BY <2>7, <3>5, <4>1
        <4>3. len \in Nat
          <5>1. got[4] \in Nat
            BY <4>2, ByteIsNat
          <5>2. got[4] % LenModulus \in Nat
            BY <1>2, <5>1, Remainder
          <5> QED
            BY <5>2
        <4> HIDE DEF len
        <4> QED
          BY <3>5, <4>1, <4>3
      <3> HIDE DEF len
      <3>7. SubSeq(got, 1, len) \in Seq(Byte)
        BY <2>7, <3>6, SubSeqType
      <3>8. processed' = processed \/ processed' = Append(processed, SubSeq(got, 1, len))
        BY <2>3, <3>1 DEF O!ProcessCommand
      <3>9. processed' \in Seq(Seq(Byte))
        <4>1. CASE processed' = processed
          BY <4>1
        <4>2. CASE processed' = Append(processed, SubSeq(got, 1, len))
          BY <3>7, <4>2
        <4> QED
          BY <3>8, <4>1, <4>2
      <3> QED
        BY <1>4, <3>3, <3>4, <3>9
    <2> QED
      BY <2>8, <2>9
  <1> QED
    BY <1>7, <1>8

-----------------------------------------------------------------------------
(* The relay *)

LEMMA DamagedType ==
  ASSUME NEW s \in Seq(Byte), NEW d \in T!Damaged(s)
  PROVE  d \in Seq(Byte) /\ Len(d) = Len(s)
  <1>1. CASE d = s
    BY <1>1
  <1>2. CASE d # s
    <2>1. PICK i \in DOMAIN s, b \in ErrorBits : d = [s EXCEPT ![i] = Flip(s[i], b)]
      BY <1>2, SameFlip DEF T!Damaged
    <2>2. s[i] \in Byte /\ b \in 0 .. 7
      BY LineAssumption
    <2>3. Flip(s[i], b) \in Byte
      BY <2>2, FlipByte
    <2> QED
      BY <2>1, <2>3
  <1> QED
    BY <1>1, <1>2

\* What a step of trumpets leaves of the invariant.
RelayInv ==
  /\ wire \in Seq(Byte)
  /\ input \in Seq(Byte)
  /\ buffer \in Seq(Byte) /\ Len(buffer) <= BufSize
  /\ NoByteForgotten

LEMMA RelayKeepsInv ==
  ASSUME RelayInv, T!Relay
  PROVE  RelayInv'
  <1>1. /\ wire \in Seq(Byte) /\ input \in Seq(Byte) /\ buffer \in Seq(Byte)
        /\ Len(buffer) <= BufSize /\ NoByteForgotten
    BY DEF RelayInv
  <1>2. BufSize \in Nat
    BY LineAssumption
  <1>3. PICK n \in 1 .. BufSize : T!RxData(n) \/ T!TxData(n)
    BY DEF T!Relay
  <1>4. CASE T!RxData(n)
    <2>1. /\ n <= Len(input) /\ n <= BufSize - Len(buffer)
          /\ input' = Shift(input, n) /\ txWatch' = TRUE /\ wire' = wire
      BY <1>4, SameShift DEF T!RxData
    <2>2. PICK s \in T!Damaged(SubSeq(input, 1, n)) : buffer' = buffer \o s
      BY <1>4 DEF T!RxData
    <2>3. n \in 0 .. Len(input)
      BY <1>1, <2>1
    <2>4. SubSeq(input, 1, n) \in Seq(Byte) /\ Len(SubSeq(input, 1, n)) = n
      BY <1>1, <2>3, SubSeqType
    <2>5. s \in Seq(Byte) /\ Len(s) = n
      BY <2>4, DamagedType
    <2>6. buffer' \in Seq(Byte) /\ Len(buffer') = Len(buffer) + n
      BY <1>1, <2>2, <2>5, ConcatType
    <2>7. Len(buffer') <= BufSize
      <3>1. Len(buffer) \in Nat
        BY <1>1
      <3> QED
        BY <1>2, <2>1, <2>6, <3>1
    <2>8. input' \in Seq(Byte)
      BY <1>1, <2>1, <2>3, ShiftType
    <2> QED
      BY <1>1, <2>1, <2>6, <2>7, <2>8 DEF RelayInv, NoByteForgotten
  <1>5. CASE T!TxData(n)
    <2>1. /\ n <= Len(buffer)
          /\ wire' = wire \o SubSeq(buffer, 1, n)
          /\ buffer' = Shift(buffer, n)
          /\ txWatch' = (buffer' # <<>>) /\ input' = input
      BY <1>5, SameShift DEF T!TxData
    <2>2. n \in 0 .. Len(buffer) /\ n \in Nat /\ Len(buffer) \in Nat
      BY <1>1, <2>1
    <2>3. SubSeq(buffer, 1, n) \in Seq(Byte)
      BY <1>1, <2>2, SubSeqType
    <2>4. wire' \in Seq(Byte)
      BY <1>1, <2>1, <2>3, ConcatType
    <2>5. buffer' \in Seq(Byte) /\ Len(buffer') = Len(buffer) - n
      BY <1>1, <2>1, <2>2, ShiftType
    <2>6. Len(buffer') <= BufSize
      BY <1>1, <1>2, <2>2, <2>5
    <2>7. NoByteForgotten'
      BY <2>1 DEF NoByteForgotten
    <2> QED
      BY <1>1, <2>1, <2>4, <2>5, <2>6, <2>7 DEF RelayInv
  <1> QED
    BY <1>3, <1>4, <1>5

-----------------------------------------------------------------------------
(* The line, step by step *)

SentFits == \A i \in DOMAIN sent : IsFrame(sent[i])

\* What only ostric's turns change.
PtyInv == ptyBuf \in Seq(Byte) /\ Len(ptyBuf) <= PtyBufSize

LEMMA LineInvParts ==
  LineInv <=> ReceiverInv /\ PtyInv /\ RelayInv /\ SentFits
  BY DEF LineInv, ReceiverInv, PtyInv, RelayInv, SentFits, FramingTypeOK

LEMMA LineInvStep == LineInv /\ [LineNext]_vars => LineInv'
  <1> SUFFICES ASSUME LineInv, [LineNext]_vars PROVE LineInv'
    OBVIOUS
  <1>1. ReceiverInv /\ PtyInv /\ RelayInv /\ SentFits
    BY LineInvParts
  <1>2. UnescSize' = UnescSize /\ RxBufSize' = RxBufSize
    BY DEF UnescSize, RxBufSize
  <1>3. SentFits'
    <2>1. sent' = sent
      BY DEF LineNext, SricdRx, OstricTurn, TrumpetsRelay, vars
    <2> QED
      BY <1>1, <2>1 DEF SentFits, IsFrame
  <1>4. CASE SricdRx
    <2>1. ReceiverInv'
      BY <1>1, <1>4, RxInv DEF SricdRx
    <2>2. /\ ptyBuf' = ptyBuf /\ input' = input /\ buffer' = buffer
          /\ txWatch' = txWatch
      BY <1>4 DEF SricdRx, relayVars
    <2>3. PtyInv'
      BY <1>1, <2>2 DEF PtyInv
    <2>4. RelayInv'
      BY <1>1, <2>1, <2>2 DEF RelayInv, NoByteForgotten, ReceiverInv, FramingTypeOK
    <2> QED
      BY <1>3, <2>1, <2>3, <2>4, LineInvParts DEF LineInv, ReceiverInv, PtyInv,
         RelayInv, SentFits
  <1>5. CASE OstricTurn
    <2>1. O!Turn
      BY <1>5 DEF OstricTurn
    <2>2. /\ wire' \in Seq(Byte) /\ processed' \in Seq(Seq(Byte))
          /\ ptyBuf' \in Seq(Byte) /\ Len(ptyBuf') <= PtyBufSize
      BY <1>1, <2>1, TurnType DEF ReceiverInv, FramingTypeOK, PtyInv
    <2>3. /\ rxbuf' = rxbuf /\ rxbuf0' = rxbuf0 /\ unesc' = unesc
          /\ looping' = looping /\ input' = input /\ buffer' = buffer
          /\ txWatch' = txWatch
      BY <1>5 DEF OstricTurn, relayVars
    <2>4. ReceiverInv'
      <3>1. FramingTypeOK'
        BY <1>1, <1>2, <2>2, <2>3 DEF ReceiverInv, FramingTypeOK
      <3>2. AlwaysRoomToRead'
        BY <1>1, <1>2, <2>3 DEF ReceiverInv, AlwaysRoomToRead
      <3>3. rxbuf' # <<>> => rxbuf0' = Head(rxbuf')
        BY <1>1, <2>3 DEF ReceiverInv
      <3> QED
        BY <3>1, <3>2, <3>3 DEF ReceiverInv
    <2>5. RelayInv'
      BY <1>1, <2>2, <2>3 DEF RelayInv, NoByteForgotten
    <2> QED
      BY <1>3, <2>2, <2>4, <2>5 DEF LineInv, ReceiverInv, RelayInv, SentFits
  <1>6. CASE TrumpetsRelay
    <2>1. RelayInv'
      BY <1>1, <1>6, RelayKeepsInv DEF TrumpetsRelay
    <2>2. /\ rxbuf' = rxbuf /\ rxbuf0' = rxbuf0 /\ unesc' = unesc
          /\ looping' = looping /\ processed' = processed /\ ptyBuf' = ptyBuf
      BY <1>6 DEF TrumpetsRelay, receiverVars
    <2>3. ReceiverInv'
      <3>1. FramingTypeOK'
        BY <1>1, <1>2, <2>1, <2>2 DEF ReceiverInv, FramingTypeOK, RelayInv
      <3>2. AlwaysRoomToRead'
        BY <1>1, <1>2, <2>2 DEF ReceiverInv, AlwaysRoomToRead
      <3>3. rxbuf' # <<>> => rxbuf0' = Head(rxbuf')
        BY <1>1, <2>2 DEF ReceiverInv
      <3> QED
        BY <3>1, <3>2, <3>3 DEF ReceiverInv
    <2>4. PtyInv'
      BY <1>1, <2>2 DEF PtyInv
    <2> QED
      BY <1>3, <2>1, <2>3, <2>4 DEF LineInv, ReceiverInv, PtyInv, RelayInv, SentFits
  <1>7. CASE UNCHANGED vars
    <2>1. /\ wire' = wire /\ rxbuf' = rxbuf /\ rxbuf0' = rxbuf0
          /\ unesc' = unesc /\ looping' = looping /\ processed' = processed
          /\ ptyBuf' = ptyBuf /\ input' = input /\ buffer' = buffer
          /\ txWatch' = txWatch
      BY <1>7 DEF vars, receiverVars, relayVars
    <2>2. ReceiverInv'
      <3>1. FramingTypeOK'
        BY <1>1, <1>2, <2>1 DEF ReceiverInv, FramingTypeOK
      <3>2. AlwaysRoomToRead'
        BY <1>1, <1>2, <2>1 DEF ReceiverInv, AlwaysRoomToRead
      <3>3. rxbuf' # <<>> => rxbuf0' = Head(rxbuf')
        BY <1>1, <2>1 DEF ReceiverInv
      <3> QED
        BY <3>1, <3>2, <3>3 DEF ReceiverInv
    <2>3. PtyInv'
      BY <1>1, <2>1 DEF PtyInv
    <2>4. RelayInv'
      BY <1>1, <2>1 DEF RelayInv, NoByteForgotten
    <2> QED
      BY <1>3, <2>2, <2>3, <2>4 DEF LineInv, ReceiverInv, PtyInv, RelayInv, SentFits
  <1> QED
    BY <1>4, <1>5, <1>6, <1>7 DEF LineNext

-----------------------------------------------------------------------------
(* Theorems *)

\* Whatever bytes arrive, in pieces of any length: the invariant of the two
\* receivers and of the relay, for every size of their buffers.
THEOREM LineInvariant == LineSpec => []LineInv
  <1>1. LineInit => LineInv
    BY LineInvInit
  <1>2. LineInv /\ [LineNext]_vars => LineInv'
    BY LineInvStep
  <1> QED
    BY <1>1, <1>2, PTL DEF LineSpec

\* read_incoming and unescape never write beyond rxbuf and unesc_rx, and what
\* they leave there are bytes (sric-if.c).
THEOREM FramingTypeCorrect == LineSpec => []FramingTypeOK
  <1>1. LineInv => FramingTypeOK
    BY DEF LineInv
  <1> QED
    BY <1>1, LineInvariant, PTL

\* rx() goes on until what is left in rxbuf is less than a full buffer: read()
\* is never called with no room left, when it would read nothing each time
\* (sric-if.c).
THEOREM ReadAlwaysHasRoom == LineSpec => []AlwaysRoomToRead
  <1>1. LineInv => AlwaysRoomToRead
    BY DEF LineInv
  <1> QED
    BY <1>1, LineInvariant, PTL

\* tx_data removes the write watch only with the last byte (trumpets.c).
THEOREM RelayForgetsNoByte == LineSpec => []NoByteForgotten
  <1>1. LineInv => NoByteForgotten
    BY DEF LineInv
  <1> QED
    BY <1>1, LineInvariant, PTL

\* A frame that sricd has room for is never more than txbuf holds, whatever
\* its bytes are: escaping at most doubles all but the first, and one byte is
\* left for the sum to stay below the length REQUIRE_SPACE compares with.
LEMMA FramesEscape ==
  ASSUME NEW f, IsFrame(f), NEW k \in DOMAIN Tail(f)
  PROVE  HasRoom(Len(Escape(SubSeq(Tail(f), 1, k - 1))),
                 Len(EscapedByte(Tail(f)[k])), TxBufSize - 1)
  <1> DEFINE rest == Tail(f)
             used == Len(Escape(SubSeq(rest, 1, k - 1)))
             more == Len(EscapedByte(rest[k]))
  <1>1. f \in Seq(Byte) /\ f # <<>> /\ Len(f) <= UnescSize
    BY Sizes DEF IsFrame
  <1>2. rest \in Seq(Byte) /\ Len(rest) = Len(f) - 1
    BY <1>1
  <1> HIDE DEF rest
  <1>3. k \in Nat /\ k \in 1 .. Len(rest) /\ k - 1 \in 0 .. Len(rest)
    BY <1>2 DEF rest
  <1>4. SubSeq(rest, 1, k - 1) \in Seq(Byte) /\ Len(SubSeq(rest, 1, k - 1)) = k - 1
    BY <1>2, <1>3, SubSeqType
  <1>5. used \in Nat /\ used <= 2 * (k - 1)
    <2> DEFINE front == SubSeq(rest, 1, k - 1)
    <2> HIDE DEF front
    <2>1. front \in Seq(Byte) /\ Len(front) = k - 1
      BY <1>4 DEF front
    <2>2. Escape(front) \in Seq(Byte) /\ Len(Escape(front)) <= 2 * Len(front)
      BY <2>1, EscapeType
    <2>3. Len(Escape(front)) \in Nat
      BY <2>2
    <2> QED
      BY <2>1, <2>2, <2>3 DEF front
  <1>6. more \in 1 .. 2
    BY <1>2, <1>3, EscapedByteType
  <1> HIDE DEF used, more
  <1>7. k <= UnescSize - 1
    <2>1. Len(f) \in Nat
      BY <1>1
    <2> QED
      BY <1>1, <1>2, <1>3, <2>1, Sizes
  <1>8. used + more < TxBufSize - 1
    BY <1>3, <1>5, <1>6, <1>7, Sizes
  <1> QED
    BY <1>8 DEF HasRoom, used, more, rest

\* next_tx's g_assert(esclen > 0): escape_frame never gives up.
THEOREM EscapingAlwaysFits == LineSpec => []EscapeFits
  <1>1. LineInv => EscapeFits
    <2> SUFFICES ASSUME LineInv PROVE EscapeFits
      OBVIOUS
    <2>1. \A i \in DOMAIN sent : IsFrame(sent[i])
      BY DEF LineInv
    <2> QED
      BY <2>1, FramesEscape DEF EscapeFits
  <1> QED
    BY <1>1, LineInvariant, PTL

-----------------------------------------------------------------------------
(* Escaping and unescaping *)

LEMMA EscapedByteCases ==
  ASSUME NEW b \in Byte
  PROVE  \/ /\ ~IsFramingByte(b) /\ b # EscByte
            /\ EscapedByte(b) = <<b>>
         \/ /\ IsFramingByte(b) \/ b = EscByte
            /\ EscapedByte(b) = <<EscByte, Toggle(b)>>
            /\ ~IsFramingByte(Toggle(b)) /\ Toggle(b) \in Byte
  <1>1. CASE IsFramingByte(b) \/ b = EscByte
    <2>1. b = 126 \/ b = 142 \/ b = 125
      BY <1>1 DEF IsFramingByte, Start, GwStart, EscByte
    <2>2. Toggle(126) = 94 /\ Toggle(142) = 174 /\ Toggle(125) = 93
      BY DEF Toggle, Flip, Bit, Weight
    <2>3. ~IsFramingByte(94) /\ ~IsFramingByte(174) /\ ~IsFramingByte(93)
      BY DEF IsFramingByte, Start, GwStart
    <2>4. ~IsFramingByte(Toggle(b))
      BY <2>1, <2>2, <2>3
    <2> QED
      BY <1>1, <2>4, ToggleByte DEF EscapedByte
  <1>2. CASE ~(IsFramingByte(b) \/ b = EscByte)
    BY <1>2 DEF EscapedByte
  <1> QED
    BY <1>1, <1>2

\* a is the beginning of b.
Begin(a, b) == Len(a) <= Len(b) /\ \A j \in 1 .. Len(a) : b[j] = a[j]

LEMMA BeginConcat ==
  ASSUME NEW a \in Seq(Byte), NEW b \in Seq(Byte), NEW c \in Seq(Byte)
  PROVE  /\ Begin(a, b) => Begin(a, b \o c)
         /\ Begin(a, a)
         /\ \A j \in 1 .. Len(c) : (b \o c)[Len(b) + j] = c[j]
  <1>1. \A j \in 1 .. Len(b) : (b \o c)[j] = b[j]
    OBVIOUS
  <1>2. Len(b \o c) = Len(b) + Len(c)
    OBVIOUS
  <1>3. \A j \in 1 .. Len(c) : (b \o c)[Len(b) + j] = c[j]
    OBVIOUS
  <1>4. Len(a) \in Nat /\ Len(b) \in Nat /\ Len(c) \in Nat
    OBVIOUS
  <1>5. Begin(a, b) => Begin(a, b \o c)
    BY <1>1, <1>2, <1>4 DEF Begin
  <1>6. Begin(a, a)
    BY <1>4 DEF Begin
  <1> QED
    BY <1>3, <1>5, <1>6

\* What escape_frame makes of each byte follows what it made of those before.
LEMMA EscapeSteps ==
  ASSUME NEW s \in Seq(Byte)
  PROVE  \E u \in [0 .. Len(s) -> Seq(Byte)] :
           /\ Escape(s) = u[Len(s)]
           /\ u[0] = <<>>
           /\ \A i \in 1 .. Len(s) : u[i] = u[i - 1] \o EscapedByte(s[i])
           /\ \A i \in 0 .. Len(s) : Begin(u[i], Escape(s))
  <1> DEFINE ss == [i \in DOMAIN s |-> EscapedByte(s[i])]
             n == Len(s)
  <1>1. n \in Nat /\ DOMAIN s = 1 .. n
    OBVIOUS
  <1>2. \A i \in 1 .. n : ss[i] \in Seq(Byte) /\ ss[i] = EscapedByte(s[i])
    BY EscapedByteType
  <1>3. ss \in Seq(Seq(Byte)) /\ Len(ss) = n
    BY <1>1, <1>2
  <1>4. Escape(s) = FlattenSeq(ss)
    BY DEF Escape
  <1> HIDE DEF ss
  <1>5. PICK u \in [0 .. n -> Seq(Byte)] :
          /\ Escape(s) = u[n]
          /\ u[0] = <<>>
          /\ \A i \in 1 .. n : u[i] = u[i - 1] \o ss[i]
    <2>1. PICK u \in [0 .. Len(ss) -> Seq(Byte)] :
            /\ FlattenSeq(ss) = u[Len(ss)]
            /\ u[0] = <<>>
            /\ \A i \in 1 .. Len(ss) : u[i] = u[i - 1] \o ss[i]
      BY <1>3, FlattenSteps, Zenon
    <2> HIDE DEF n
    <2> QED
      BY <2>1, <1>3, <1>4
  <1> HIDE DEF n
  <1> DEFINE Good == {i \in 0 .. n : \A k \in 0 .. i : Begin(u[k], u[i])}
  <1>6. 0 \in Good
    <2>1. u[0] \in Seq(Byte)
      BY <1>1, <1>5
    <2>2. Begin(u[0], u[0])
      BY <2>1, BeginConcat
    <2> QED
      BY <1>1, <2>2
  <1>7. ASSUME NEW i \in 1 .. n, i - 1 \in Good PROVE i \in Good
    <2>1. i - 1 \in 0 .. n /\ i \in 0 .. n
      BY <1>1
    <2>2. /\ u[i] = u[i - 1] \o ss[i]
          /\ u[i] \in Seq(Byte) /\ u[i - 1] \in Seq(Byte) /\ ss[i] \in Seq(Byte)
      BY <1>2, <1>5, <2>1
    <2>3. ASSUME NEW k \in 0 .. i PROVE Begin(u[k], u[i])
      <3>1. CASE k = i
        BY <2>2, <3>1, BeginConcat
      <3>2. CASE k # i
        <4>1. k \in 0 .. i - 1 /\ k \in 0 .. n
          BY <1>1, <3>2
        <4>2. Begin(u[k], u[i - 1]) /\ u[k] \in Seq(Byte)
          BY <1>5, <1>7, <4>1
        <4> QED
          BY <2>2, <4>2, BeginConcat
      <3> QED
        BY <3>1, <3>2
    <2> QED
      BY <2>1, <2>3
  <1>8. n \in Good
    <2> HIDE DEF Good
    <2>1. 0 .. n \subseteq Good
      BY <1>1, <1>6, <1>7, NumbersUpTo
    <2> QED
      BY <1>1, <2>1
  <1>9. \A i \in 0 .. n : Begin(u[i], Escape(s))
    BY <1>5, <1>8
  <1>10. \A i \in 1 .. n : u[i] = u[i - 1] \o EscapedByte(s[i])
    BY <1>2, <1>5
  <1> QED
    BY <1>5, <1>9, <1>10 DEF n

\* escape_frame leaves no framing byte: every one that a listener meets begins
\* a frame (escape.c).
THEOREM EscapedHasNoFramingByte ==
  ASSUME NEW s \in Seq(Byte)
  PROVE  \A j \in 1 .. Len(Escape(s)) : ~IsFramingByte(Escape(s)[j])
  <1> DEFINE n == Len(s)
             Free(t) == \A j \in 1 .. Len(t) : ~IsFramingByte(t[j])
  <1>1. n \in Nat /\ \A i \in 1 .. n : s[i] \in Byte
    OBVIOUS
  <1>2. PICK u \in [0 .. n -> Seq(Byte)] :
          /\ Escape(s) = u[n]
          /\ u[0] = <<>>
          /\ \A i \in 1 .. n : u[i] = u[i - 1] \o EscapedByte(s[i])
          /\ \A i \in 0 .. n : Begin(u[i], Escape(s))
    BY EscapeSteps, Zenon
  <1>3. ASSUME NEW b \in Byte PROVE Free(EscapedByte(b))
    <2>1. CASE EscapedByte(b) = <<b>> /\ ~IsFramingByte(b)
      BY <2>1
    <2>2. CASE EscapedByte(b) = <<EscByte, Toggle(b)>> /\ ~IsFramingByte(Toggle(b))
      <3>1. ~IsFramingByte(EscByte)
        BY DEF IsFramingByte, Start, GwStart, EscByte
      <3> QED
        BY <2>2, <3>1
    <2> QED
      BY <2>1, <2>2, EscapedByteCases
  <1>4. ASSUME NEW a \in Seq(Byte), NEW b \in Seq(Byte), Free(a), Free(b)
        PROVE  Free(a \o b)
    <2> TAKE j \in 1 .. Len(a \o b)
    <2>1. Len(a \o b) = Len(a) + Len(b) /\ Len(a) \in Nat /\ Len(b) \in Nat
      OBVIOUS
    <2>2. CASE j <= Len(a)
      BY <1>4, <2>1, <2>2
    <2>3. CASE j > Len(a)
      <3>1. j - Len(a) \in 1 .. Len(b)
        BY <2>1, <2>3
      <3>2. (a \o b)[j] = b[j - Len(a)]
        BY <2>1, <2>3
      <3> QED
        BY <1>4, <3>1, <3>2
    <2> QED
      BY <2>1, <2>2, <2>3
  <1> HIDE DEF n, Free
  <1> DEFINE Good == {i \in 0 .. n : Free(u[i])}
  <1>5. 0 \in Good
    <2>1. Free(<<>>)
      BY DEF Free
    <2> QED
      BY <1>1, <1>2, <2>1
  <1>6. ASSUME NEW i \in 1 .. n, i - 1 \in Good PROVE i \in Good
    <2>1. i - 1 \in 0 .. n /\ i \in 0 .. n
      BY <1>1
    <2>2. u[i - 1] \in Seq(Byte) /\ EscapedByte(s[i]) \in Seq(Byte)
      BY <1>1, <1>2, <2>1, EscapedByteType
    <2>3. Free(u[i - 1]) /\ Free(EscapedByte(s[i]))
      BY <1>1, <1>3, <1>6
    <2>4. Free(u[i - 1] \o EscapedByte(s[i]))
      BY <1>4, <2>2, <2>3
    <2> QED
      BY <1>2, <2>1, <2>4
  <1>7. n \in Good
    <2> HIDE DEF Good
    <2>1. 0 .. n \subseteq Good
      BY <1>1, <1>5, <1>6, NumbersUpTo
    <2> QED
      BY <1>1, <2>1
  <1> QED
    BY <1>2, <1>7 DEF Free

\* The progress a has made the first i bytes of s out of the first `used'.
Copied(s, i, used, a) ==
  /\ a.used = used /\ ~a.escaped /\ ~a.done
  /\ Len(a.out) = i /\ \A k \in 1 .. i : a.out[k] = s[k]

\* With room for it, unescape makes of what escape_frame has made of some
\* bytes those bytes, and uses all of it (escape.c).
THEOREM UnescapeUndoesEscape ==
  ASSUME NEW s \in Seq(Byte), NEW room \in Nat, Len(s) <= room
  PROVE  /\ Unescape(Escape(s), room).out = s
         /\ Unescape(Escape(s), room).used = Len(Escape(s))
  <1> DEFINE n == Len(s)
             e == Escape(s)
             m == Len(e)
  <1>1. n \in Nat /\ \A i \in 1 .. n : s[i] \in Byte
    OBVIOUS
  <1>2. e \in Seq(Byte) /\ m \in Nat
    BY EscapeType
  <1>3. PICK u \in [0 .. n -> Seq(Byte)] :
          /\ e = u[n]
          /\ u[0] = <<>>
          /\ \A i \in 1 .. n : u[i] = u[i - 1] \o EscapedByte(s[i])
          /\ \A i \in 0 .. n : Begin(u[i], e)
    BY EscapeSteps, Zenon
  <1> HIDE DEF e
  <1>4. PICK w \in [0 .. m -> Progress] :
          /\ Unescape(e, room) = w[m]
          /\ w[0] = NoProgress
          /\ \A j \in 1 .. m : w[j] = UnescapeByte(w[j - 1], e[j], room)
    BY <1>2, UnescapeSteps, Zenon
  <1>5. n <= room
    OBVIOUS
  <1> HIDE DEF n, m
  <1> DEFINE Good == {i \in 0 .. n : Copied(s, i, Len(u[i]), w[Len(u[i])])}
  <1>6. 0 \in Good
    <2>1. Len(<<>>) = 0
      OBVIOUS
    <2> QED
      BY <1>1, <1>3, <1>4, <2>1 DEF Copied, NoProgress
  <1>7. ASSUME NEW i \in 1 .. n, i - 1 \in Good PROVE i \in Good
    <2> DEFINE l == Len(u[i - 1])
               b == s[i]
               x == EscapedByte(b)
    <2>1. i - 1 \in 0 .. n /\ i \in 0 .. n /\ i \in Nat /\ i - 1 \in Nat
          /\ i - 1 < room
      BY <1>1, <1>5
    <2>2. u[i - 1] \in Seq(Byte) /\ u[i] \in Seq(Byte) /\ b \in Byte
      BY <1>1, <1>3, <2>1
    <2>3. x \in Seq(Byte) /\ Len(x) \in 1 .. 2
      BY <2>2, EscapedByteType
    <2>4. u[i] = u[i - 1] \o x
      BY <1>3
    <2> HIDE DEF x
    <2>5. /\ Len(u[i]) = l + Len(x) /\ l \in Nat
          /\ \A j \in 1 .. Len(x) : u[i][l + j] = x[j]
      <3> DEFINE a == u[i - 1]
      <3> HIDE DEF a
      <3>1. a \in Seq(Byte) /\ u[i] = a \o x /\ l = Len(a)
        BY <2>2, <2>4 DEF a
      <3>2. Len(a \o x) = Len(a) + Len(x) /\ Len(a) \in Nat
        BY <2>3, <3>1, ConcatType
      <3>3. \A j \in 1 .. Len(x) : (a \o x)[Len(a) + j] = x[j]
        BY <2>3, <3>1, BeginConcat
      <3> HIDE DEF l
      <3> QED
        BY <3>1, <3>2, <3>3
    <2>6. l + Len(x) <= m /\ \A j \in 1 .. l + Len(x) : e[j] = u[i][j]
      BY <1>3, <2>1, <2>5 DEF Begin, m
    <2>7. Copied(s, i - 1, l, w[l])
      BY <1>7
    <2> HIDE DEF l
    <2>8. ASSUME NEW j \in 1 .. Len(x)
          PROVE  /\ l + j \in 1 .. m /\ (l + j) - 1 \in 0 .. m
                 /\ e[l + j] = x[j]
                 /\ w[l + j] = UnescapeByte(w[(l + j) - 1], x[j], room)
                 /\ w[(l + j) - 1] \in Progress
      <3>1. l + j \in 1 .. l + Len(x) /\ l + j \in 1 .. m /\ (l + j) - 1 \in 0 .. m
        BY <1>2, <2>3, <2>5, <2>6
      <3>2. e[l + j] = x[j]
        BY <2>5, <2>6, <3>1
      <3> QED
        BY <1>4, <3>1, <3>2
    <2>9. ASSUME NEW a \in Progress, NEW c \in Seq(Byte), NEW p,
                 Copied(s, i - 1, p, w[l]), c = Append(w[l].out, b)
          PROVE  Len(c) = i /\ \A k \in 1 .. i : c[k] = s[k]
      <3>1. l \in 0 .. m
        BY <1>2, <2>3, <2>5, <2>6
      <3>2. w[l].out \in Seq(Byte)
        BY <1>4, <3>1 DEF Progress
      <3>3. Len(w[l].out) = i - 1 /\ \A k \in 1 .. i - 1 : w[l].out[k] = s[k]
        BY <2>9 DEF Copied
      <3>4. Len(c) = (i - 1) + 1
        BY <2>9, <3>2, <3>3
      <3>5. ASSUME NEW k \in 1 .. i PROVE c[k] = s[k]
        <4>1. CASE k = i
          <5>1. k = Len(w[l].out) + 1
            BY <2>1, <3>3, <4>1
          <5>2. c[k] = b
            BY <2>2, <2>9, <3>2, <5>1
          <5> QED
            BY <4>1, <5>2
        <4>2. CASE k # i
          <5>1. k \in 1 .. i - 1
            BY <2>1, <4>2
          <5>2. c[k] = w[l].out[k]
            BY <2>9, <3>2, <3>3, <5>1
          <5> QED
            BY <3>3, <5>1, <5>2
        <4> QED
          BY <4>1, <4>2
      <3> QED
        BY <2>1, <3>4, <3>5
    <2>10. Copied(s, i, Len(u[i]), w[Len(u[i])])
      <3>1. CASE x = <<b>> /\ ~IsFramingByte(b) /\ b # EscByte
        <4>1. 1 \in 1 .. Len(x) /\ x[1] = b /\ Len(x) = 1
          BY <3>1
        <4>2. w[l + 1] = UnescapeByte(w[(l + 1) - 1], b, room)
          BY <2>8, <4>1
        <4>3. (l + 1) - 1 = l
          BY <2>5
        <4>4. w[l] \in Progress
          BY <2>8, <4>1, <4>3
        <4> DEFINE a == w[l]
                   r == w[l + 1]
        <4>5. r = UnescapeByte(a, b, room) /\ a \in Progress
          BY <4>2, <4>3, <4>4
        <4>6. Copied(s, i - 1, l, a)
          BY <2>7
        <4> HIDE DEF r
        <4>7. Copies(a, b, room, r) /\ r \in Progress
          <5>1. Len(a.out) # room
            BY <2>1, <4>6 DEF Copied
          <5> HIDE DEF a
          <5>2. /\ r \in Progress
                /\ \/ Ends(a, r)
                   \/ Completes(a, b, r)
                   \/ Stops(a, b, room, r)
                   \/ Begins(a, b, room, r)
                   \/ Copies(a, b, room, r)
            BY <2>2, <4>5, UnescapeByteCases
          <5> QED
            BY <3>1, <4>6, <5>1, <5>2 DEF Copied, Ends, Completes, Stops, Begins
        <4>8. r.out \in Seq(Byte) /\ r.out = Append(a.out, b)
          BY <4>7 DEF Progress, Copies
        <4>9. Len(r.out) = i /\ \A k \in 1 .. i : r.out[k] = s[k]
          BY <2>9, <4>4, <4>6, <4>8
        <4>10. r.used = l + 1 /\ ~r.escaped /\ ~r.done
          BY <4>6, <4>7 DEF Copied, Copies
        <4>11. Len(u[i]) = l + 1
          BY <2>5, <4>1
        <4> QED
          BY <4>9, <4>10, <4>11 DEF Copied, r
      <3>2. CASE /\ x = <<EscByte, Toggle(b)>>
                 /\ ~IsFramingByte(Toggle(b)) /\ Toggle(b) \in Byte
        <4>1. /\ 1 \in 1 .. Len(x) /\ 2 \in 1 .. Len(x) /\ Len(x) = 2
              /\ x[1] = EscByte /\ x[2] = Toggle(b)
          BY <3>2
        <4> DEFINE a == w[l]
                   q == w[l + 1]
                   r == w[l + 2]
        <4>2. (l + 1) - 1 = l /\ (l + 2) - 1 = l + 1
          BY <2>5
        <4>3. q = UnescapeByte(a, EscByte, room) /\ a \in Progress
          BY <2>8, <4>1, <4>2
        <4>4. r = UnescapeByte(q, Toggle(b), room) /\ q \in Progress
          BY <2>8, <4>1, <4>2
        <4>5. Copied(s, i - 1, l, a)
          BY <2>7
        <4> HIDE DEF a, q, r
        <4>6. Begins(a, EscByte, room, q)
          <5>1. Len(a.out) # room
            BY <2>1, <4>5 DEF Copied
          <5>2. EscByte \in Byte /\ ~IsFramingByte(EscByte)
            BY DEF EscByte, Byte, IsFramingByte, Start, GwStart
          <5>3. \/ Ends(a, q)
                \/ Completes(a, EscByte, q)
                \/ Stops(a, EscByte, room, q)
                \/ Begins(a, EscByte, room, q)
                \/ Copies(a, EscByte, room, q)
            BY <4>3, <5>2, UnescapeByteCases
          <5> QED
            BY <4>5, <5>1, <5>2, <5>3 DEF Copied, Ends, Completes, Stops, Copies
        <4>7. Completes(q, Toggle(b), r) /\ r \in Progress
          <5>1. /\ r \in Progress
                /\ \/ Ends(q, r)
                   \/ Completes(q, Toggle(b), r)
                   \/ Stops(q, Toggle(b), room, r)
                   \/ Begins(q, Toggle(b), room, r)
                   \/ Copies(q, Toggle(b), room, r)
            BY <3>2, <4>4, UnescapeByteCases
          <5> QED
            BY <4>6, <5>1 DEF Ends, Stops, Begins, Copies
        <4>8. r.out \in Seq(Byte) /\ r.out = Append(a.out, b)
          <5>1. r.out = Append(a.out, Toggle(Toggle(b)))
            BY <4>6, <4>7 DEF Begins, Completes
          <5> QED
            BY <2>2, <4>7, <5>1, ToggleByte DEF Progress
        <4>9. Len(r.out) = i /\ \A k \in 1 .. i : r.out[k] = s[k]
          BY <2>9, <4>3, <4>5, <4>8 DEF a
        <4>10. r.used = l + 2 /\ ~r.escaped /\ ~r.done
          BY <4>5, <4>6, <4>7 DEF Copied, Begins, Completes
        <4>11. Len(u[i]) = l + 2
          BY <2>5, <4>1
        <4> QED
          BY <4>9, <4>10, <4>11 DEF Copied, r
      <3> QED
        BY <2>2, <3>1, <3>2, EscapedByteCases DEF x
    <2> QED
      BY <2>1, <2>10
  <1>8. n \in Good
    <2> HIDE DEF Good
    <2>1. 0 .. n \subseteq Good
      BY <1>1, <1>6, <1>7, NumbersUpTo
    <2> QED
      BY <1>1, <2>1
  <1>9. Copied(s, n, m, w[m])
    BY <1>3, <1>8 DEF m
  <1> DEFINE out == w[m].out
  <1>10. out \in Seq(Byte)
    BY <1>2, <1>4 DEF Progress
  <1>11. Len(out) = Len(s) /\ \A k \in 1 .. Len(s) : out[k] = s[k]
    BY <1>9 DEF Copied, n
  <1> HIDE DEF out
  <1>12. out = s
    BY <1>10, <1>11
  <1> QED
    BY <1>4, <1>9, <1>12 DEF Copied, out, e, m
=============================================================================
