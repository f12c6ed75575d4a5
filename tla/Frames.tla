-------------------------------- MODULE Frames --------------------------------
(***************************************************************************)
(* Frames as bytes: the checksum of sricd/crc16, the escaping of           *)
(* sricd/escape.c, and the layout of a frame.  sricd, ostric and every     *)
(* device share them.                                                      *)
(***************************************************************************)
EXTENDS Naturals, SequencesExt

Start     == 126   \* 0x7E
GwStart   == 142   \* 0x8E
EscByte   == 125   \* 0x7D

Byte == 0 .. 255

HeaderSize == 4
Overhead   == HeaderSize + 2

-----------------------------------------------------------------------------
(* Bits *)

\* Weight[i + 1] is 1 << i.
Weight == <<1, 2, 4, 8, 16, 32, 64, 128>>

Bit(n, i) == (n \div Weight[i + 1]) % 2

\* n ^ (1 << i)
Flip(n, i) == IF Bit(n, i) = 1 THEN n - Weight[i + 1] ELSE n + Weight[i + 1]

\* The exclusive or, digit by digit in base 16, of bytes and 16-bit words.
XorDigit ==
  [a \in 0 .. 15 |-> [b \in 0 .. 15 |->
     LET x(i) == Weight[i + 1] * ((Bit(a, i) + Bit(b, i)) % 2)
     IN  x(0) + x(1) + x(2) + x(3)]]
Xor8(a, b)  == 16 * XorDigit[a \div 16][b \div 16] + XorDigit[a % 16][b % 16]
Xor16(a, b) == 256 * Xor8(a \div 256, b \div 256) + Xor8(a % 256, b % 256)

-----------------------------------------------------------------------------
(* crc16/crc16-build.c, which writes crc16.c *)

Polynomial == 40961   \* 0xA001

CrcShift(c) == IF c % 2 = 1 THEN Xor16(Polynomial, c \div 2) ELSE c \div 2

CrcTable ==
  [n \in Byte |->
     LET shifted[k \in 0 .. 8] == IF k = 0 THEN n ELSE CrcShift(shifted[k - 1])
     IN  shifted[8]]

\* The checksum c goes on with the byte b.
CrcStep(c, b) == Xor16(CrcTable[Xor8(c % 256, b)], c \div 256)

Crc16(s) ==
  LET crc[i \in 0 .. Len(s)] == IF i = 0 THEN 65535 ELSE CrcStep(crc[i - 1], s[i])
  IN  65535 - crc[Len(s)]

-----------------------------------------------------------------------------
(* escape.c *)

IsFramingByte(b) == b \in {Start, GwStart}

\* b ^ 0x20
Toggle(b) == Flip(b, 5)

\* Mutant of EscapedByte: the start byte of gateway frames goes out as it is.
EscapedByteNoGw(b) == IF b \in {Start, EscByte} THEN <<EscByte, Toggle(b)>>
                                                ELSE <<b>>

EscapedByte(b) == IF IsFramingByte(b) \/ b = EscByte
                    THEN <<EscByte, Toggle(b)>>
                    ELSE <<b>>

\* escape_frame when there is room: see EscapeFits.
Escape(s) == FlattenSeq([i \in DOMAIN s |-> EscapedByte(s[i])])

\* REQUIRE_SPACE does not give up.
HasRoom(used, bytes, maxLength) == used + bytes < maxLength

\* Mutant of UnescapeByte: dpos < destlen is not looked at.
UnescapeByteNoRoom(acc, b, room) ==
  IF acc.done THEN acc
  ELSE IF acc.escaped
    THEN [acc EXCEPT !.used = @ + 2, !.out = Append(@, Toggle(b)),
                     !.escaped = FALSE]
  ELSE IF IsFramingByte(b)
    THEN [acc EXCEPT !.done = TRUE]
  ELSE IF b = EscByte
    THEN [acc EXCEPT !.escaped = TRUE]
    ELSE [acc EXCEPT !.used = @ + 1, !.out = Append(@, b)]

\* One byte of unescape: `used' bytes of the source are done with, `escaped'
\* says that a 0x7D waits for the byte after it.
UnescapeByte(acc, b, room) ==
  IF acc.done THEN acc
  ELSE IF acc.escaped
    THEN [acc EXCEPT !.used = @ + 2, !.out = Append(@, Toggle(b)),
                     !.escaped = FALSE]
  ELSE IF Len(acc.out) = room \/ IsFramingByte(b)
    THEN [acc EXCEPT !.done = TRUE]
  ELSE IF b = EscByte
    THEN [acc EXCEPT !.escaped = TRUE]
    ELSE [acc EXCEPT !.used = @ + 1, !.out = Append(@, b)]

\* unescape: how much of src is used, and the bytes it makes, at most `room'.
\* A 0x7D at the end of src is left for the next time.
Unescape(src, room) ==
  LET upTo[i \in 0 .. Len(src)] ==
        IF i = 0
          THEN [used |-> 0, out |-> <<>>, escaped |-> FALSE, done |-> FALSE]
          ELSE UnescapeByte(upTo[i - 1], src[i], room)
  IN  upTo[Len(src)]

-----------------------------------------------------------------------------
(* Whole frames *)

\* send_msg, next_tx: the frame before escaping.
Packed(type, dst, src, payload) ==
  LET body == <<type, dst, src, Len(payload)>> \o payload
  IN  body \o <<Crc16(body) % 256, Crc16(body) \div 256>>

\* The start byte itself is not escaped.
OnWire(frame) == <<Head(frame)>> \o Escape(Tail(frame))

\* u begins with a frame of n bytes whose checksum is right.
ChecksumRight(u, n) ==
  LET crc == Crc16(SubSeq(u, 1, n - 2))
  IN  u[n - 1] = crc % 256 /\ u[n] = crc \div 256

\* A buffer without its first n bytes.
Shift(b, n) == SubSeq(b, n + 1, Len(b))

\* A buffer from its first framing byte on.
FromFrameStart(b) ==
  LET starts == {i \in DOMAIN b : IsFramingByte(b[i])}
  IN  IF starts = {} THEN <<>>
      ELSE Shift(b, (CHOOSE i \in starts : \A j \in starts : i <= j) - 1)
=============================================================================
