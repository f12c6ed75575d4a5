------------------------------- MODULE Framing -------------------------------
(***************************************************************************)
(* The receiver of sricd/sric-if.c, which finds frames in what the serial  *)
(* port hands over, in pieces of any length.                               *)
(*                                                                         *)
(* `wire' holds the bytes the port has still to hand over.  One step is    *)
(* one read() or one turn of the loop in rx().  SerialLine says what is on *)
(* the wire.                                                               *)
(***************************************************************************)
EXTENDS Frames

CONSTANT PayloadMax   \* PAYLOAD_MAX

\* The length of a payload is one byte of the header.
ASSUME FramingAssumption == PayloadMax \in Byte

UnescSize  == Overhead + PayloadMax
RxBufSize  == 2 * UnescSize

\* Mutant of TxBufSize: no allowance for escaping.
TxBufSizePlain == UnescSize

TxBufSize == 2 * UnescSize

VARIABLES
  wire,      \* bytes not yet read
  rxbuf,     \* the first rxpos bytes of rxbuf
  rxbuf0,    \* rxbuf[0], which stays what it was when rxpos is 0
  unesc,     \* the first unesc_pos bytes of unesc_rx
  looping,   \* rx() is in its loop
  processed  \* the frames proc_rx_frame was called with

receiverVars == <<rxbuf, rxbuf0, unesc, looping, processed>>

-----------------------------------------------------------------------------
(* sric-if.c: the receiver.  What advance_rx does, part by part. *)

\* rxbuf_shift on a buffer b whose byte 0 is b0.
ByteZero(b, b0) == IF b = <<>> THEN b0 ELSE Head(b)

\* read_incoming: some of what there is, as much as fits, and into the loop.
ReadIncoming(n) ==
  /\ ~looping
  /\ n <= RxBufSize - Len(rxbuf)
  /\ n > 0 \/ Len(rxbuf) = RxBufSize
  /\ n <= Len(wire)
  /\ wire # <<>>
  /\ rxbuf' = rxbuf \o SubSeq(wire, 1, n)
  /\ rxbuf0' = ByteZero(rxbuf', rxbuf0)
  /\ wire' = Shift(wire, n)
  /\ looping' = TRUE
  /\ UNCHANGED <<unesc, processed>>

\* Mutant of Restarts: only a full unesc_rx makes it start afresh.
RestartsWhenFull == Len(unesc) = UnescSize

\* The next frame begins: one is done with, or too long, or cut short.
Restarts == IsFramingByte(rxbuf0) \/ Len(unesc) = UnescSize

\* advance_rx looks for the start of a frame before anything else.
Fresh  == Restarts \/ unesc = <<>>
Source == IF Fresh THEN FromFrameStart(rxbuf) ELSE rxbuf

\* advance_rx finds no frame under way and none to start.
AdvanceFindsNothing ==
  /\ looping
  /\ Fresh
  /\ Source = <<>>
  /\ rxbuf' = <<>>
  /\ unesc' = <<>>
  /\ looping' = FALSE
  /\ UNCHANGED <<wire, rxbuf0, processed>>

\* What unesc_rx and rxbuf hold when unescape is called: the framing byte is
\* moved from one to the other.
Begun == IF Fresh THEN <<Head(Source)>> ELSE unesc
Rest  == IF Fresh THEN Tail(Source) ELSE Source

\* rx: u holds a whole frame whose checksum is right.
Whole(u) ==
  /\ Len(u) >= Overhead
  /\ Len(u) >= Overhead + u[4]
  /\ ChecksumRight(u, Overhead + u[4])

\* Mutant of Consider: unesc_pos is not set to 0 after proc_rx_frame.
ConsiderAgain(u) ==
  /\ unesc' = u
  /\ processed' = IF Whole(u)
                    THEN Append(processed, SubSeq(u, 1, Overhead + u[4]))
                    ELSE processed

\* The body of the loop in rx, on what advance_rx has left in unesc_rx.
Consider(u) ==
  IF Whole(u)
    THEN /\ processed' = Append(processed, SubSeq(u, 1, Overhead + u[4]))
         /\ unesc' = <<>>
    ELSE /\ unesc' = u
         /\ UNCHANGED processed

\* advance_rx, then the loop's body if advance_rx made any progress.
Advance ==
  /\ looping
  /\ ~(Fresh /\ Source = <<>>)
  /\ LET un == Unescape(Rest, UnescSize - Len(Begun))
     IN  /\ rxbuf' = Shift(Rest, un.used)
         /\ rxbuf0' = ByteZero(rxbuf', ByteZero(Rest, ByteZero(Source, rxbuf0)))
         /\ looping' = (un.out # <<>>)
         /\ IF un.out # <<>> THEN Consider(Begun \o un.out)
                             ELSE unesc' = Begun /\ UNCHANGED processed
  /\ UNCHANGED wire

-----------------------------------------------------------------------------

Init ==
  /\ rxbuf = <<>>
  /\ rxbuf0 = 0
  /\ unesc = <<>>
  /\ looping = FALSE
  /\ processed = <<>>

Rx ==
  \/ \E n \in 0 .. RxBufSize : ReadIncoming(n)
  \/ AdvanceFindsNothing
  \/ Advance

-----------------------------------------------------------------------------
(* Properties *)

\* The sizes of rxbuf and unesc_rx are respected.
FramingTypeOK ==
  /\ wire \in Seq(Byte)
  /\ rxbuf \in Seq(Byte) /\ Len(rxbuf) <= RxBufSize
  /\ rxbuf0 \in Byte
  /\ unesc \in Seq(Byte) /\ Len(unesc) <= UnescSize
  /\ looping \in BOOLEAN
  /\ processed \in Seq(Seq(Byte))

\* The receiver keeps less than a frame in rxbuf between two reads, so that
\* read() is never called with no room left.
AlwaysRoomToRead == ~looping => Len(rxbuf) < RxBufSize
=============================================================================
