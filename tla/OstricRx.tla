------------------------------- MODULE OstricRx -------------------------------
(***************************************************************************)
(* The receiver of ostric, the emulated bus (ostric/ostric.c): one turn of *)
(* its main loop reads what there is and looks for one frame at the head   *)
(* of pty_buf.  What the commands do is module Ostric.                     *)
(***************************************************************************)
EXTENDS Frames

CONSTANTS PtyBufSize,  \* bytes in pty_buf and in tmp_buf (128)
          LenModulus   \* a length is taken modulo this: the 0x3F of
                       \* process_command, plus 1 (64)

VARIABLES
  line,      \* bytes the pseudo-terminal has for ostric
  ptyBuf,    \* the first pty_buf_len bytes of pty_buf
  executed   \* the frames handed to gateway_command or bus_command

\* unescape on what follows the start byte of `from', and the frame it makes.
Decoded(from) == Unescape(Tail(from), PtyBufSize - 1)
Got(from)     == <<Head(from)>> \o Decoded(from).out

\* process_command takes the first `cmdlen' bytes for the frame.
CmdLen(got) == (got[HeaderSize] % LenModulus) + Overhead

\* process_command says 1: the frame is not all there.  With no length byte
\* yet it looks at memory nobody has written; any length is too long then.
Incomplete(got) == Len(got) < HeaderSize \/ Len(got) < CmdLen(got)

\* process_command on a frame that is all there.
ProcessCommand(got) ==
  LET frame == SubSeq(got, 1, CmdLen(got))
  IN  executed' = IF ChecksumRight(got, CmdLen(got)) THEN Append(executed, frame)
                                                     ELSE executed

\* The frame at the head of the buffer stays while it is incomplete; else it
\* goes, with everything before the next frame start.
ParseFrame(from) ==
  IF Incomplete(Got(from))
    THEN ptyBuf' = from /\ UNCHANGED executed
    ELSE /\ ptyBuf' = Shift(from, Decoded(from).used + 1)
         /\ ProcessCommand(Got(from))

\* try_parsing_stuff on what the buffer holds.
Parse(buf) ==
  IF FromFrameStart(buf) = <<>>
    THEN ptyBuf' = <<>> /\ UNCHANGED executed
    ELSE ParseFrame(FromFrameStart(buf))

\* A turn with nothing new to read changes nothing: an incomplete frame is at
\* the head of the buffer.
Blocked == /\ ptyBuf # <<>>
           /\ IsFramingByte(Head(ptyBuf))
           /\ Incomplete(Got(ptyBuf))

\* Mutant of ReadRoom: pty_buf is never filled to its last byte.
ReadRoomSpare == PtyBufSize - 1 - Len(ptyBuf)

\* How many bytes try_reading_stuff asks read() for.
ReadRoom == PtyBufSize - Len(ptyBuf)

\* read_frames: with bytes to read, as many as fit are read first.
Turn ==
  /\ line # <<>> \/ ptyBuf # <<>>
  /\ LET n == IF ReadRoom < Len(line) THEN ReadRoom ELSE Len(line)
     IN  /\ line' = Shift(line, n)
         /\ Parse(ptyBuf \o SubSeq(line, 1, n))
=============================================================================
