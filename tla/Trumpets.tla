------------------------------- MODULE Trumpets -------------------------------
(***************************************************************************)
(* trumpets (trumpets/trumpets.c), a relay between two ends of a serial    *)
(* line that inserts one-bit errors.  Its two directions are the same two  *)
(* callbacks on different channels and share nothing: this is one of them, *)
(* from the channel rx_data is called with to its target.                  *)
(***************************************************************************)
EXTENDS Frames

CONSTANTS BufSize,    \* bytes in a channel's buffer (256)
          ErrorBits,  \* the bits that errors hit (0 .. 7)
          MaxErrors,  \* bound: errors inserted
          MaxWire     \* bound: bytes the kernel keeps for the reader

VARIABLES
  input,    \* bytes written to this end and not yet read
  buffer,   \* the first rxpos bytes of the channel's buffer
  txWatch,  \* tx_watch_id of the target # 0
  errors,   \* errors inserted (not in the code)
  wire      \* bytes written to the other end and not yet read there

\* What read() may leave of the bytes s: themselves, or one bit of one wrong.
Damaged(s) ==
  {s} \cup {[s EXCEPT ![i] = Flip(s[i], b)] : i \in DOMAIN s, b \in ErrorBits}

\* Mutant of RxData: the write watch is not added.
RxDataNoWatch(n) ==
  /\ n <= Len(input)
  /\ n <= BufSize - Len(buffer)
  /\ \E s \in Damaged(SubSeq(input, 1, n)) :
       /\ errors' = IF s = SubSeq(input, 1, n) THEN errors ELSE errors + 1
       /\ errors' <= MaxErrors
       /\ buffer' = buffer \o s
  /\ input' = Shift(input, n)
  /\ UNCHANGED <<wire, txWatch>>

\* rx_data reads n bytes.  With a full buffer read() is asked for none, and
\* nothing changes.
RxData(n) ==
  /\ n <= Len(input)
  /\ n <= BufSize - Len(buffer)
  /\ \E s \in Damaged(SubSeq(input, 1, n)) :
       /\ errors' = IF s = SubSeq(input, 1, n) THEN errors ELSE errors + 1
       /\ errors' <= MaxErrors
       /\ buffer' = buffer \o s
  /\ input' = Shift(input, n)
  /\ txWatch' = TRUE
  /\ UNCHANGED wire

\* tx_data on the target: write() takes n bytes, and the watch goes with the
\* last of them.
TxData(n) ==
  /\ txWatch
  /\ n <= Len(buffer)
  /\ Len(wire) + n <= MaxWire
  /\ wire' = wire \o SubSeq(buffer, 1, n)
  /\ buffer' = Shift(buffer, n)
  /\ txWatch' = (buffer' # <<>>)
  /\ UNCHANGED <<input, errors>>

Relay == \E n \in 1 .. BufSize : RxData(n) \/ TxData(n)
=============================================================================
