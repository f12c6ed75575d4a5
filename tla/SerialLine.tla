------------------------------ MODULE SerialLine ------------------------------
(***************************************************************************)
(* A serial line and who listens at its end: sricd (Framing) or the        *)
(* emulated bus (OstricRx), on a line that is noisy before each frame, or  *)
(* behind trumpets (Trumpets), which damages what it relays.               *)
(***************************************************************************)
EXTENDS Framing, FiniteSets

CONSTANTS PtyBufSize, LenModulus,                 \* as in OstricRx
          BufSize, ErrorBits, MaxErrors, MaxWire, \* as in Trumpets
          Payloads,    \* the payloads of frames on the noisy line
          Noises,      \* what it may carry before a frame
          NumFrames,   \* bound: frames on the noisy line
          Relayed      \* Relayed[l]: what may be sent to l through trumpets, as
                       \* sequences of records of a type and a payload

ASSUME LineAssumption ==
  /\ {PtyBufSize, LenModulus, BufSize, MaxWire} \subseteq Nat \ {0}
  /\ ErrorBits \subseteq 0 .. 7
  /\ MaxErrors \in Nat
  /\ \A p \in Payloads : p \in Seq(Byte) /\ Len(p) <= PayloadMax
  /\ \A n \in Noises : n \in Seq(Byte)
  /\ NumFrames \in Nat
  /\ DOMAIN Relayed = {"sricd", "ostric"}
  /\ \A l \in DOMAIN Relayed : \A t \in Relayed[l] :
       /\ t \in Seq([type : {Start, GwStart}, payload : Seq(Byte)])
       /\ \A i \in DOMAIN t : Len(t[i].payload) <= PayloadMax

VARIABLES
  listener,  \* who listens
  sent,      \* the frames sent (not in the code)
  ptyBuf,    \* as in OstricRx
  input, buffer, txWatch, errors  \* as in Trumpets

relayVars == <<input, buffer, txWatch, errors>>
vars == <<wire, receiverVars, listener, sent, ptyBuf, relayVars>>

O == INSTANCE OstricRx WITH line <- wire, executed <- processed

T == INSTANCE Trumpets

\* The address byte of a frame for each listener: an ACK for sricd, which is
\* address 1, and a frame for device 2.
DestOf(l) == IF l = "sricd" THEN 129 ELSE 2

Frame(l, type, payload) ==
  Packed(type, DestOf(l), IF l = "sricd" THEN 2 ELSE 1, payload)

-----------------------------------------------------------------------------

\* Some frames are on their way to sricd, each after some noise.
NoisyLine ==
  /\ listener = "sricd"
  /\ \E k \in 1 .. NumFrames :
       \E ps \in [1 .. k -> Payloads], ns \in [1 .. k -> Noises],
          types \in [1 .. k -> {Start, GwStart}] :
         /\ sent = [i \in 1 .. k |-> Frame("sricd", types[i], ps[i])]
         /\ wire = FlattenSeq([i \in 1 .. k |-> ns[i] \o OnWire(sent[i])])
  /\ input = <<>>

\* Frames are on their way to trumpets.
RelayedLine ==
  /\ \E t \in Relayed[listener] :
       sent = [i \in DOMAIN t |-> Frame(listener, t[i].type, t[i].payload)]
  /\ input = FlattenSeq([i \in DOMAIN sent |-> OnWire(sent[i])])
  /\ wire = <<>>

LineInit ==
  /\ Init
  /\ listener \in {"sricd", "ostric"}
  /\ NoisyLine \/ RelayedLine
  /\ ptyBuf = <<>>
  /\ buffer = <<>>
  /\ txWatch = FALSE
  /\ errors = 0

\* rx of sric-if.c.
SricdRx ==
  /\ listener = "sricd"
  /\ Rx
  /\ UNCHANGED <<listener, sent, ptyBuf, relayVars>>

\* The main loop of ostric.
OstricTurn ==
  /\ listener = "ostric"
  /\ O!Turn
  /\ UNCHANGED <<rxbuf, rxbuf0, unesc, looping, listener, sent, relayVars>>

TrumpetsRelay ==
  /\ T!Relay
  /\ UNCHANGED <<receiverVars, listener, sent, ptyBuf>>

LineNext == SricdRx \/ OstricTurn \/ TrumpetsRelay

LineSpec == LineInit /\ [][LineNext]_vars

-----------------------------------------------------------------------------
(* Properties *)

\* However the bytes are cut into reads, and whatever noise comes between
\* frames or bit goes wrong within them, a listener acts on nothing but frames
\* that were sent, unchanged, in order and once each.
FramesInOrder ==
  \E at \in [DOMAIN processed -> DOMAIN sent] :
    /\ \A i \in DOMAIN processed : processed[i] = sent[at[i]]
    /\ \A i, j \in DOMAIN processed : i < j => at[i] < at[j]

Delivered == input = <<>> /\ buffer = <<>> /\ wire = <<>>

Missing == Len(sent) - Len(processed)

\* advance_rx meets two framing bytes in a row: unescape uses none, the loop
\* of rx ends, and what is in rxbuf waits for the next byte.
HeldBack == rxbuf # <<>> /\ IsFramingByte(Head(rxbuf))

\* Once every byte has been read and rx() has returned, sricd has processed
\* every frame but those that were damaged: the last one is not held back
\* until the next byte comes, unless it follows another framing byte.
NothingHeldBack ==
  listener = "sricd" /\ Delivered /\ ~looping
    => HeldBack \/ Missing <= errors

\* ostric takes in a frame: all of it is in pty_buf at a time, and its length
\* is less than process_command can tell.
TakenIn(f) == Len(OnWire(f)) <= PtyBufSize /\ f[HeaderSize] < LenModulus

Untaken == {i \in DOMAIN sent : ~TakenIn(sent[i])}

\* The turns of ostric change nothing any more: every byte has reached it, or
\* a frame that blocks it leaves read() no room.
OstricAtRest ==
  \/ Delivered /\ (ptyBuf = <<>> \/ O!Blocked)
  \/ O!Blocked /\ O!ReadRoom = 0

\* Once its turns change nothing, ostric has executed every frame but those
\* that were damaged or that it cannot take in, unless it is blocked, which
\* takes a damaged frame or one it cannot take in.  Without a wrong bit nothing
\* is lost before the first frame it cannot take in, the frame that just fills
\* pty_buf included.
OstricHears ==
  listener = "ostric" /\ OstricAtRest =>
    /\ \/ Missing <= errors + Cardinality(Untaken)
       \/ O!Blocked /\ (errors > 0 \/ Untaken # {})
    /\ errors = 0 =>
         \A i \in DOMAIN sent :
           (\A j \in 1 .. i : TakenIn(sent[j]))
             => i \in DOMAIN processed /\ processed[i] = sent[i]

\* trumpets keeps no byte to itself: while any waits, the write watch is on.
NoByteForgotten == buffer # <<>> => txWatch

\* next_tx's g_assert(esclen > 0): REQUIRE_SPACE never gives up on a frame of
\* txbuf, even if every byte of it is escaped.
EscapeFits ==
  \A i \in DOMAIN sent :
    LET rest == Tail(sent[i])
    IN  \A k \in DOMAIN rest :
          HasRoom(Len(Escape(SubSeq(rest, 1, k - 1))),
                  Len(EscapedByte(rest[k])), TxBufSize - 1)
=============================================================================
