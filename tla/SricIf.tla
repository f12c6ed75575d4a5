------------------------------- MODULE SricIf -------------------------------
(***************************************************************************)
(* The transmit side of sricd once enumeration is over: the two-priority   *)
(* transmit queue (sricd/output-queue.c), the write watch, the             *)
(* stop-and-wait retransmission and the acknowledgement handling of        *)
(* sricd/sric-if.c, with the client events that reach them.                *)
(*                                                                         *)
(* sricd is one thread around a glib main loop: each action below is one   *)
(* run of a callback, from its dispatch to its return.  What interleaves   *)
(* is the order in which glib dispatches them and how many bytes each      *)
(* write() of the serial port takes.                                       *)
(*                                                                         *)
(* Frames are numbered in the order txq_push allocates them, so a GQueue   *)
(* filled at its head and drained at its tail is a set whose next element  *)
(* is the one with the smallest number.  Payloads are left out, and of an  *)
(* address only what tells: "address & 0x80" is an ACK, 0 is a broadcast,  *)
(* which several devices answer, and the rest is for one device.           *)
(***************************************************************************)
EXTENDS Naturals

CONSTANTS Clients,      \* the addresses malloc can give a struct _client
          NoTag,        \* the NULL tag of an ACK frame
          NoFrame,      \* tx_frame == NULL
          TxLen,        \* bytes of an escaped frame in txbuf
          Destinations, \* where programs send: to "device", to "broadcast"
          Responders,   \* devices on the bus that answer a broadcast
          MaxFrames,    \* bound: frames ever allocated
          MaxSessions,  \* bound: connections ever made at one client address
          MaxCopies     \* bound: answers to one frame on the wire at a time

FrameIds == 1 .. MaxFrames

\* frame_t, as allocated by txq_push.  `session' is not in the code: it says
\* which of the clients that lived at the address `tag' queued the frame.
Frame == [id : FrameIds, tag : Clients \cup {NoTag},
          session : 0 .. MaxSessions, addr : Destinations \cup {"ack"}]

ASSUME ConstantsAssumption ==
  /\ NoTag \notin Clients
  /\ NoFrame \notin Frame
  /\ TxLen \in Nat \ {0}
  /\ Destinations \subseteq {"device", "broadcast"}
  /\ Responders \in Nat
  /\ MaxFrames \in Nat
  /\ MaxSessions \in Nat
  /\ MaxCopies \in Nat \ {0}

VARIABLES
  txq,            \* tx_queue[0], tx_queue[1]
  allocs,         \* number of frames txq_push has allocated
  heap,           \* numbers of the frames allocated and not freed
  txFrame,        \* tx_frame
  txpos,          \* offset of the next byte of txbuf to go out
  writeWatch,     \* write_srcid # 0
  retxmitTimer,   \* the source of retxmit_timeout_id is armed
  frameCancelled, \* frame_cancelled
  conn,           \* conn[c]: a live client is allocated at c
  session,        \* session[c]: how many clients have been allocated at c
  answers,        \* answers[n]: answers to frame n travelling to sricd
  aborted         \* an assertion failed and the daemon is gone

queueVars  == <<txq, allocs, heap>>
frameVars  == <<txFrame, txpos, frameCancelled>>
clientVars == <<conn, session>>
vars == <<txq, allocs, heap, txFrame, txpos, writeWatch, retxmitTimer,
          frameCancelled, conn, session, answers, aborted>>

Queued == txq[0] \cup txq[1]

\* Entirely written and not yet answered: the test at the head of if_tx.
Awaiting == txFrame # NoFrame /\ txpos = TxLen

-----------------------------------------------------------------------------
(* output-queue.c *)

\* Mutant of TxqPush: the call of sric_if_tx_ready is forgotten.
TxqPushNoWake(pri, tag, sess, addr) ==
  /\ allocs < MaxFrames
  /\ allocs' = allocs + 1
  /\ txq' = [txq EXCEPT ![pri] = @ \cup
       {[id |-> allocs + 1, tag |-> tag, session |-> sess, addr |-> addr]}]
  /\ heap' = heap \cup {allocs + 1}
  /\ UNCHANGED writeWatch

TxqPush(pri, tag, sess, addr) ==
  /\ allocs < MaxFrames
  /\ allocs' = allocs + 1
  /\ txq' = [txq EXCEPT ![pri] = @ \cup
       {[id |-> allocs + 1, tag |-> tag, session |-> sess, addr |-> addr]}]
  /\ heap' = heap \cup {allocs + 1}
  /\ writeWatch' = TRUE

\* Mutant of TxqNext: the frame is looked at and not taken off the queue.
TxqNextPeek(f, maxPri) ==
  \E i \in 0 .. maxPri :
    /\ f \in txq[i]
    /\ \A g \in txq[i] : f.id <= g.id
    /\ \A j \in 0 .. maxPri : j < i => txq[j] = {}
    /\ UNCHANGED txq

\* Mutant of TxqNext: the head is popped, the newest frame first.
TxqNextNewest(f, maxPri) ==
  \E i \in 0 .. maxPri :
    /\ f \in txq[i]
    /\ \A g \in txq[i] : g.id <= f.id
    /\ \A j \in 0 .. maxPri : j < i => txq[j] = {}
    /\ txq' = [txq EXCEPT ![i] = @ \ {f}]

\* f is at the tail of the first queue, up to max_pri, that is not empty.
TxqNext(f, maxPri) ==
  \E i \in 0 .. maxPri :
    /\ f \in txq[i]
    /\ \A g \in txq[i] : f.id <= g.id
    /\ \A j \in 0 .. maxPri : j < i => txq[j] = {}
    /\ txq' = [txq EXCEPT ![i] = @ \ {f}]

TxqEmpty == Queued = {}

\* Mutant of TxqCancel: the call of sric_if_cancel is forgotten.
TxqCancelQueuesOnly(tag) ==
  /\ txq' = [i \in 0 .. 1 |-> {f \in txq[i] : f.tag # tag}]
  /\ heap' = {n \in heap : \A f \in Queued : f.tag = tag => f.id # n}
  /\ UNCHANGED <<allocs, frameCancelled>>

\* rm_tag_frames over both queues, then sric_if_cancel.
TxqCancel(tag) ==
  /\ txq' = [i \in 0 .. 1 |-> {f \in txq[i] : f.tag # tag}]
  /\ heap' = {n \in heap : \A f \in Queued : f.tag = tag => f.id # n}
  /\ frameCancelled' = (frameCancelled \/
                        (txFrame # NoFrame /\ txFrame.tag = tag))
  /\ UNCHANGED allocs

-----------------------------------------------------------------------------
(* sric-if.c: the write watch *)

\* The tag is NULL or the frame is an ACK: no answer is expected.
NoResponse(f) == f.tag = NoTag \/ f.addr = "ack"

\* The frame if_tx works on, and the offset it goes on from: the current one
\* when it is not all out, or the next of the queue, which next_tx sets up.
TakeFrame(f) ==
  \/ /\ txFrame # NoFrame
     /\ f = txFrame
     /\ txpos < TxLen
     /\ UNCHANGED <<txq, frameCancelled>>
  \/ /\ txFrame = NoFrame
     /\ TxqNext(f, 1)
     /\ frameCancelled' = FALSE

StartPos == IF txFrame = NoFrame THEN 0 ELSE txpos

\* An answer is awaited, or nothing is queued: the watch removes itself.
IfTxIdle ==
  /\ writeWatch
  /\ Awaiting \/ (txFrame = NoFrame /\ TxqEmpty)
  /\ writeWatch' = FALSE
  /\ UNCHANGED <<queueVars, frameVars, retxmitTimer, clientVars, answers,
                 aborted>>

\* Mutant of IfTxPartial: write() is given txlen bytes and not what remains.
IfTxPartialOverrun(f, w) ==
  /\ writeWatch
  /\ TakeFrame(f)
  /\ StartPos + w # TxLen
  /\ txFrame' = f
  /\ txpos' = StartPos + w
  /\ UNCHANGED <<allocs, heap, writeWatch, retxmitTimer, clientVars, answers,
                 aborted>>

\* write() takes w bytes and leaves some.
IfTxPartial(f, w) ==
  /\ writeWatch
  /\ TakeFrame(f)
  /\ StartPos + w < TxLen
  /\ txFrame' = f
  /\ txpos' = StartPos + w
  /\ UNCHANGED <<allocs, heap, writeWatch, retxmitTimer, clientVars, answers,
                 aborted>>

\* The last byte of a frame that wants no answer is out: tx_frame is dropped
\* (and not freed) and the watch stays for the next one.
IfTxNoResponse(f) ==
  /\ writeWatch
  /\ TakeFrame(f)
  /\ NoResponse(f)
  /\ txFrame' = NoFrame
  /\ txpos' = TxLen
  /\ UNCHANGED <<allocs, heap, writeWatch, retxmitTimer, clientVars, answers,
                 aborted>>

\* How many devices answer f: a broadcast is acknowledged by each that takes
\* it (external).  The bus may lose any of these answers (Lose).
AnswersTo(f) == IF f.addr = "broadcast" THEN Responders ELSE 1

UpToMaxCopies(k) == IF k < MaxCopies THEN k ELSE MaxCopies

\* Mutant of IfTxSent: tx_frame is dropped whether an answer is due or not.
IfTxSentForgets(f) ==
  /\ writeWatch
  /\ TakeFrame(f)
  /\ ~NoResponse(f)
  /\ txFrame' = NoFrame
  /\ txpos' = TxLen
  /\ answers' = [answers EXCEPT ![f.id] = UpToMaxCopies(@ + AnswersTo(f))]
  /\ UNCHANGED <<allocs, heap, writeWatch, retxmitTimer, clientVars, aborted>>

\* The last byte of a frame that wants an answer is out: the timer is armed,
\* the watch removed, and the devices it is for may answer.
IfTxSent(f) ==
  /\ writeWatch
  /\ TakeFrame(f)
  /\ ~NoResponse(f)
  /\ txFrame' = f
  /\ txpos' = TxLen
  /\ retxmitTimer' = TRUE
  /\ writeWatch' = FALSE
  /\ answers' = [answers EXCEPT ![f.id] = UpToMaxCopies(@ + AnswersTo(f))]
  /\ UNCHANGED <<allocs, heap, clientVars, aborted>>

IfTx ==
  /\ ~aborted
  /\ \/ IfTxIdle
     \/ \E f \in Queued \cup {txFrame} :
          \/ \E w \in 1 .. TxLen : IfTxPartial(f, w)
          \/ IfTxNoResponse(f)
          \/ IfTxSent(f)

\* Mutant of TxTimeout: the call of sric_if_tx_ready is forgotten.
TxTimeoutNoWake ==
  /\ ~aborted
  /\ retxmitTimer
  /\ retxmitTimer' = FALSE
  /\ txFrame' = IF frameCancelled THEN NoFrame ELSE txFrame
  /\ heap' = IF frameCancelled THEN heap \ {txFrame.id} ELSE heap
  /\ txpos' = 0
  /\ UNCHANGED <<txq, allocs, writeWatch, frameCancelled, clientVars, answers,
                 aborted>>

\* RETXMIT_TIMEOUT ms passed since the frame was sent.
TxTimeout ==
  /\ ~aborted
  /\ retxmitTimer
  /\ retxmitTimer' = FALSE
  /\ txFrame' = IF frameCancelled THEN NoFrame ELSE txFrame
  /\ heap' = IF frameCancelled THEN heap \ {txFrame.id} ELSE heap
  /\ txpos' = 0
  /\ writeWatch' = TRUE
  /\ UNCHANGED <<txq, allocs, frameCancelled, clientVars, answers, aborted>>

-----------------------------------------------------------------------------
(* sric-if.c: proc_rx_frame on a frame for sricd *)

\* An ACK arrives and no frame is current.
RxUnsolicitedAck(n) ==
  /\ ~aborted
  /\ answers[n] > 0
  /\ txFrame = NoFrame
  /\ answers' = [answers EXCEPT ![n] = @ - 1]
  /\ UNCHANGED <<queueVars, frameVars, writeWatch, retxmitTimer, clientVars,
                 aborted>>

\* The frame is not cancelled: client_push_rx(tx_frame->tag, ...) is called.
Delivers == txFrame # NoFrame /\ ~frameCancelled

\* Mutant of RxAck: g_source_remove(retxmit_timeout_id) is forgotten.
RxAckTimerStays(n) ==
  /\ ~aborted
  /\ answers[n] > 0
  /\ txFrame # NoFrame
  /\ Delivers => txFrame.tag # NoTag
  /\ answers' = [answers EXCEPT ![n] = @ - 1]
  /\ writeWatch' = TRUE
  /\ heap' = heap \ {txFrame.id}
  /\ txFrame' = NoFrame
  /\ UNCHANGED <<txq, allocs, txpos, retxmitTimer, frameCancelled, clientVars,
                 aborted>>

\* An ACK arrives and retires the current frame, whichever frame it answers
\* and however much of the current one is out; it is handed to the frame's
\* client unless the frame was cancelled.
RxAck(n) ==
  /\ ~aborted
  /\ answers[n] > 0
  /\ txFrame # NoFrame
  /\ Delivers => txFrame.tag # NoTag
  /\ answers' = [answers EXCEPT ![n] = @ - 1]
  /\ retxmitTimer' = FALSE
  /\ writeWatch' = TRUE
  /\ heap' = heap \ {txFrame.id}
  /\ txFrame' = NoFrame
  /\ UNCHANGED <<txq, allocs, txpos, frameCancelled, clientVars, aborted>>

\* The same while one of sricd's own ACK frames is half written: its tag is
\* NULL, the assert(c) of client_push_rx fails and the daemon is gone.
RxAckAborts(n) ==
  /\ ~aborted
  /\ answers[n] > 0
  /\ Delivers
  /\ txFrame.tag = NoTag
  /\ answers' = [answers EXCEPT ![n] = @ - 1]
  /\ retxmitTimer' = FALSE
  /\ writeWatch' = TRUE
  /\ aborted' = TRUE
  /\ UNCHANGED <<queueVars, frameVars, clientVars>>

\* A note from a device: an ACK for it is queued ahead of everything.  What
\* device_dispatch_note does with the note touches no state of this module.
RxNote ==
  /\ ~aborted
  /\ TxqPush(0, NoTag, 0, "ack")
  /\ UNCHANGED <<frameVars, retxmitTimer, clientVars, answers, aborted>>

\* The bus loses an answer, or never carried it (external).
Lose(n) ==
  /\ answers[n] > 0
  /\ answers' = [answers EXCEPT ![n] = @ - 1]
  /\ UNCHANGED <<queueVars, frameVars, writeWatch, retxmitTimer, clientVars,
                 aborted>>

-----------------------------------------------------------------------------
(* The client events that reach the transmit side *)

\* ipc_new, client_create: the address may be one a dead client had.
ClientConnect(c) ==
  /\ ~aborted
  /\ ~conn[c]
  /\ session[c] < MaxSessions
  /\ conn' = [conn EXCEPT ![c] = TRUE]
  /\ session' = [session EXCEPT ![c] = @ + 1]
  /\ UNCHANGED <<queueVars, frameVars, writeWatch, retxmitTimer, answers,
                 aborted>>

\* handle_tx, for a device that exists; address 0, which libsric lets through
\* (check_address), always does.
ClientTx(c) ==
  /\ ~aborted
  /\ conn[c]
  /\ \E addr \in Destinations : TxqPush(1, c, session[c], addr)
  /\ UNCHANGED <<frameVars, retxmitTimer, clientVars, answers, aborted>>

\* timeout_callback: the client's poll timed out, its frames are dropped.
ClientTimeout(c) ==
  /\ ~aborted
  /\ conn[c]
  /\ TxqCancel(c)
  /\ UNCHANGED <<txFrame, txpos, writeWatch, retxmitTimer, clientVars,
                 answers, aborted>>

\* ipc_client_death, client_destroy.
ClientDeath(c) ==
  /\ ~aborted
  /\ conn[c]
  /\ TxqCancel(c)
  /\ conn' = [conn EXCEPT ![c] = FALSE]
  /\ UNCHANGED <<txFrame, txpos, writeWatch, retxmitTimer, session, answers,
                 aborted>>

-----------------------------------------------------------------------------

\* Enumeration has just ended with nothing queued and nobody connected.
Init ==
  /\ txq = [i \in 0 .. 1 |-> {}]
  /\ allocs = 0
  /\ heap = {}
  /\ txFrame = NoFrame
  /\ txpos = 0
  /\ writeWatch = FALSE
  /\ retxmitTimer = FALSE
  /\ frameCancelled = FALSE
  /\ conn = [c \in Clients |-> FALSE]
  /\ session = [c \in Clients |-> 0]
  /\ answers = [n \in FrameIds |-> 0]
  /\ aborted = FALSE

RxAnswer ==
  \E n \in FrameIds : RxUnsolicitedAck(n) \/ RxAck(n) \/ RxAckAborts(n)

Next ==
  \/ IfTx
  \/ TxTimeout
  \/ RxAnswer
  \/ RxNote
  \/ \E n \in FrameIds : Lose(n)
  \/ \E c \in Clients : \/ ClientConnect(c)
                        \/ ClientTx(c)
                        \/ ClientTimeout(c)
                        \/ ClientDeath(c)

Spec == Init /\ [][Next]_vars

\* The bus the retransmission timeout is sized for: RETXMIT_TIMEOUT is longer
\* than a round trip, so no answer is on its way when the timer fires.  The
\* other answers of a broadcast may still come after the first on such a bus.
TimelyNext == Next /\ (TxTimeout => \A n \in FrameIds : answers[n] = 0)

TimelySpec == Init /\ [][TimelyNext]_vars

\* What TimelySpec needs for one answer to each transmission: no program sends
\* to address 0.  sric_tx and handle_tx allow it; NeverAborts, CorrespondingRx
\* and WholeFrames are claimed for programs that do not.
NoBroadcasts == "broadcast" \notin Destinations

\* glib keeps dispatching a writable descriptor's watch and an expired timer,
\* and a device that is sent a frame again and again is heard in the end.
Fairness == WF_vars(IfTx) /\ WF_vars(TxTimeout) /\ SF_vars(RxAnswer)

FairSpec == Spec /\ Fairness

-----------------------------------------------------------------------------
(* Properties *)

TypeOK ==
  /\ txq \in [0 .. 1 -> SUBSET Frame]
  /\ allocs \in 0 .. MaxFrames
  /\ heap \subseteq FrameIds
  /\ txFrame \in Frame \cup {NoFrame}
  /\ txpos \in 0 .. TxLen
  /\ writeWatch \in BOOLEAN
  /\ retxmitTimer \in BOOLEAN
  /\ frameCancelled \in BOOLEAN
  /\ conn \in [Clients -> BOOLEAN]
  /\ session \in [Clients -> 0 .. MaxSessions]
  /\ answers \in [FrameIds -> 0 .. MaxCopies]
  /\ aborted \in BOOLEAN

\* No lost wakeup: with the write watch removed (if_tx returned FALSE), either
\* the current frame is out and awaits its answer or nothing at all is queued.
NoLostWakeup ==
  ~writeWatch => Awaiting \/ (txFrame = NoFrame /\ TxqEmpty)

\* The retransmission timer runs exactly while an entirely sent frame awaits
\* its answer: never twice for one frame, never for a frame already retired.
RetransmitTimerArmed == retxmitTimer <=> Awaiting

\* A frame whose answer would be pushed to a client belongs to the client that
\* is alive at that address now, and not to a dead one or a successor of it.
OwnedByLiveClient(f) ==
  f.tag \in Clients => conn[f.tag] /\ f.session = session[f.tag]

NoDanglingTag ==
  /\ \A f \in Queued : OwnedByLiveClient(f)
  /\ Delivers => OwnedByLiveClient(txFrame)

\* No use after free and no double free: a frame is in one queue or in
\* transmission, never in two places, and is allocated as long as it is.
FramesOwnedOnce ==
  /\ \A f \in txq[0], g \in txq[1] : f.id # g.id
  /\ \A f \in Queued : f.id \in heap
  /\ txFrame # NoFrame => /\ txFrame.id \in heap
                          /\ \A f \in Queued : f.id # txFrame.id

\* Every allocated frame is still queued or in transmission: each frame taken
\* from txq_next is freed, as output-queue.h asks.
NoLeak ==
  heap \subseteq {f.id : f \in Queued \cup ({txFrame} \ {NoFrame})}

\* The assertions of client_push_rx hold: no ACK frame of sricd's own, whose
\* tag is NULL, is ever retired by an answer.
NeverAborts == ~aborted

\* A cancelled frame is not put on the wire again: if none of its bytes is out
\* since the timer last fired, none goes out any more (sric-if.h).
CancelledNotRetransmitted ==
  [][frameCancelled /\ txFrame # NoFrame /\ txpos = 0 => txpos' = 0]_vars

\* The answer handed to a client answers the frame that client was waiting on.
CorrespondingRx ==
  [][\A n \in FrameIds :
       answers'[n] < answers[n] /\ Delivers /\ txFrame' = NoFrame
         => n = txFrame.id]_vars

\* A frame leaves the transmitter only with its last byte on the wire, so the
\* bus never sees the head of one frame followed by another.
WholeFrames ==
  [][txFrame # NoFrame /\ txFrame' # txFrame
       => txpos = TxLen \/ txpos' = TxLen]_vars

\* Every frame queued is in the end answered, cancelled or, for an ACK, sent.
Unfinished(n) == \E f \in Queued \cup ({txFrame} \ {NoFrame}) : f.id = n

EveryFrameFinishes ==
  \A n \in FrameIds : Unfinished(n) ~> (~Unfinished(n) \/ aborted)

\* What the service this module implements sees of it: a frame is pending
\* until it leaves the queue and the transmitter, or is cancelled there.
Live == Queued \cup (IF Delivers THEN {txFrame} ELSE {})

Pending == {[id |-> f.id, tag |-> f.tag] : f \in Live}

TxS == INSTANCE TxService WITH pending <- Pending, last <- allocs

\* The transmit side implements TxService: no frame vanishes unanswered but by
\* its owner's withdrawal, none completes twice or out of its turn, and the
\* cancellation of one client's frames touches no other's (output-queue.h).
ServiceSpec == TxS!SSpec
=============================================================================
