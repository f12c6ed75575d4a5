---------------------------- MODULE SricIfProofs ----------------------------
(***************************************************************************)
(* Proofs about SricIf for every value of its constants: an inductive      *)
(* invariant, and the safety invariants that follow from it; what holds on *)
(* a bus whose answers beat the timeout; and that SricIf implements        *)
(* TxService.                                                              *)
(***************************************************************************)
EXTENDS SricIf, TLAPS

-----------------------------------------------------------------------------
(* The inductive invariant.  The properties of SricIf are not inductive as *)
(* they stand: that a retired frame's number is not also the number of a   *)
(* queued one needs numbers to be distinct and not beyond the last         *)
(* allocation, and the FIFO order of completion needs the current frame to *)
(* be older than what is queued in its class.                              *)

Numbered ==
  /\ heap \subseteq 1 .. allocs
  /\ \A f, g \in Queued : f.id = g.id => f = g

\* tx_queue[0] holds sricd's ACKs, tx_queue[1] the clients' requests.
Classified ==
  /\ \A f \in txq[0] : f.tag = NoTag /\ f.addr = "ack"
  /\ \A f \in txq[1] : f.tag \in Clients /\ f.addr \in Destinations

\* Only a frame that wants an answer is ever waited for.
AwaitsResponse == Awaiting => ~NoResponse(txFrame)

Older(f, Q) == \A g \in Q : (f.tag = NoTag <=> g.tag = NoTag) => f.id < g.id

Ordered == Delivers => Older(txFrame, Queued)

IInv == /\ TypeOK
        /\ Numbered
        /\ Classified
        /\ Ordered
        /\ AwaitsResponse
        /\ FramesOwnedOnce
        /\ NoDanglingTag
        /\ NoLostWakeup
        /\ RetransmitTimerArmed

LEMMA InitIInv == Init => IInv
  <1> SUFFICES ASSUME Init PROVE IInv
    OBVIOUS
  <1> USE ConstantsAssumption
  <1>1. TypeOK
    <2>1. txq \in [0 .. 1 -> SUBSET Frame] /\ answers \in [FrameIds -> 0 .. MaxCopies]
      BY DEF Init
    <2>2. conn \in [Clients -> BOOLEAN] /\ session \in [Clients -> 0 .. MaxSessions]
      BY DEF Init
    <2>3. allocs \in 0 .. MaxFrames /\ txpos \in 0 .. TxLen /\ heap = {}
      BY DEF Init
    <2> QED
      BY <2>1, <2>2, <2>3 DEF Init, TypeOK
  <1>2. Queued = {} /\ txFrame = NoFrame
    BY DEF Init, Queued
  <1>3. Numbered /\ Classified /\ Ordered
    BY <1>2 DEF Init, Numbered, Classified, Ordered, Delivers, Queued
  <1>4. FramesOwnedOnce /\ NoDanglingTag
    BY <1>2 DEF Init, FramesOwnedOnce, NoDanglingTag, Delivers, Queued
  <1>5. NoLostWakeup /\ RetransmitTimerArmed /\ AwaitsResponse
    BY <1>2 DEF Init, NoLostWakeup, RetransmitTimerArmed, AwaitsResponse,
                Awaiting, TxqEmpty
  <1> QED
    BY <1>1, <1>3, <1>4, <1>5 DEF IInv

-----------------------------------------------------------------------------
(* What taking and cancelling frames does to the invariant's parts. *)

\* The frame if_tx goes on with, in every case: it is an allocated frame that
\* is no longer queued, and if its answer would be delivered, it belongs to a
\* live client and is older than what stays queued in its class.
LEMMA TakeFrameFacts ==
  ASSUME IInv, NEW f, TakeFrame(f)
  PROVE  /\ f \in Frame
         /\ f.id \in heap
         /\ txq' \in [0 .. 1 -> SUBSET Frame]
         /\ txq'[0] \subseteq txq[0] /\ txq'[1] \subseteq txq[1]
         /\ \A g \in Queued' : g.id # f.id
         /\ frameCancelled' \in BOOLEAN
         /\ ~frameCancelled' => OwnedByLiveClient(f) /\ Older(f, Queued')
         /\ StartPos \in 0 .. TxLen - 1
  <1> USE ConstantsAssumption
  <1>1. CASE /\ txFrame # NoFrame
             /\ f = txFrame
             /\ txpos < TxLen
             /\ UNCHANGED <<txq, frameCancelled>>
    <2>1. Queued' = Queued
      BY <1>1 DEF Queued
    <2>2. f \in Frame /\ f.id \in heap /\ \A g \in Queued' : g.id # f.id
      BY <1>1, <2>1 DEF IInv, TypeOK, FramesOwnedOnce
    <2>3. ~frameCancelled' => OwnedByLiveClient(f) /\ Older(f, Queued')
      BY <1>1, <2>1 DEF IInv, NoDanglingTag, Ordered, Delivers
    <2>4. StartPos \in 0 .. TxLen - 1
      BY <1>1 DEF StartPos, IInv, TypeOK
    <2> QED
      BY <1>1, <2>2, <2>3, <2>4 DEF IInv, TypeOK
  <1>2. CASE /\ txFrame = NoFrame
             /\ TxqNext(f, 1)
             /\ frameCancelled' = FALSE
    <2>1. PICK i \in 0 .. 1 : /\ f \in txq[i]
                              /\ \A g \in txq[i] : f.id <= g.id
                              /\ txq' = [txq EXCEPT ![i] = @ \ {f}]
      BY <1>2 DEF TxqNext
    <2>2. txq \in [0 .. 1 -> SUBSET Frame]
      BY DEF IInv, TypeOK
    <2>3. /\ f \in Queued
          /\ txq' \in [0 .. 1 -> SUBSET Frame]
          /\ txq'[0] \subseteq txq[0] /\ txq'[1] \subseteq txq[1]
          /\ txq'[i] = txq[i] \ {f}
      BY <2>1, <2>2 DEF Queued
    <2>4. txq[0] \cap txq[1] = {}
      BY DEF IInv, FramesOwnedOnce
    <2>5. Queued' = Queued \ {f}
      <3>1. CASE i = 0
        BY <2>1, <2>2, <2>4, <3>1 DEF Queued
      <3>2. CASE i = 1
        BY <2>1, <2>2, <2>4, <3>2 DEF Queued
      <3> QED
        BY <3>1, <3>2
    <2>6. f \in Frame /\ f.id \in heap /\ OwnedByLiveClient(f)
      BY <2>1, <2>2, <2>3 DEF IInv, FramesOwnedOnce, NoDanglingTag
    <2>7. \A g \in Queued' : g.id # f.id
      BY <2>3, <2>5 DEF IInv, Numbered
    <2>8. Older(f, Queued')
      <3> SUFFICES ASSUME NEW g \in Queued', f.tag = NoTag <=> g.tag = NoTag
                   PROVE  f.id < g.id
        BY DEF Older
      <3>1. g \in txq[i]
        <4>1. g \in Queued /\ g \in txq[0] \cup txq[1]
          BY <2>5 DEF Queued
        <4>2. CASE i = 0
          BY <2>1, <4>1, <4>2 DEF IInv, Classified
        <4>3. CASE i = 1
          BY <2>1, <4>1, <4>3 DEF IInv, Classified
        <4> QED
          BY <4>2, <4>3
      <3>2. g.id \in Nat /\ f.id \in Nat
        BY <2>1, <2>2, <3>1 DEF Frame, FrameIds
      <3> QED
        BY <2>1, <2>7, <3>1, <3>2
    <2>9. StartPos \in 0 .. TxLen - 1
      BY <1>2 DEF StartPos
    <2> QED
      BY <1>2, <2>3, <2>6, <2>7, <2>8, <2>9
  <1> QED
    BY <1>1, <1>2 DEF TakeFrame

\* txq_cancel leaves the frames of the other tags, where they were, and marks
\* the current frame if it has the tag.
LEMMA TxqCancelFacts ==
  ASSUME IInv, NEW c \in Clients, TxqCancel(c)
  PROVE  /\ txq' \in [0 .. 1 -> SUBSET Frame]
         /\ txq'[0] \subseteq txq[0] /\ txq'[1] \subseteq txq[1]
         /\ Queued' = {f \in Queued : f.tag # c}
         /\ heap' \subseteq heap
         /\ frameCancelled' \in BOOLEAN
         /\ ~frameCancelled' => /\ ~frameCancelled
                                /\ txFrame # NoFrame => txFrame.tag # c
         /\ \A f \in Queued' : f.id \in heap'
         /\ txFrame # NoFrame => txFrame.id \in heap'
  <1>1. txq \in [0 .. 1 -> SUBSET Frame] /\ frameCancelled \in BOOLEAN
    BY DEF IInv, TypeOK
  <1>2. /\ txq' \in [0 .. 1 -> SUBSET Frame]
        /\ txq'[0] = {f \in txq[0] : f.tag # c}
        /\ txq'[1] = {f \in txq[1] : f.tag # c}
    BY <1>1 DEF TxqCancel
  <1>3. Queued' = {f \in Queued : f.tag # c}
    BY <1>2 DEF Queued
  <1>4. \A f \in Queued' : f.id \in heap'
    BY <1>3 DEF TxqCancel, IInv, FramesOwnedOnce, Numbered
  <1>5. txFrame # NoFrame => txFrame.id \in heap'
    BY DEF TxqCancel, IInv, FramesOwnedOnce
  <1>6. /\ frameCancelled' \in BOOLEAN
        /\ ~frameCancelled' => /\ ~frameCancelled
                               /\ txFrame # NoFrame => txFrame.tag # c
    BY <1>1 DEF TxqCancel
  <1> QED
    BY <1>2, <1>3, <1>4, <1>5, <1>6 DEF TxqCancel

-----------------------------------------------------------------------------
(* Each callback preserves the invariant. *)

LEMMA IfTxIdleIInv == IInv /\ IfTxIdle => IInv'
  <1> SUFFICES ASSUME IInv, IfTxIdle PROVE IInv'
    OBVIOUS
  <1> USE DEF IfTxIdle, queueVars, frameVars, clientVars
  <1>1. Queued' = Queued /\ Delivers' = Delivers /\ Awaiting' = Awaiting
    BY DEF Queued, Delivers, Awaiting
  <1>2. TypeOK' /\ Numbered' /\ Classified' /\ FramesOwnedOnce'
    BY <1>1 DEF IInv, TypeOK, Numbered, Classified, FramesOwnedOnce
  <1>3. Ordered' /\ NoDanglingTag'
    BY <1>1 DEF IInv, Ordered, NoDanglingTag, OwnedByLiveClient, Older
  <1>4. NoLostWakeup' /\ RetransmitTimerArmed' /\ AwaitsResponse'
    BY <1>1 DEF IInv, NoLostWakeup, RetransmitTimerArmed, AwaitsResponse,
                NoResponse, TxqEmpty
  <1> QED
    BY <1>2, <1>3, <1>4 DEF IInv

\* What the queue keeps while if_tx works on a frame.
LEMMA TakeFrameQueue ==
  ASSUME IInv, NEW f, TakeFrame(f), UNCHANGED <<allocs, heap, clientVars>>
  PROVE  /\ Numbered' /\ Classified'
         /\ \A g \in Queued' : g.id \in heap' /\ OwnedByLiveClient(g)'
         /\ \A g \in txq'[0], h \in txq'[1] : g.id # h.id
         /\ f.id \in heap' /\ \A g \in Queued' : g.id # f.id
         /\ ~frameCancelled' => OwnedByLiveClient(f)' /\ Older(f, Queued')
  <1>1. /\ txq'[0] \subseteq txq[0] /\ txq'[1] \subseteq txq[1]
        /\ f.id \in heap /\ \A g \in Queued' : g.id # f.id
        /\ ~frameCancelled' => OwnedByLiveClient(f) /\ Older(f, Queued')
    BY TakeFrameFacts
  <1>2. Queued' \subseteq Queued
    BY <1>1 DEF Queued
  <1>3. \A g : OwnedByLiveClient(g)' <=> OwnedByLiveClient(g)
    BY DEF OwnedByLiveClient, clientVars
  <1>4. Numbered' /\ Classified'
    BY <1>1, <1>2 DEF IInv, Numbered, Classified
  <1>5. \A g \in Queued' : g.id \in heap' /\ OwnedByLiveClient(g)'
    BY <1>2, <1>3 DEF IInv, FramesOwnedOnce, NoDanglingTag
  <1>6. \A g \in txq'[0], h \in txq'[1] : g.id # h.id
    BY <1>1 DEF IInv, FramesOwnedOnce
  <1> QED
    BY <1>1, <1>3, <1>4, <1>5, <1>6

LEMMA IfTxPartialIInv ==
  ASSUME IInv, NEW f, NEW w \in 1 .. TxLen, IfTxPartial(f, w)
  PROVE  IInv'
  <1> USE ConstantsAssumption
  <1> USE DEF IfTxPartial, clientVars
  <1>1. /\ f \in Frame /\ f # NoFrame
        /\ txq' \in [0 .. 1 -> SUBSET Frame]
        /\ frameCancelled' \in BOOLEAN
        /\ StartPos \in 0 .. TxLen - 1
    BY TakeFrameFacts
  <1>2. /\ Numbered' /\ Classified'
        /\ \A g \in Queued' : g.id \in heap' /\ OwnedByLiveClient(g)'
        /\ \A g \in txq'[0], h \in txq'[1] : g.id # h.id
        /\ f.id \in heap' /\ \A g \in Queued' : g.id # f.id
        /\ ~frameCancelled' => OwnedByLiveClient(f)' /\ Older(f, Queued')
    BY TakeFrameQueue
  <1>3. txpos' \in 0 .. TxLen /\ txpos' < TxLen
    BY <1>1
  <1>4. TypeOK'
    BY <1>1, <1>3 DEF IInv, TypeOK
  <1>5. Ordered' /\ NoDanglingTag' /\ FramesOwnedOnce'
    BY <1>2 DEF Ordered, NoDanglingTag, FramesOwnedOnce, Delivers,
                OwnedByLiveClient, Older
  <1>6. NoLostWakeup'
    BY DEF NoLostWakeup
  <1>7. RetransmitTimerArmed' /\ AwaitsResponse'
    <2>1. ~Awaiting'
      BY <1>3 DEF Awaiting
    <2>2. ~Awaiting
      BY DEF Awaiting, TakeFrame
    <2> QED
      BY <2>1, <2>2 DEF IInv, RetransmitTimerArmed, AwaitsResponse
  <1> QED
    BY <1>2, <1>4, <1>5, <1>6, <1>7 DEF IInv

LEMMA IfTxNoResponseIInv ==
  ASSUME IInv, NEW f, IfTxNoResponse(f)
  PROVE  IInv'
  <1> USE ConstantsAssumption
  <1> USE DEF IfTxNoResponse, clientVars
  <1>1. /\ txq' \in [0 .. 1 -> SUBSET Frame]
        /\ frameCancelled' \in BOOLEAN
    BY TakeFrameFacts
  <1>2. /\ Numbered' /\ Classified'
        /\ \A g \in Queued' : g.id \in heap' /\ OwnedByLiveClient(g)'
        /\ \A g \in txq'[0], h \in txq'[1] : g.id # h.id
    BY TakeFrameQueue
  <1>3. TypeOK'
    BY <1>1 DEF IInv, TypeOK
  <1>4. Ordered' /\ NoDanglingTag' /\ FramesOwnedOnce'
    BY <1>2 DEF Ordered, NoDanglingTag, FramesOwnedOnce, Delivers,
                OwnedByLiveClient
  <1>5. NoLostWakeup'
    BY DEF NoLostWakeup
  <1>6. RetransmitTimerArmed' /\ AwaitsResponse'
    BY DEF IInv, RetransmitTimerArmed, AwaitsResponse, Awaiting, TakeFrame
  <1> QED
    BY <1>2, <1>3, <1>4, <1>5, <1>6 DEF IInv

LEMMA IfTxSentIInv ==
  ASSUME IInv, NEW f, IfTxSent(f)
  PROVE  IInv'
  <1> USE ConstantsAssumption
  <1> USE DEF IfTxSent, clientVars
  <1>1. /\ f \in Frame /\ f # NoFrame
        /\ txq' \in [0 .. 1 -> SUBSET Frame]
        /\ frameCancelled' \in BOOLEAN
    BY TakeFrameFacts
  <1>2. /\ Numbered' /\ Classified'
        /\ \A g \in Queued' : g.id \in heap' /\ OwnedByLiveClient(g)'
        /\ \A g \in txq'[0], h \in txq'[1] : g.id # h.id
        /\ f.id \in heap' /\ \A g \in Queued' : g.id # f.id
        /\ ~frameCancelled' => OwnedByLiveClient(f)' /\ Older(f, Queued')
    BY TakeFrameQueue
  <1>3. answers' \in [FrameIds -> 0 .. MaxCopies]
    <2>1. f.id \in FrameIds
      BY <1>1 DEF Frame
    <2>2. answers \in [FrameIds -> 0 .. MaxCopies]
      BY DEF IInv, TypeOK
    <2>3. UpToMaxCopies(answers[f.id] + AnswersTo(f)) \in 0 .. MaxCopies
      BY <2>1, <2>2 DEF UpToMaxCopies, AnswersTo
    <2> QED
      BY <2>1, <2>2, <2>3
  <1>4. TypeOK'
    <2>1. /\ txFrame' = f /\ txpos' = TxLen /\ txpos' \in 0 .. TxLen
          /\ retxmitTimer' = TRUE /\ writeWatch' = FALSE
          /\ UNCHANGED <<allocs, heap, conn, session, aborted>>
      OBVIOUS
    <2> HIDE DEF IfTxSent
    <2> QED
      BY <1>1, <1>3, <2>1 DEF IInv, TypeOK
  <1>5. Ordered' /\ NoDanglingTag' /\ FramesOwnedOnce'
    BY <1>2 DEF Ordered, NoDanglingTag, FramesOwnedOnce, Delivers,
                OwnedByLiveClient, Older
  <1>6. NoLostWakeup' /\ RetransmitTimerArmed' /\ AwaitsResponse'
    BY <1>1 DEF NoLostWakeup, RetransmitTimerArmed, AwaitsResponse, Awaiting,
                NoResponse
  <1> QED
    BY <1>2, <1>4, <1>5, <1>6 DEF IInv

LEMMA TxTimeoutIInv == IInv /\ TxTimeout => IInv'
  <1> SUFFICES ASSUME IInv, TxTimeout PROVE IInv'
    OBVIOUS
  <1> USE ConstantsAssumption
  <1> USE DEF TxTimeout, clientVars
  <1>1. txFrame \in Frame /\ txFrame # NoFrame
    BY DEF IInv, TypeOK, RetransmitTimerArmed, Awaiting
  <1>2. Queued' = Queued /\ \A g : OwnedByLiveClient(g)' <=> OwnedByLiveClient(g)
    BY DEF Queued, OwnedByLiveClient
  <1>3. TypeOK'
    <2>1. txFrame' \in Frame \cup {NoFrame} /\ heap' \subseteq FrameIds
      BY <1>1 DEF IInv, TypeOK
    <2>2. /\ txpos' \in 0 .. TxLen
          /\ retxmitTimer' = FALSE /\ writeWatch' = TRUE
          /\ UNCHANGED <<txq, allocs, frameCancelled, conn, session, answers,
                         aborted>>
      OBVIOUS
    <2> HIDE DEF TxTimeout
    <2> QED
      BY <2>1, <2>2 DEF IInv, TypeOK
  <1>4. Numbered' /\ Classified'
    BY <1>2 DEF IInv, Numbered, Classified
  <1>5. FramesOwnedOnce'
    BY <1>1, <1>2 DEF IInv, FramesOwnedOnce
  <1>6. NoDanglingTag' /\ Ordered'
    BY <1>2 DEF IInv, NoDanglingTag, Ordered, Delivers, Older
  <1>7. NoLostWakeup' /\ RetransmitTimerArmed' /\ AwaitsResponse'
    BY ConstantsAssumption
       DEF NoLostWakeup, RetransmitTimerArmed, AwaitsResponse, Awaiting
  <1> QED
    BY <1>3, <1>4, <1>5, <1>6, <1>7 DEF IInv

\* An answer is consumed: the counters stay counters.
LEMMA AnswerConsumed ==
  ASSUME TypeOK, NEW n \in FrameIds, answers[n] > 0,
         answers' = [answers EXCEPT ![n] = @ - 1]
  PROVE  answers' \in [FrameIds -> 0 .. MaxCopies]
  BY ConstantsAssumption DEF TypeOK

\* An answer that meets no current frame, and one the bus loses, change
\* nothing else.
LEMMA OnlyAnswersIInv ==
  ASSUME IInv, NEW n \in FrameIds, answers[n] > 0,
         answers' = [answers EXCEPT ![n] = @ - 1],
         UNCHANGED <<queueVars, frameVars, writeWatch, retxmitTimer,
                     clientVars, aborted>>
  PROVE  IInv'
  <1> USE DEF queueVars, frameVars, clientVars
  <1>1. Queued' = Queued /\ Delivers' = Delivers /\ Awaiting' = Awaiting
    BY DEF Queued, Delivers, Awaiting
  <1>2. answers' \in [FrameIds -> 0 .. MaxCopies]
    BY AnswerConsumed DEF IInv
  <1>3. TypeOK' /\ Numbered' /\ Classified' /\ FramesOwnedOnce'
    BY <1>1, <1>2 DEF IInv, TypeOK, Numbered, Classified, FramesOwnedOnce
  <1>4. Ordered' /\ NoDanglingTag'
    BY <1>1 DEF IInv, Ordered, NoDanglingTag, OwnedByLiveClient, Older
  <1>5. NoLostWakeup' /\ RetransmitTimerArmed' /\ AwaitsResponse'
    BY <1>1 DEF IInv, NoLostWakeup, RetransmitTimerArmed, AwaitsResponse,
                NoResponse, TxqEmpty
  <1> QED
    BY <1>3, <1>4, <1>5 DEF IInv

LEMMA RxAckIInv ==
  ASSUME IInv, NEW n \in FrameIds, RxAck(n)
  PROVE  IInv'
  <1> USE DEF RxAck, clientVars
  <1>1. Queued' = Queued /\ \A g : OwnedByLiveClient(g)' <=> OwnedByLiveClient(g)
    BY DEF Queued, OwnedByLiveClient
  <1>2. answers' \in [FrameIds -> 0 .. MaxCopies]
    BY AnswerConsumed DEF IInv
  <1>3. TypeOK'
    BY <1>2 DEF IInv, TypeOK
  <1>4. Numbered' /\ Classified' /\ FramesOwnedOnce'
    BY <1>1 DEF IInv, Numbered, Classified, FramesOwnedOnce
  <1>5. Ordered' /\ NoDanglingTag'
    BY <1>1 DEF IInv, Ordered, NoDanglingTag, Delivers
  <1>6. NoLostWakeup' /\ RetransmitTimerArmed' /\ AwaitsResponse'
    BY ConstantsAssumption
       DEF NoLostWakeup, RetransmitTimerArmed, AwaitsResponse, Awaiting
  <1> QED
    BY <1>3, <1>4, <1>5, <1>6 DEF IInv

LEMMA RxAckAbortsIInv ==
  ASSUME IInv, NEW n \in FrameIds, RxAckAborts(n)
  PROVE  IInv'
  <1> USE DEF RxAckAborts, queueVars, frameVars, clientVars
  <1>1. Queued' = Queued /\ Delivers' = Delivers /\ Awaiting' = Awaiting
    BY DEF Queued, Delivers, Awaiting
  <1>2. answers' \in [FrameIds -> 0 .. MaxCopies]
    BY AnswerConsumed DEF IInv
  <1>3. TypeOK' /\ Numbered' /\ Classified' /\ FramesOwnedOnce'
    BY <1>1, <1>2 DEF IInv, TypeOK, Numbered, Classified, FramesOwnedOnce
  <1>4. Ordered' /\ NoDanglingTag'
    BY <1>1 DEF IInv, Ordered, NoDanglingTag, OwnedByLiveClient, Older
  <1>5. ~Awaiting
    BY DEF IInv, AwaitsResponse, NoResponse
  <1>6. NoLostWakeup' /\ RetransmitTimerArmed' /\ AwaitsResponse'
    BY <1>1, <1>5 DEF NoLostWakeup, RetransmitTimerArmed, AwaitsResponse
  <1> QED
    BY <1>3, <1>4, <1>6 DEF IInv

\* txq_push adds one frame, with a number no other frame has had: an ACK of
\* sricd's own into queue 0, or a live client's request into queue 1.
LEMMA TxqPushIInv ==
  ASSUME IInv, NEW pri \in 0 .. 1, NEW tag \in Clients \cup {NoTag},
         NEW sess \in 0 .. MaxSessions, NEW addr \in Destinations \cup {"ack"},
         TxqPush(pri, tag, sess, addr),
         pri = 0 => tag = NoTag /\ addr = "ack",
         pri = 1 => /\ tag \in Clients /\ addr \in Destinations
                    /\ conn[tag] /\ sess = session[tag],
         UNCHANGED <<frameVars, retxmitTimer, clientVars, answers, aborted>>
  PROVE  IInv'
  <1>1. PICK new \in Frame :
           /\ new.tag = tag /\ new.session = sess /\ new.addr = addr
           /\ txq' \in [0 .. 1 -> SUBSET Frame]
           /\ txq'[pri] = txq[pri] \cup {new}
           /\ txq'[1 - pri] = txq[1 - pri]
           /\ Queued' = Queued \cup {new}
           /\ \A f \in Queued : f.id < new.id
           /\ txFrame # NoFrame => txFrame.id < new.id
           /\ heap' = heap \cup {new.id} /\ heap' \subseteq 1 .. allocs'
           /\ allocs' = allocs + 1 /\ allocs' \in 0 .. MaxFrames
           /\ writeWatch' = TRUE
    <2> DEFINE new == [id |-> allocs + 1, tag |-> tag, session |-> sess,
                       addr |-> addr]
    <2> USE ConstantsAssumption
    <2>1. /\ txq \in [0 .. 1 -> SUBSET Frame]
          /\ allocs \in 0 .. MaxFrames /\ allocs < MaxFrames
          /\ heap \subseteq 1 .. allocs
      BY DEF IInv, TypeOK, TxqPush, Numbered
    <2>2. /\ new \in Frame /\ new.id = allocs + 1
          /\ new.tag = tag /\ new.session = sess /\ new.addr = addr
      BY <2>1 DEF Frame, FrameIds
    <2>3. txq' = [txq EXCEPT ![pri] = @ \cup {new}]
      BY DEF TxqPush
    <2> HIDE DEF new
    <2>4. /\ txq' \in [0 .. 1 -> SUBSET Frame]
          /\ txq'[pri] = txq[pri] \cup {new}
          /\ txq'[1 - pri] = txq[1 - pri]
      BY <2>1, <2>2, <2>3
    <2>5. Queued' = Queued \cup {new}
      BY <2>4 DEF Queued
    <2>6. \A n \in heap : n < new.id
      BY <2>1, <2>2
    <2>7. /\ \A f \in Queued : f.id < new.id
          /\ txFrame # NoFrame => txFrame.id < new.id
      BY <2>6 DEF IInv, FramesOwnedOnce
    <2>8. /\ heap' = heap \cup {new.id} /\ heap' \subseteq 1 .. allocs'
          /\ allocs' = allocs + 1 /\ allocs' \in 0 .. MaxFrames
          /\ writeWatch' = TRUE
      BY <2>1, <2>2 DEF TxqPush
    <2> QED
      BY <2>2, <2>4, <2>5, <2>7, <2>8
  <1>2. /\ pri = 0 => new.tag = NoTag /\ new.addr = "ack"
        /\ pri = 1 => new.tag \in Clients /\ new.addr \in Destinations
    BY <1>1
  <1>3. /\ UNCHANGED <<txFrame, txpos, frameCancelled, retxmitTimer, conn,
                       session, answers, aborted>>
        /\ Delivers' = Delivers /\ Awaiting' = Awaiting
        /\ \A g : OwnedByLiveClient(g)' <=> OwnedByLiveClient(g)
    BY DEF frameVars, clientVars, Delivers, Awaiting, OwnedByLiveClient
  <1>4. TypeOK'
    BY <1>1, <1>3 DEF IInv, TypeOK, Frame
  <1>5. \A f \in Queued : f.id # new.id
    BY <1>1, <1>2 DEF IInv, TypeOK, Queued, Frame, FrameIds
  <1>6. Numbered'
    BY <1>1, <1>5 DEF IInv, Numbered
  <1>7. Classified'
    <2>1. CASE pri = 0
      <3>1. txq'[0] = txq[0] \cup {new} /\ txq'[1] = txq[1]
        BY <1>1, <2>1
      <3> QED
        BY <1>2, <2>1, <3>1 DEF IInv, Classified
    <2>2. CASE pri = 1
      <3>1. txq'[1] = txq[1] \cup {new} /\ txq'[0] = txq[0]
        BY <1>1, <2>2
      <3> QED
        BY <1>2, <2>2, <3>1 DEF IInv, Classified
    <2> QED
      BY <2>1, <2>2
  <1>8. FramesOwnedOnce'
    <2>1. \A f \in txq'[0], g \in txq'[1] : f.id # g.id
      <3>1. \A f \in txq[0] \cup txq[1] : f.id # new.id
        BY <1>5 DEF Queued
      <3>2. \A f \in txq[0], g \in txq[1] : f.id # g.id
        BY DEF IInv, FramesOwnedOnce
      <3>3. CASE pri = 0
        BY <1>1, <3>1, <3>2, <3>3
      <3>4. CASE pri = 1
        BY <1>1, <3>1, <3>2, <3>4
      <3> QED
        BY <3>3, <3>4
    <2>2. txFrame # NoFrame => txFrame.id \in Nat /\ txFrame.id # new.id
      BY <1>1, <1>2 DEF IInv, TypeOK, Frame, FrameIds
    <2> QED
      BY <1>1, <1>3, <2>1, <2>2 DEF IInv, FramesOwnedOnce
  <1>9. NoDanglingTag'
    <2>1. OwnedByLiveClient(new)
      BY <1>1, ConstantsAssumption DEF OwnedByLiveClient
    <2> QED
      BY <1>1, <1>3, <2>1 DEF IInv, NoDanglingTag
  <1>10. Ordered'
    BY <1>1, <1>3 DEF IInv, Ordered, Older, Delivers
  <1>11. NoLostWakeup' /\ RetransmitTimerArmed' /\ AwaitsResponse'
    BY <1>1, <1>3 DEF IInv, NoLostWakeup, RetransmitTimerArmed, AwaitsResponse,
                      NoResponse
  <1> QED
    BY <1>4, <1>6, <1>7, <1>8, <1>9, <1>10, <1>11 DEF IInv

\* A poll timeout or a death: the client's frames go, and only for a death the
\* client too.
LEMMA TxqCancelIInv ==
  ASSUME IInv, NEW c \in Clients, TxqCancel(c),
         conn' \in [Clients -> BOOLEAN],
         \A d \in Clients \ {c} : conn'[d] = conn[d],
         UNCHANGED <<txFrame, txpos, writeWatch, retxmitTimer, session, answers,
                     aborted>>
  PROVE  IInv'
  <1>1. /\ txq' \in [0 .. 1 -> SUBSET Frame]
        /\ txq'[0] \subseteq txq[0] /\ txq'[1] \subseteq txq[1]
        /\ Queued' = {f \in Queued : f.tag # c}
        /\ heap' \subseteq heap
        /\ frameCancelled' \in BOOLEAN
        /\ ~frameCancelled' => /\ ~frameCancelled
                               /\ txFrame # NoFrame => txFrame.tag # c
        /\ \A f \in Queued' : f.id \in heap'
        /\ txFrame # NoFrame => txFrame.id \in heap'
    BY TxqCancelFacts
  <1>2. UNCHANGED allocs
    BY DEF TxqCancel
  <1>3. TypeOK'
    BY <1>1, <1>2 DEF IInv, TypeOK
  <1>4. Numbered' /\ Classified'
    BY <1>1, <1>2 DEF IInv, Numbered, Classified
  <1>5. Ordered'
    BY <1>1 DEF IInv, Ordered, Older, Delivers
  <1>6. AwaitsResponse' /\ RetransmitTimerArmed'
    BY DEF IInv, AwaitsResponse, RetransmitTimerArmed, Awaiting, NoResponse
  <1>7. FramesOwnedOnce'
    BY <1>1 DEF IInv, FramesOwnedOnce
  <1>8. NoDanglingTag'
    <2>1. \A f : f.tag # c /\ OwnedByLiveClient(f) => OwnedByLiveClient(f)'
      BY DEF OwnedByLiveClient
    <2>2. \A f \in Queued' : OwnedByLiveClient(f)'
      BY <1>1, <2>1 DEF IInv, NoDanglingTag
    <2>3. Delivers' => OwnedByLiveClient(txFrame)'
      <3> SUFFICES ASSUME Delivers' PROVE OwnedByLiveClient(txFrame)'
        OBVIOUS
      <3>1. Delivers /\ txFrame.tag # c
        BY <1>1 DEF Delivers
      <3> QED
        BY <2>1, <3>1 DEF IInv, NoDanglingTag, OwnedByLiveClient
    <2> QED
      BY <2>2, <2>3 DEF NoDanglingTag
  <1>9. NoLostWakeup'
    BY <1>1 DEF IInv, NoLostWakeup, Awaiting, TxqEmpty
  <1> QED
    BY <1>3, <1>4, <1>5, <1>6, <1>7, <1>8, <1>9 DEF IInv

LEMMA ClientConnectIInv ==
  ASSUME IInv, NEW c \in Clients, ClientConnect(c)
  PROVE  IInv'
  <1> USE DEF ClientConnect, queueVars, frameVars
  <1>1. Queued' = Queued /\ Delivers' = Delivers /\ Awaiting' = Awaiting
    BY DEF Queued, Delivers, Awaiting
  <1>2. conn \in [Clients -> BOOLEAN] /\ session \in [Clients -> 0 .. MaxSessions]
    BY DEF IInv, TypeOK
  <1>3. /\ conn' \in [Clients -> BOOLEAN]
        /\ session' \in [Clients -> 0 .. MaxSessions]
    BY <1>2, ConstantsAssumption
  <1>4. TypeOK' /\ Numbered' /\ Classified' /\ FramesOwnedOnce'
    BY <1>1, <1>3 DEF IInv, TypeOK, Numbered, Classified, FramesOwnedOnce
  <1>5. NoDanglingTag'
    <2>1. \A f : OwnedByLiveClient(f) => OwnedByLiveClient(f)'
      BY <1>2 DEF OwnedByLiveClient
    <2> QED
      BY <1>1, <2>1 DEF IInv, NoDanglingTag, OwnedByLiveClient
  <1>6. Ordered' /\ AwaitsResponse' /\ NoLostWakeup' /\ RetransmitTimerArmed'
    BY <1>1 DEF IInv, Ordered, Older, AwaitsResponse, NoResponse, NoLostWakeup,
                RetransmitTimerArmed, TxqEmpty
  <1> QED
    BY <1>4, <1>5, <1>6 DEF IInv

LEMMA NextIInv == IInv /\ [Next]_vars => IInv'
  <1> SUFFICES ASSUME IInv, [Next]_vars PROVE IInv'
    OBVIOUS
  <1>1. CASE IfTx
    BY <1>1, IfTxIdleIInv, IfTxPartialIInv, IfTxNoResponseIInv, IfTxSentIInv
       DEF IfTx
  <1>2. CASE TxTimeout
    BY <1>2, TxTimeoutIInv
  <1>3. CASE RxAnswer
    <2>1. PICK n \in FrameIds :
            RxUnsolicitedAck(n) \/ RxAck(n) \/ RxAckAborts(n)
      BY <1>3 DEF RxAnswer
    <2>2. CASE RxUnsolicitedAck(n)
      BY <2>2, OnlyAnswersIInv DEF RxUnsolicitedAck
    <2> QED
      BY <2>1, <2>2, RxAckIInv, RxAckAbortsIInv
  <1>4. CASE RxNote
    <2>1. /\ TxqPush(0, NoTag, 0, "ack")
          /\ UNCHANGED <<frameVars, retxmitTimer, clientVars, answers, aborted>>
          /\ 0 \in 0 .. MaxSessions
      BY <1>4, ConstantsAssumption DEF RxNote
    <2> QED
      BY <2>1, TxqPushIInv
  <1>5. ASSUME NEW n \in FrameIds, Lose(n) PROVE IInv'
    BY <1>5, OnlyAnswersIInv DEF Lose
  <1>6. ASSUME NEW c \in Clients, ClientConnect(c) PROVE IInv'
    BY <1>6, ClientConnectIInv
  <1>7. ASSUME NEW c \in Clients, ClientTx(c) PROVE IInv'
    <2>1. /\ \E addr \in Destinations : TxqPush(1, c, session[c], addr)
          /\ conn[c]
          /\ UNCHANGED <<frameVars, retxmitTimer, clientVars, answers, aborted>>
          /\ session[c] \in 0 .. MaxSessions
      BY <1>7 DEF ClientTx, IInv, TypeOK
    <2> QED
      BY <2>1, TxqPushIInv
  <1>8. ASSUME NEW c \in Clients, ClientTimeout(c) PROVE IInv'
    <2>1. conn' = conn /\ conn \in [Clients -> BOOLEAN]
      BY <1>8 DEF ClientTimeout, clientVars, IInv, TypeOK
    <2> QED
      BY <1>8, <2>1, TxqCancelIInv DEF ClientTimeout, clientVars
  <1>9. ASSUME NEW c \in Clients, ClientDeath(c) PROVE IInv'
    <2>1. /\ conn' \in [Clients -> BOOLEAN]
          /\ \A d \in Clients \ {c} : conn'[d] = conn[d]
      BY <1>9 DEF ClientDeath, IInv, TypeOK
    <2> QED
      BY <1>9, <2>1, TxqCancelIInv DEF ClientDeath
  <1>10. CASE UNCHANGED vars
    <2> USE <1>10 DEF vars
    <2>1. Queued' = Queued /\ Delivers' = Delivers /\ Awaiting' = Awaiting
      BY DEF Queued, Delivers, Awaiting
    <2>2. TypeOK' /\ Numbered' /\ Classified' /\ FramesOwnedOnce'
      BY <2>1 DEF IInv, TypeOK, Numbered, Classified, FramesOwnedOnce
    <2>3. Ordered' /\ AwaitsResponse' /\ NoDanglingTag'
      BY <2>1 DEF IInv, Ordered, Older, AwaitsResponse, NoResponse,
                  NoDanglingTag, OwnedByLiveClient
    <2>4. NoLostWakeup' /\ RetransmitTimerArmed'
      BY <2>1 DEF IInv, NoLostWakeup, RetransmitTimerArmed, TxqEmpty
    <2> QED
      BY <2>2, <2>3, <2>4 DEF IInv
  <1> QED
    BY <1>1, <1>2, <1>3, <1>4, <1>5, <1>6, <1>7, <1>8, <1>9, <1>10 DEF Next

\* The invariant holds in every state sricd reaches.
THEOREM Invariant == Spec => []IInv
  BY InitIInv, NextIInv, PTL DEF Spec

\* Type correctness of the transmit side.
THEOREM TypeCorrect == Spec => []TypeOK
  <1>1. IInv => TypeOK
    BY DEF IInv
  <1> QED
    BY <1>1, Invariant, PTL

\* if_tx never unregisters itself (returns FALSE) while it has work to do.
THEOREM NoWakeupIsLost == Spec => []NoLostWakeup
  <1>1. IInv => NoLostWakeup
    BY DEF IInv
  <1> QED
    BY <1>1, Invariant, PTL

\* The 50 ms timer is armed exactly while a sent frame awaits its answer.
THEOREM TimerIffAwaiting == Spec => []RetransmitTimerArmed
  <1>1. IInv => RetransmitTimerArmed
    BY DEF IInv
  <1> QED
    BY <1>1, Invariant, PTL

\* No answer is ever pushed to a client that is gone, or to another client
\* that malloc put at its address.
THEOREM OnlyLiveClientsServed == Spec => []NoDanglingTag
  <1>1. IInv => NoDanglingTag
    BY DEF IInv
  <1> QED
    BY <1>1, Invariant, PTL

\* A frame is never in two places and never used after it was freed.
THEOREM FramesNeverAliased == Spec => []FramesOwnedOnce
  <1>1. IInv => FramesOwnedOnce
    BY DEF IInv
  <1> QED
    BY <1>1, Invariant, PTL

-----------------------------------------------------------------------------
(* A timely bus: when RETXMIT_TIMEOUT is longer than a round trip of the   *)
(* bus (TimelySpec) and no program broadcasts (NoBroadcasts), there is     *)
(* never more than one answer on its way, the current frame is entirely    *)
(* out when it is, and so each answer retires the frame it answers.  A     *)
(* broadcast has several answers, and the second retires whatever is       *)
(* current by then, however fast the bus.                                  *)

\* An answer under way is the only one, to the current frame, which is out.
OneAnswer ==
  \A n \in FrameIds : answers[n] > 0 => /\ Awaiting
                                        /\ txFrame.id = n
                                        /\ answers[n] = 1

TInv == IInv /\ (NoBroadcasts => OneAnswer /\ NeverAborts)

LEMMA InitTInv == Init => TInv
  <1> SUFFICES ASSUME Init PROVE TInv
    OBVIOUS
  <1>1. OneAnswer
    BY DEF Init, OneAnswer
  <1>2. NeverAborts
    BY DEF Init, NeverAborts
  <1> QED
    BY <1>1, <1>2, InitIInv DEF TInv

\* Between frames, and while one is being written, no answer is under way.
LEMMA NoAnswerUnlessAwaiting ==
  ASSUME TInv, NoBroadcasts, ~Awaiting
  PROVE  answers = [n \in FrameIds |-> 0]
  <1>1. answers \in [FrameIds -> 0 .. MaxCopies]
    BY DEF TInv, IInv, TypeOK
  <1>2. ASSUME NEW n \in FrameIds PROVE answers[n] = 0
    BY <1>1, ConstantsAssumption DEF TInv, OneAnswer
  <1> QED
    BY <1>1, <1>2

LEMMA NextOneAnswer ==
  ASSUME TInv, NoBroadcasts, [TimelyNext]_vars
  PROVE  OneAnswer' /\ NeverAborts'
  <1> USE ConstantsAssumption
  <1>1. IInv' /\ OneAnswer /\ NeverAborts
    BY NextIInv DEF TInv, TimelyNext
  <1>2. answers \in [FrameIds -> 0 .. MaxCopies]
    BY DEF TInv, IInv, TypeOK
  <1>3. ASSUME UNCHANGED <<txFrame, txpos, answers, aborted>>
        PROVE  OneAnswer' /\ NeverAborts'
    BY <1>1, <1>3 DEF OneAnswer, NeverAborts, Awaiting
  <1>4. ASSUME NEW n \in FrameIds, answers[n] > 0,
               answers' = [answers EXCEPT ![n] = @ - 1], UNCHANGED aborted
        PROVE  OneAnswer' /\ NeverAborts'
    <2>1. ASSUME NEW m \in FrameIds PROVE answers'[m] = 0
      BY <1>1, <1>2, <1>4 DEF OneAnswer
    <2> QED
      BY <1>1, <1>4, <2>1 DEF OneAnswer, NeverAborts
  <1>5. CASE IfTx
    <2>1. CASE IfTxIdle
      BY <1>1, <1>3, <2>1 DEF IfTxIdle, frameVars
    <2>2. ASSUME NEW f, TakeFrame(f)
          PROVE  answers = [n \in FrameIds |-> 0] /\ f \in Frame
      <3>1. ~Awaiting
        BY <2>2 DEF TakeFrame, Awaiting
      <3>2. f \in Frame
        BY <2>2, TakeFrameFacts DEF TInv
      <3> QED
        BY <3>1, <3>2, NoAnswerUnlessAwaiting
    <2>3. ASSUME NEW f, NEW w, IfTxPartial(f, w)
          PROVE  OneAnswer' /\ NeverAborts'
      BY <1>1, <2>2, <2>3 DEF IfTxPartial, OneAnswer, NeverAborts
    <2>4. ASSUME NEW f, IfTxNoResponse(f) PROVE OneAnswer' /\ NeverAborts'
      BY <1>1, <2>2, <2>4 DEF IfTxNoResponse, OneAnswer, NeverAborts
    <2>5. ASSUME NEW f, IfTxSent(f) PROVE OneAnswer' /\ NeverAborts'
      <3>1. /\ answers = [n \in FrameIds |-> 0]
            /\ f \in Frame /\ f.id \in FrameIds /\ f # NoFrame
        BY <2>2, <2>5 DEF IfTxSent, Frame
      <3>2. f.addr # "broadcast"
        BY <3>1 DEF Frame, NoBroadcasts
      <3>3. UpToMaxCopies(0 + AnswersTo(f)) = 1
        BY <3>2 DEF UpToMaxCopies, AnswersTo
      <3>4. answers'[f.id] = 1 /\ \A n \in FrameIds \ {f.id} : answers'[n] = 0
        BY <2>5, <3>1, <3>3 DEF IfTxSent
      <3>5. Awaiting' /\ txFrame' = f
        BY <2>5, <3>1 DEF IfTxSent, Awaiting
      <3> QED
        BY <1>1, <2>5, <3>4, <3>5 DEF IfTxSent, OneAnswer, NeverAborts
    <2> QED
      BY <1>1, <1>5, <2>1, <2>3, <2>4, <2>5 DEF IfTx
  <1>6. CASE TxTimeout
    <2>1. \A n \in FrameIds : answers'[n] = 0
      <3>1. CASE TimelyNext
        BY <1>6, <3>1 DEF TimelyNext, TxTimeout
      <3>2. CASE UNCHANGED vars
        BY <1>6, <3>2 DEF TxTimeout, vars
      <3> QED
        BY <3>1, <3>2
    <2> QED
      BY <1>1, <1>6, <2>1 DEF TxTimeout, TInv, OneAnswer, NeverAborts
  <1>7. ASSUME NEW n \in FrameIds,
               RxUnsolicitedAck(n) \/ RxAck(n) \/ RxAckAborts(n) \/ Lose(n)
        PROVE  OneAnswer' /\ NeverAborts'
    <2>1. ~RxAckAborts(n)
      BY <1>1 DEF RxAckAborts, TInv, OneAnswer, IInv, AwaitsResponse, NoResponse
    <2>2. answers[n] > 0 /\ answers' = [answers EXCEPT ![n] = @ - 1] /\ UNCHANGED aborted
      BY <1>7, <2>1 DEF RxUnsolicitedAck, RxAck, Lose
    <2> QED
      BY <1>4, <2>2
  <1>8. CASE RxNote
    BY <1>1, <1>3, <1>8 DEF RxNote, frameVars
  <1>9. ASSUME NEW c \in Clients,
               ClientConnect(c) \/ ClientTx(c) \/ ClientTimeout(c)
                 \/ ClientDeath(c)
        PROVE  OneAnswer' /\ NeverAborts'
    BY <1>3, <1>9 DEF ClientConnect, ClientTx, ClientTimeout, ClientDeath,
                      frameVars
  <1>10. CASE UNCHANGED vars
    BY <1>1, <1>3, <1>10 DEF vars
  <1> QED
    BY <1>1, <1>5, <1>6, <1>7, <1>8, <1>9, <1>10
       DEF TimelyNext, Next, RxAnswer

LEMMA NextTInv == TInv /\ [TimelyNext]_vars => TInv'
  <1> SUFFICES ASSUME TInv, [TimelyNext]_vars PROVE TInv'
    OBVIOUS
  <1>1. IInv'
    BY NextIInv DEF TInv, TimelyNext
  <1> QED
    BY <1>1, NextOneAnswer DEF TInv, NoBroadcasts

LEMMA TimelyInvariant == TimelySpec => []TInv
  BY InitTInv, NextTInv, PTL DEF TimelySpec

\* On a timely bus without broadcasts, no assertion of client_push_rx fails:
\* an answer never meets one of sricd's own half-written ACKs.
THEOREM TimelyNeverAborts ==
  ASSUME NoBroadcasts
  PROVE  TimelySpec => []NeverAborts
  <1>1. TInv => NeverAborts
    BY DEF TInv
  <1> QED
    BY <1>1, TimelyInvariant, PTL

\* On a timely bus without broadcasts, the answer handed to a client answers
\* its own frame.
THEOREM TimelyCorrespondingRx ==
  ASSUME NoBroadcasts
  PROVE  TimelySpec => CorrespondingRx
  <1>1. TInv /\ [TimelyNext]_vars
          => [\A n \in FrameIds :
                answers'[n] < answers[n] /\ Delivers /\ txFrame' = NoFrame
                  => n = txFrame.id]_vars
    <2> SUFFICES ASSUME TInv, [TimelyNext]_vars, NEW n \in FrameIds,
                        answers'[n] < answers[n]
                 PROVE  n = txFrame.id
      OBVIOUS
    <2>1. answers[n] \in Nat /\ answers'[n] \in Nat
      BY NextIInv, ConstantsAssumption DEF TInv, TimelyNext, IInv, TypeOK
    <2>2. answers[n] > 0
      BY <2>1
    <2> QED
      BY <2>2 DEF TInv, OneAnswer
  <1> QED
    BY <1>1, TimelyInvariant, PTL DEF TimelySpec, CorrespondingRx

\* On a timely bus without broadcasts, no frame is cut short on the wire.
THEOREM TimelyWholeFrames ==
  ASSUME NoBroadcasts
  PROVE  TimelySpec => WholeFrames
  <1>1. TInv /\ [TimelyNext]_vars
          => [txFrame # NoFrame /\ txFrame' # txFrame
                => txpos = TxLen \/ txpos' = TxLen]_vars
    <2> SUFFICES ASSUME TInv, TimelyNext,
                        txFrame # NoFrame, txFrame' # txFrame, txpos # TxLen
                 PROVE  txpos' = TxLen
      OBVIOUS
    <2>1. ~Awaiting
      BY DEF Awaiting
    <2>2. answers = [n \in FrameIds |-> 0]
      BY <2>1, NoAnswerUnlessAwaiting
    <2>3. ~TxTimeout
      BY <2>1 DEF TxTimeout, TInv, IInv, RetransmitTimerArmed
    <2>4. IfTx
      BY <2>2, <2>3 DEF TimelyNext, Next, RxAnswer, RxUnsolicitedAck, RxAck,
            RxAckAborts, RxNote, Lose, ClientConnect, ClientTx, ClientTimeout,
            ClientDeath, frameVars
    <2>5. ASSUME NEW f, NEW w, IfTxPartial(f, w) PROVE FALSE
      BY <2>5 DEF IfTxPartial, TakeFrame
    <2> QED
      BY <2>4, <2>5 DEF IfTx, IfTxIdle, IfTxNoResponse, IfTxSent, frameVars
  <1> QED
    BY <1>1, TimelyInvariant, PTL DEF TimelySpec, WholeFrames

-----------------------------------------------------------------------------
(* SricIf implements TxService: Init maps to SInit, and every step of Next *)
(* maps to a Submit, a Complete, a Withdraw or a stutter of the service.   *)

Req(f) == [id |-> f.id, tag |-> f.tag]

ServiceStep == [TxS!SNext]_(TxS!svars)

\* The number tells the live frames apart, and so it tells the requests apart.
LEMMA LiveDistinct ==
  ASSUME IInv, NEW f \in Live, NEW g \in Live, f.id = g.id
  PROVE  f = g
  BY DEF Live, Delivers, IInv, Numbered, FramesOwnedOnce

LEMMA LiveFrames == IInv => Live \subseteq Frame
  BY DEF Live, Delivers, Queued, IInv, TypeOK

\* The live frames do not change: the service stutters.
LEMMA SameLive ==
  ASSUME Live' = Live, allocs' = allocs
  PROVE  ServiceStep
  <1>1. Pending' = Pending
    BY DEF Pending
  <1> QED
    BY <1>1 DEF ServiceStep, TxS!svars

\* The oldest live frame of its class goes: the service completes it.
LEMMA OneCompletes ==
  ASSUME IInv, NEW f \in Live, Live' = Live \ {f}, allocs' = allocs,
         \A g \in Live' : (f.tag = NoTag <=> g.tag = NoTag) => f.id < g.id
  PROVE  ServiceStep
  <1> DEFINE r == Req(f)
  <1>1. r \in Pending /\ r.id = f.id /\ r.tag = f.tag
    BY DEF Pending, Req
  <1>2. Pending' = Pending \ {r}
    <2>1. ASSUME NEW g \in Live, Req(g) = r PROVE g = f
      <3>1. g.id = f.id
        BY <2>1 DEF Req
      <3> QED
        BY <3>1, LiveDistinct
    <2>2. Pending = {Req(g) : g \in Live} /\ Pending' = {Req(g) : g \in Live'}
      BY DEF Pending, Req
    <2> HIDE DEF r
    <2> QED
      BY <2>1, <2>2 DEF r
  <1>3. ASSUME NEW s \in Pending, TxS!SameClass(r, s) PROVE r.id <= s.id
    <2>1. PICK g \in Live : s = Req(g)
      BY DEF Pending, Req
    <2>2. s.id = g.id /\ s.tag = g.tag
      BY <2>1 DEF Req
    <2>3. f.id \in Nat /\ g.id \in Nat
      BY LiveFrames DEF Frame, FrameIds
    <2>4. CASE g = f
      BY <1>1, <2>2, <2>3, <2>4
    <2>5. CASE g # f
      BY <1>1, <1>3, <2>2, <2>3, <2>5 DEF TxS!SameClass
    <2> QED
      BY <2>4, <2>5
  <1>4. TxS!Complete(r)
    BY <1>1, <1>2, <1>3 DEF TxS!Complete
  <1> QED
    BY <1>1, <1>4 DEF ServiceStep, TxS!SNext

\* if_tx takes a frame: it leaves the queue, or was the current one already,
\* and is live unless it was cancelled.
LEMMA TakeFrameLive ==
  ASSUME IInv, NEW f, TakeFrame(f)
  PROVE  /\ Live = Queued' \cup (IF frameCancelled' THEN {} ELSE {f})
         /\ f \notin Queued'
         /\ f \in Frame
  <1>1. /\ f \in Frame
        /\ txq'[0] \subseteq txq[0] /\ txq'[1] \subseteq txq[1]
        /\ \A g \in Queued' : g.id # f.id
    BY TakeFrameFacts
  <1>2. CASE /\ txFrame # NoFrame
             /\ f = txFrame
             /\ UNCHANGED <<txq, frameCancelled>>
    BY <1>1, <1>2 DEF Live, Queued, Delivers
  <1>3. CASE /\ txFrame = NoFrame
             /\ TxqNext(f, 1)
             /\ frameCancelled' = FALSE
    <2>1. PICK i \in 0 .. 1 : f \in txq[i] /\ txq' = [txq EXCEPT ![i] = @ \ {f}]
      BY <1>3 DEF TxqNext
    <2>2. txq \in [0 .. 1 -> SUBSET Frame]
      BY DEF IInv, TypeOK
    <2>3. Queued = Queued' \cup {f}
      <3>1. CASE i = 0
        BY <2>1, <2>2, <3>1 DEF Queued
      <3>2. CASE i = 1
        BY <2>1, <2>2, <3>2 DEF Queued
      <3> QED
        BY <3>1, <3>2
    <2> QED
      BY <1>1, <1>3, <2>3 DEF Live, Delivers
  <1> QED
    BY <1>1, <1>2, <1>3 DEF TakeFrame

\* if_tx makes no frame live.
LEMMA IfTxLive == IInv /\ IfTx => Live' \subseteq Live
  <1> SUFFICES ASSUME IInv, IfTx PROVE Live' \subseteq Live
    OBVIOUS
  <1>1. CASE IfTxIdle
    BY <1>1 DEF IfTxIdle, Live, Queued, Delivers, queueVars, frameVars
  <1>2. ASSUME NEW f, TakeFrame(f), txFrame' \in {f, NoFrame}
        PROVE  Live' \subseteq Live
    BY <1>2, TakeFrameLive DEF Live, Delivers
  <1> QED
    BY <1>1, <1>2 DEF IfTx, IfTxPartial, IfTxNoResponse, IfTxSent

LEMMA IfTxService == IInv /\ IfTx => ServiceStep
  <1> SUFFICES ASSUME IInv, IfTx PROVE ServiceStep
    OBVIOUS
  <1> USE ConstantsAssumption
  <1>1. CASE IfTxIdle
    <2>1. Live' = Live /\ allocs' = allocs
      BY <1>1 DEF IfTxIdle, Live, Queued, Delivers, queueVars, frameVars
    <2> QED
      BY <2>1, SameLive
  <1>2. ASSUME NEW f, TakeFrame(f), txFrame' = f, allocs' = allocs
        PROVE  ServiceStep
    <2>1. Live' = Live
      BY <1>2, TakeFrameLive DEF Live, Delivers
    <2> QED
      BY <1>2, <2>1, SameLive
  <1>3. ASSUME NEW f, IfTxNoResponse(f) PROVE ServiceStep
    <2>1. /\ TakeFrame(f)
          /\ Live' = Queued' /\ allocs' = allocs
      BY <1>3 DEF IfTxNoResponse, Live, Delivers
    <2>2. CASE frameCancelled'
      <3>1. Live' = Live
        BY <2>1, <2>2, TakeFrameLive
      <3> QED
        BY <2>1, <3>1, SameLive
    <2>3. CASE ~frameCancelled'
      <3>1. f \in Live /\ Live' = Live \ {f}
        BY <2>1, <2>3, TakeFrameLive
      <3>2. Older(f, Live')
        BY <2>1, <2>3, TakeFrameFacts
      <3> QED
        BY <2>1, <3>1, <3>2, OneCompletes DEF Older
    <2> QED
      BY <2>2, <2>3
  <1> QED
    BY <1>1, <1>2, <1>3 DEF IfTx, IfTxPartial, IfTxSent

LEMMA TxTimeoutService == IInv /\ TxTimeout => ServiceStep
  <1> SUFFICES ASSUME IInv, TxTimeout PROVE ServiceStep
    OBVIOUS
  <1>1. Live' = Live /\ allocs' = allocs
    BY DEF TxTimeout, Live, Queued, Delivers
  <1> QED
    BY <1>1, SameLive

LEMMA RxAckService ==
  ASSUME IInv, NEW n \in FrameIds, RxAck(n)
  PROVE  ServiceStep
  <1> USE DEF RxAck
  <1>1. Live' = Queued /\ Queued' = Queued /\ allocs' = allocs
    BY DEF Live, Queued, Delivers
  <1>2. CASE Delivers
    <2>1. txFrame \in Live /\ txFrame \notin Queued
      BY <1>2 DEF Live, IInv, FramesOwnedOnce
    <2>2. Live' = Live \ {txFrame}
      BY <1>1, <1>2, <2>1 DEF Live
    <2>3. Older(txFrame, Live')
      BY <1>1, <1>2 DEF IInv, Ordered
    <2> QED
      BY <1>1, <2>1, <2>2, <2>3, OneCompletes DEF Older
  <1>3. CASE ~Delivers
    <2>1. Live' = Live
      BY <1>1, <1>3 DEF Live
    <2> QED
      BY <1>1, <2>1, SameLive
  <1> QED
    BY <1>2, <1>3

\* A frame pushed is one more live frame, and the only one.
LEMMA TxqPushLive ==
  ASSUME IInv, NEW pri \in 0 .. 1, NEW tag, NEW sess, NEW addr,
         TxqPush(pri, tag, sess, addr), UNCHANGED frameVars
  PROVE  Live' = Live \cup {[id |-> allocs + 1, tag |-> tag, session |-> sess,
                            addr |-> addr]}
  <1> DEFINE new == [id |-> allocs + 1, tag |-> tag, session |-> sess,
                     addr |-> addr]
  <1>1. /\ txq \in [0 .. 1 -> SUBSET Frame]
        /\ txq' = [txq EXCEPT ![pri] = @ \cup {new}]
    BY DEF IInv, TypeOK, TxqPush
  <1> HIDE DEF new
  <1>2. Queued' = Queued \cup {new}
    <2>1. CASE pri = 0
      BY <1>1, <2>1 DEF Queued
    <2>2. CASE pri = 1
      BY <1>1, <2>2 DEF Queued
    <2> QED
      BY <2>1, <2>2
  <1>3. Live' = Live \cup {new}
    BY <1>2 DEF Live, Delivers, frameVars
  <1> QED
    BY <1>3 DEF new

LEMMA TxqPushService ==
  ASSUME IInv, NEW pri \in 0 .. 1, NEW tag \in Clients \cup {NoTag}, NEW sess,
         NEW addr, TxqPush(pri, tag, sess, addr), UNCHANGED frameVars
  PROVE  ServiceStep
  <1> DEFINE new == [id |-> allocs + 1, tag |-> tag, session |-> sess,
                     addr |-> addr]
             r == [id |-> allocs + 1, tag |-> tag]
  <1>1. Live' = Live \cup {new} /\ allocs < MaxFrames /\ allocs' = allocs + 1
    BY TxqPushLive DEF TxqPush
  <1>2. Req(new) = r
    BY DEF Req
  <1> HIDE DEF new, r
  <1>3. Pending' = Pending \cup {r}
    <2>1. Pending = {Req(g) : g \in Live} /\ Pending' = {Req(g) : g \in Live'}
      BY DEF Pending, Req
    <2> QED
      BY <1>1, <1>2, <2>1
  <1>4. TxS!Submit(tag)
    BY <1>1, <1>3 DEF TxS!Submit, r
  <1> QED
    BY <1>4 DEF ServiceStep, TxS!SNext

\* Cancelling a client's frames leaves exactly those of the others live.
LEMMA TxqCancelLive ==
  ASSUME IInv, NEW c \in Clients, TxqCancel(c), UNCHANGED txFrame
  PROVE  Live' = {f \in Live : f.tag # c}
  <1>1. Queued' = {f \in Queued : f.tag # c}
    BY TxqCancelFacts
  <1>2. Delivers' <=> Delivers /\ txFrame.tag # c
    BY DEF Delivers, TxqCancel
  <1> QED
    BY <1>1, <1>2 DEF Live

LEMMA TxqCancelService ==
  ASSUME IInv, NEW c \in Clients, TxqCancel(c), UNCHANGED txFrame
  PROVE  ServiceStep
  <1>1. Pending' = {r \in Pending : r.tag # c}
    <2>1. Pending = {Req(g) : g \in Live} /\ Pending' = {Req(g) : g \in Live'}
      BY DEF Pending, Req
    <2>2. \A g : Req(g).tag = g.tag
      BY DEF Req
    <2> QED
      BY TxqCancelLive, <2>1, <2>2
  <1>2. TxS!Withdraw(c)
    BY <1>1 DEF TxS!Withdraw, TxqCancel
  <1> QED
    BY <1>2 DEF ServiceStep, TxS!SNext

LEMMA NextService == IInv /\ [Next]_vars => ServiceStep
  <1> SUFFICES ASSUME IInv, [Next]_vars PROVE ServiceStep
    OBVIOUS
  <1>1. ASSUME UNCHANGED <<txq, allocs, txFrame, frameCancelled>>
        PROVE  ServiceStep
    <2>1. Live' = Live
      BY <1>1 DEF Live, Queued, Delivers
    <2> QED
      BY <1>1, <2>1, SameLive
  <1>2. CASE RxAnswer
    <2>1. PICK n \in FrameIds :
            RxUnsolicitedAck(n) \/ RxAck(n) \/ RxAckAborts(n)
      BY <1>2 DEF RxAnswer
    <2>2. CASE RxUnsolicitedAck(n) \/ RxAckAborts(n)
      BY <1>1, <2>2 DEF RxUnsolicitedAck, RxAckAborts, queueVars, frameVars
    <2> QED
      BY <2>1, <2>2, RxAckService
  <1>3. CASE RxNote
    BY <1>3, TxqPushService DEF RxNote
  <1>4. ASSUME NEW n \in FrameIds, Lose(n) PROVE ServiceStep
    BY <1>1, <1>4 DEF Lose, queueVars, frameVars
  <1>5. ASSUME NEW c \in Clients, ClientConnect(c) PROVE ServiceStep
    BY <1>1, <1>5 DEF ClientConnect, queueVars, frameVars
  <1>6. ASSUME NEW c \in Clients, ClientTx(c) PROVE ServiceStep
    BY <1>6, TxqPushService DEF ClientTx
  <1>7. ASSUME NEW c \in Clients, ClientTimeout(c) \/ ClientDeath(c)
        PROVE  ServiceStep
    BY <1>7, TxqCancelService DEF ClientTimeout, ClientDeath
  <1>8. CASE UNCHANGED vars
    BY <1>1, <1>8 DEF vars
  <1> QED
    BY <1>2, <1>3, <1>4, <1>5, <1>6, <1>7, <1>8, IfTxService, TxTimeoutService
       DEF Next

\* The transmit side of sricd implements the service: a frame submitted is
\* completed once, in its turn, or withdrawn by its own client.
THEOREM ImplementsService == Spec => ServiceSpec
  <1>1. Init => TxS!SInit
    <2> SUFFICES ASSUME Init PROVE TxS!SInit
      OBVIOUS
    <2>1. Live = {} /\ allocs = 0
      BY DEF Init, Live, Queued, Delivers
    <2>2. Pending = {}
      BY <2>1 DEF Pending
    <2> QED
      BY <2>1, <2>2 DEF TxS!SInit
  <1>2. IInv /\ [Next]_vars => [TxS!SNext]_(TxS!svars)
    BY NextService DEF ServiceStep
  <1> QED
    BY <1>1, <1>2, Invariant, PTL DEF Spec, ServiceSpec, TxS!SSpec
=============================================================================
