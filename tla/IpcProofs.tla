------------------------------ MODULE IpcProofs ------------------------------
(***************************************************************************)
(* Proofs about Ipc for every value of its constants.                      *)
(*                                                                         *)
(* The handlers of ipc.c add to SricIf and take nothing away: a behaviour  *)
(* of Ipc is one of SricIf on a timely bus, whose theorems so hold of Ipc. *)
(* Then come the invariants of the polls that hold whatever the programs   *)
(* do; IpcCleanProofs has those that take well-behaved programs.           *)
(***************************************************************************)
EXTENDS Ipc, SricIfProofs

-----------------------------------------------------------------------------
(* Ipc is SricIf with handlers around it *)

\* A timer's client is one of the clients: ClientTimeout is called for it.
TimerOwners == \A t \in timers : t.client \in Clients

LEMMA NextTimerOwners == TimerOwners /\ [IpcNext]_allVars => TimerOwners'
  <1> SUFFICES ASSUME TimerOwners, [IpcNext]_allVars PROVE TimerOwners'
    OBVIOUS
  <1>1. ASSUME timers' \subseteq timers PROVE TimerOwners'
    BY <1>1 DEF TimerOwners
  <1>2. ASSUME NEW n \in FrameIds, IpcRxAck(n) \/ IpcRxAckDropped(n)
        PROVE  timers' \subseteq timers
    BY <1>2 DEF IpcRxAck, IpcRxAckDropped, PushRxQueued, PushRxPing, ipcVars
  <1>3. ASSUME NEW c \in Clients, HandlePollRxTimed(c) PROVE TimerOwners'
    BY <1>3 DEF HandlePollRxTimed, TimerOwners
  <1>4. ASSUME NEW c \in Clients, Handle(c), ~HandlePollRxTimed(c)
        PROVE  timers' \subseteq timers
    BY <1>4 DEF Handle, HandleTx, HandleTxBadAddr, HandlePollRxNow,
                HandlePollRxZero, HandlePollRxForever
  <1>5. ASSUME NEW c \in Clients, \/ IpcNew(c) \/ IpcClientDeath(c)
                                  \/ CallTx(c) \/ CallPoll(c) \/ CallReturns(c)
        PROVE  timers' \subseteq timers
    BY <1>5 DEF IpcNew, IpcClientDeath, CallTx, CallPoll, CallReturns, ipcVars
  <1>6. ASSUME NEW t \in timers, PollTimeout(t) \/ PollTimeoutOfDead(t)
        PROVE  timers' \subseteq timers
    BY <1>6 DEF PollTimeout, PollTimeoutOfDead
  <1> QED
    BY <1>1, <1>2, <1>3, <1>4, <1>5, <1>6
       DEF IpcNext, IpcAnswer, IpcTxTimeout, ipcVars, allVars

\* What a step of Ipc does to the transmit side.
LEMMA IpcStepOfSricIf == TimerOwners /\ [IpcNext]_allVars => [Next]_vars
  <1> SUFFICES ASSUME TimerOwners, IpcNext, ~UNCHANGED vars PROVE Next
    BY DEF allVars
  <1>1. CASE IfTx \/ IpcTxTimeout \/ RxNote \/ \E n \in FrameIds : Lose(n)
    BY <1>1 DEF Next, IpcTxTimeout
  <1>2. ASSUME NEW n \in FrameIds, IpcRxAck(n) \/ IpcRxAckDropped(n) PROVE Next
    BY <1>2 DEF Next, IpcRxAck, IpcRxAckDropped, RxAnswer
  <1>3. ASSUME NEW c \in Clients, IpcNew(c) \/ IpcClientDeath(c) \/ HandleTx(c)
        PROVE  Next
    BY <1>3 DEF Next, IpcNew, IpcClientDeath, HandleTx
  <1>4. ASSUME NEW c \in Clients, CallTx(c) \/ CallPoll(c) \/ CallReturns(c)
        PROVE  UNCHANGED vars
    BY <1>4 DEF CallTx, CallPoll, CallReturns
  <1>5. ASSUME NEW c \in Clients, Handle(c), ~HandleTx(c) PROVE UNCHANGED vars
    BY <1>5 DEF Handle, HandleTxBadAddr, HandlePollRxNow, HandlePollRxZero,
                HandlePollRxForever, HandlePollRxTimed
  <1>6. ASSUME NEW t \in timers, PollTimeout(t) PROVE Next
    BY <1>6 DEF PollTimeout, Next, TimerOwners
  <1>7. ASSUME NEW t \in timers, PollTimeoutOfDead(t) PROVE UNCHANGED vars
    BY <1>7 DEF PollTimeoutOfDead
  <1> QED
    BY <1>1, <1>2, <1>3, <1>4, <1>5, <1>6, <1>7 DEF IpcNext, IpcAnswer

LEMMA IpcImplementsSpec == IpcSpec => Spec /\ []TimerOwners
  <1>1. IpcInit => Init /\ TimerOwners
    BY DEF IpcInit, TimerOwners
  <1> QED
    BY <1>1, NextTimerOwners, IpcStepOfSricIf, PTL DEF IpcSpec, Spec

\* No step but IpcTxTimeout lets the retransmission timer fire.
LEMMA TimerFiresAlone ==
  ASSUME IInv, TimerOwners, IpcNext, TxTimeout
  PROVE  \A n \in FrameIds : answers[n] = 0
  <1> USE ConstantsAssumption
  <1>1. /\ retxmitTimer /\ ~retxmitTimer' /\ answers' = answers
        /\ Awaiting /\ txFrame \in Frame /\ session' = session
        /\ conn' = conn /\ allocs' = allocs /\ txpos' = 0
    BY DEF TxTimeout, clientVars, IInv, RetransmitTimerArmed, TypeOK, Awaiting
  <1>2. answers \in [FrameIds -> 0 .. MaxCopies]
    BY DEF IInv, TypeOK
  <1>3. ASSUME NEW n \in FrameIds, answers[n] > 0,
               answers' = [answers EXCEPT ![n] = @ - 1]
        PROVE  FALSE
    BY <1>1, <1>2, <1>3
  <1>4. ~IfTx
    <2>1. txpos = TxLen /\ txFrame # NoFrame
      BY <1>1 DEF Awaiting
    <2>2. ASSUME NEW f, TakeFrame(f) PROVE FALSE
      BY <2>1, <2>2 DEF TakeFrame
    <2>3. ~IfTxIdle
      BY <1>1 DEF IfTxIdle
    <2> QED
      BY <2>2, <2>3 DEF IfTx, IfTxPartial, IfTxNoResponse, IfTxSent
  <1>5. ASSUME NEW n \in FrameIds,
               IpcRxAck(n) \/ IpcRxAckDropped(n) \/ Lose(n)
        PROVE  FALSE
    BY <1>3, <1>5 DEF IpcRxAck, IpcRxAckDropped, RxAck, RxUnsolicitedAck,
                      RxAckAborts, Lose
  <1>6. ASSUME UNCHANGED retxmitTimer PROVE FALSE
    BY <1>1, <1>6
  <1>7. ASSUME NEW c \in Clients, \/ IpcNew(c) \/ IpcClientDeath(c) \/ Handle(c)
                                  \/ CallTx(c) \/ CallPoll(c) \/ CallReturns(c)
        PROVE  UNCHANGED retxmitTimer
    BY <1>7 DEF IpcNew, ClientConnect, IpcClientDeath, ClientDeath, CallTx,
                CallPoll, CallReturns, Handle, HandleTx, ClientTx,
                HandleTxBadAddr, HandlePollRxNow, HandlePollRxZero,
                HandlePollRxForever, HandlePollRxTimed, vars
  <1>8. ASSUME NEW t \in timers, PollTimeout(t) \/ PollTimeoutOfDead(t)
        PROVE  UNCHANGED retxmitTimer
    BY <1>8 DEF PollTimeout, ClientTimeout, PollTimeoutOfDead, vars
  <1>9. ~RxNote
    BY <1>6 DEF RxNote
  <1> QED
    BY <1>4, <1>5, <1>6, <1>7, <1>8, <1>9 DEF IpcNext, IpcAnswer, IpcTxTimeout

\* Ipc never does to the transmit side what SricIf on a timely bus does not:
\* the handlers, queues and timers of ipc.c and client.c stand between the
\* programs and sric-if.c without adding a behaviour of their own to it.
THEOREM ImplementsTimely == IpcSpec => TimelySpec
  <1>1. IInv /\ TimerOwners /\ [IpcNext]_allVars => [TimelyNext]_vars
    <2> SUFFICES ASSUME IInv, TimerOwners, IpcNext, Next
                 PROVE  TxTimeout => \A n \in FrameIds : answers[n] = 0
      BY IpcStepOfSricIf DEF TimelyNext, allVars
    <2> QED
      BY TimerFiresAlone
  <1>2. IpcInit => Init
    BY DEF IpcInit
  <1> QED
    BY <1>1, <1>2, IpcImplementsSpec, Invariant, PTL DEF IpcSpec, TimelySpec

\* In Ipc, without broadcasts, no assertion of client_push_rx fails.
THEOREM IpcNeverAborts ==
  ASSUME NoBroadcasts
  PROVE  IpcSpec => []NeverAborts
  BY ImplementsTimely, TimelyNeverAborts, PTL

\* In Ipc, without broadcasts, the answer handed to a client answers its own
\* frame.
THEOREM IpcCorrespondingRx ==
  ASSUME NoBroadcasts
  PROVE  IpcSpec => CorrespondingRx
  BY ImplementsTimely, TimelyCorrespondingRx, PTL

\* In Ipc, without broadcasts, no frame is cut short on the wire.
THEOREM IpcWholeFrames ==
  ASSUME NoBroadcasts
  PROVE  IpcSpec => WholeFrames
  BY ImplementsTimely, TimelyWholeFrames, PTL

-----------------------------------------------------------------------------
(* The polls.  TimerIdsValid is not inductive by itself: a callback that   *)
(* fires for a dead client removes a source, and only because              *)
(* client_destroy forgot rx_timer with the rest does no live client lose   *)
(* its own.                                                                *)

\* client_destroy leaves neither a ping nor a timer's number behind.
DeadForgotten ==
  \A c \in Clients : ~conn[c] => rxTimer[c] = 0 /\ ~rxPing[c]

\* A live client is at least the first its address had.
LiveCounted == \A c \in Clients : conn[c] => session[c] > 0

CallTypeOK ==
  /\ call \in [Clients -> {"idle", "tx", "sent", "poll", "failed", "lost"}]
  /\ cmd \in [Clients -> {"none", "tx", "poll"}]
  /\ asked \in [Clients -> 0 .. MaxFrames]

PollTypeOK ==
  /\ socket \in [Clients -> Seq(Reply)]
  /\ rxq \in [Clients -> Seq(FrameIds)]
  /\ rxPing \in [Clients -> BOOLEAN]
  /\ rxTimer \in [Clients -> 0 .. MaxTimers]
  /\ timers \subseteq Timer

Polls == NoAnswerOverlooked /\ TimerIdsValid /\ DeadForgotten

IpcInv == LiveCounted /\ CallTypeOK /\ PollTypeOK /\ Polls

LEMMA InitIpcInv == IpcInit => IpcInv
  <1> SUFFICES ASSUME IpcInit PROVE IpcInv
    OBVIOUS
  <1>1. LiveCounted /\ CallTypeOK
    BY ConstantsAssumption DEF IpcInit, Init, LiveCounted, CallTypeOK
  <1>2. PollTypeOK
    BY IpcAssumption DEF IpcInit, PollTypeOK
  <1>3. Polls
    BY DEF IpcInit, Polls, NoAnswerOverlooked, TimerIdsValid, DeadForgotten
  <1> QED
    BY <1>1, <1>2, <1>3 DEF IpcInv

\* Steps that touch no poll.
LEMMA PollsUntouched ==
  ASSUME IpcInv, UNCHANGED <<clientVars, socket, rxq, rxPing, rxTimer, timers>>
  PROVE  LiveCounted' /\ PollTypeOK' /\ Polls'
  <1>1. LiveCounted' /\ PollTypeOK'
    BY DEF IpcInv, LiveCounted, PollTypeOK, clientVars
  <1>2. Polls'
    BY DEF IpcInv, Polls, NoAnswerOverlooked, TimerIdsValid, DeadForgotten,
           TimersOf, clientVars
  <1> QED
    BY <1>1, <1>2

\* The client an ACK's answer is handed to.
LEMMA AnswersAClient ==
  ASSUME IInv, NEW n \in FrameIds, Delivers, RxAck(n)
  PROVE  txFrame.tag \in Clients /\ conn[txFrame.tag]
  <1>1. txFrame \in Frame /\ txFrame.tag # NoTag
    BY DEF IInv, TypeOK, Delivers, RxAck
  <1>2. txFrame.tag \in Clients
    BY <1>1 DEF Frame
  <1> QED
    BY <1>2 DEF IInv, NoDanglingTag, OwnedByLiveClient

\* client_push_rx, for an answer to a client there is.
LEMMA PushRxIpcInv ==
  ASSUME IpcInv, NEW c \in Clients, NEW n \in FrameIds,
         UNCHANGED <<clientVars, call, cmd, asked>>,
         PushRxQueued(c, n) \/ PushRxPing(c, n)
  PROVE  IpcInv'
  <1>1. LiveCounted' /\ CallTypeOK'
    BY DEF IpcInv, LiveCounted, CallTypeOK, clientVars
  <1>2. CASE PushRxQueued(c, n)
    <2>1. PollTypeOK'
      BY <1>2 DEF PushRxQueued, IpcInv, PollTypeOK
    <2>2. Polls'
      BY <1>2 DEF PushRxQueued, IpcInv, PollTypeOK, Polls, NoAnswerOverlooked,
                  TimerIdsValid, DeadForgotten, TimersOf, clientVars
    <2> QED
      BY <1>1, <2>1, <2>2 DEF IpcInv
  <1>3. CASE PushRxPing(c, n)
    <2>1. rxq[c] = <<>>
      BY <1>3 DEF PushRxPing, IpcInv, Polls, NoAnswerOverlooked
    <2>2. Append(rxq[c], n) = <<n>>
      BY <2>1
    <2>3. Head(<<n>>) = n /\ Tail(<<n>>) = <<>> /\ Rx(n) \in Reply
      BY DEF Rx, Reply
    <2>4. /\ socket' = [socket EXCEPT ![c] = Append(@, Rx(n))]
          /\ rxq' = [rxq EXCEPT ![c] = <<>>]
      BY <1>3, <2>2, <2>3 DEF PushRxPing, WriteReply
    <2>5. PollTypeOK'
      <3>1. socket' \in [Clients -> Seq(Reply)]
        BY <2>3, <2>4 DEF IpcInv, PollTypeOK
      <3>2. rxq' \in [Clients -> Seq(FrameIds)]
        BY <2>4 DEF IpcInv, PollTypeOK
      <3>3. rxPing' \in [Clients -> BOOLEAN] /\ timers' \subseteq Timer
        BY <1>3 DEF PushRxPing, IpcInv, PollTypeOK
      <3>4. rxTimer' \in [Clients -> 0 .. MaxTimers]
        BY <1>3, IpcAssumption DEF PushRxPing, IpcInv, PollTypeOK
      <3> QED
        BY <3>1, <3>2, <3>3, <3>4 DEF PollTypeOK
    <2>6. NoAnswerOverlooked' /\ DeadForgotten'
      BY <1>3, <2>4 DEF PushRxPing, IpcInv, PollTypeOK, Polls,
                        NoAnswerOverlooked, DeadForgotten, clientVars
    <2>7. TimerIdsValid'
      BY <1>3 DEF PushRxPing, IpcInv, PollTypeOK, Polls, TimerIdsValid,
                  TimersOf, clientVars
    <2> QED
      BY <1>1, <2>5, <2>6, <2>7 DEF IpcInv, Polls
  <1> QED
    BY <1>2, <1>3

\* The commands: handle_tx and handle_poll_rx.
LEMMA HandleIpcInv ==
  ASSUME IInv, IpcInv, NEW c \in Clients, Handle(c)
  PROVE  IpcInv'
  <1>1. /\ conn[c] /\ cmd' = [cmd EXCEPT ![c] = "none"] /\ call' = call
        /\ UNCHANGED clientVars
    BY DEF Handle, HandleTx, HandleTxBadAddr, HandlePollRxNow, HandlePollRxZero,
           HandlePollRxForever, HandlePollRxTimed, Takes, ClientTx, clientVars,
           vars
  <1>2. asked' \in [Clients -> 0 .. MaxFrames]
    <2>1. CASE HandleTx(c)
      BY <2>1, ConstantsAssumption
         DEF HandleTx, ClientTx, TxqPush, IInv, TypeOK, IpcInv, CallTypeOK
    <2>2. CASE ~HandleTx(c)
      BY <2>2 DEF Handle, HandleTxBadAddr, HandlePollRxNow, HandlePollRxZero,
                  HandlePollRxForever, HandlePollRxTimed, IpcInv, CallTypeOK
    <2> QED
      BY <2>1, <2>2
  <1>3. LiveCounted' /\ CallTypeOK'
    BY <1>1, <1>2 DEF IpcInv, LiveCounted, CallTypeOK, clientVars
  <1>4. CASE HandleTx(c) \/ HandleTxBadAddr(c) \/ HandlePollRxZero(c)
    <2>1. PICK k \in {"ok", "badaddr", "timeout"} :
            socket' = [socket EXCEPT ![c] = Append(@, Status(k))]
      BY <1>4 DEF HandleTx, HandleTxBadAddr, HandlePollRxZero, WriteReply
    <2>2. Status(k) \in Reply /\ UNCHANGED <<rxq, rxPing, rxTimer, timers>>
      BY <1>4 DEF HandleTx, HandleTxBadAddr, HandlePollRxZero, Status, Reply
    <2>3. PollTypeOK'
      BY <2>1, <2>2 DEF IpcInv, PollTypeOK
    <2>4. Polls'
      BY <1>1, <2>2 DEF IpcInv, Polls, NoAnswerOverlooked, TimerIdsValid,
                        DeadForgotten, TimersOf, clientVars
    <2> QED
      BY <1>3, <2>3, <2>4 DEF IpcInv
  <1>5. CASE HandlePollRxNow(c)
    <2>1. Head(rxq[c]) \in FrameIds /\ Tail(rxq[c]) \in Seq(FrameIds)
      BY <1>5 DEF HandlePollRxNow, IpcInv, PollTypeOK
    <2>2. Rx(Head(rxq[c])) \in Reply
      BY <2>1 DEF Rx, Reply
    <2>3. PollTypeOK'
      BY <1>5, <2>1, <2>2 DEF HandlePollRxNow, WriteReply, IpcInv, PollTypeOK
    <2>4. Polls'
      BY <1>1, <1>5 DEF HandlePollRxNow, IpcInv, PollTypeOK, Polls,
                  NoAnswerOverlooked, TimerIdsValid, DeadForgotten, TimersOf,
                  clientVars
    <2> QED
      BY <1>3, <2>3, <2>4 DEF IpcInv
  <1>6. CASE HandlePollRxForever(c)
    <2>1. PollTypeOK'
      BY <1>6 DEF HandlePollRxForever, IpcInv, PollTypeOK
    <2>2. Polls'
      BY <1>1, <1>6 DEF HandlePollRxForever, IpcInv, PollTypeOK, Polls,
                  NoAnswerOverlooked, TimerIdsValid, DeadForgotten, TimersOf,
                  clientVars
    <2> QED
      BY <1>3, <2>1, <2>2 DEF IpcInv
  <1>7. CASE HandlePollRxTimed(c)
    <2>1. PICK i \in 1 .. MaxTimers :
            /\ rxTimer' = [rxTimer EXCEPT ![c] = i]
            /\ timers' = timers \cup
                 {[client |-> c, num |-> i, session |-> session[c]]}
      BY <1>7 DEF HandlePollRxTimed
    <2> DEFINE new == [client |-> c, num |-> i, session |-> session[c]]
    <2>2. session[c] \in 1 .. MaxSessions
      BY <1>1, ConstantsAssumption DEF IInv, TypeOK, IpcInv, LiveCounted
    <2>3. new \in Timer
      BY <2>2 DEF Timer
    <2>4. PollTypeOK'
      BY <1>7, <2>1, <2>3, IpcAssumption
         DEF HandlePollRxTimed, IpcInv, PollTypeOK
    <2>5. NoAnswerOverlooked' /\ DeadForgotten'
      BY <1>1, <1>7, <2>1 DEF HandlePollRxTimed, IpcInv, PollTypeOK, Polls,
                  NoAnswerOverlooked, DeadForgotten, clientVars
    <2>6. TimerIdsValid'
      <3> SUFFICES ASSUME NEW d \in Clients, rxTimer'[d] # 0
                   PROVE  \E t \in TimersOf(d)' : /\ t.num = rxTimer'[d]
                                                 /\ t.session = session'[d]
        BY DEF TimerIdsValid
      <3>1. CASE d = c
        <4>1. new \in timers' /\ new.client = d
          BY <2>1, <3>1
        <4>2. new.num = rxTimer'[d] /\ new.session = session'[d]
          BY <1>1, <2>1, <3>1 DEF clientVars, IpcInv, PollTypeOK
        <4> QED
          BY <4>1, <4>2 DEF TimersOf
      <3>2. CASE d # c
        BY <1>1, <2>1, <3>2 DEF TimersOf, clientVars, IpcInv, PollTypeOK, Polls,
                                TimerIdsValid
      <3> QED
        BY <3>1, <3>2
    <2> QED
      BY <1>3, <2>4, <2>5, <2>6 DEF IpcInv, Polls
  <1> QED
    BY <1>4, <1>5, <1>6, <1>7 DEF Handle

\* timeout_callback, whoever is at its client's address now.
LEMMA TimersIpcInv ==
  ASSUME IInv, IpcInv, NEW t \in timers, PollTimeout(t) \/ PollTimeoutOfDead(t)
  PROVE  IpcInv'
  <1>1. Status("timeout") \in Reply
    BY DEF Status, Reply
  <1>2. UNCHANGED <<clientVars, call, cmd, asked, rxq, rxPing>>
    BY DEF PollTimeout, ClientTimeout, PollTimeoutOfDead, clientVars, vars
  <1>3. LiveCounted' /\ CallTypeOK'
    BY <1>2 DEF IpcInv, LiveCounted, CallTypeOK, clientVars
  <1>4. timers' = timers \ {t} /\ t.client \in Clients
    BY DEF PollTimeout, PollTimeoutOfDead, IpcInv, PollTypeOK, Timer
  <1>5. rxTimer' = [rxTimer EXCEPT ![t.client] = 0]
    BY <1>4 DEF PollTimeout, PollTimeoutOfDead, IpcInv, PollTypeOK, Polls,
                DeadForgotten
  <1>6. socket' \in [Clients -> Seq(Reply)]
    <2>1. ASSUME NEW d \in Clients,
                 socket' = [socket EXCEPT ![d] = Append(@, Status("timeout"))]
          PROVE  socket' \in [Clients -> Seq(Reply)]
      BY <1>1, <2>1 DEF IpcInv, PollTypeOK
    <2>2. CASE PollTimeout(t)
      BY <1>4, <2>1, <2>2 DEF PollTimeout, WriteReply
    <2>3. CASE PollTimeoutOfDead(t)
      BY <2>1, <2>3 DEF PollTimeoutOfDead, WriteReply, IpcInv, PollTypeOK
    <2> QED
      BY <2>2, <2>3
  <1>7. PollTypeOK'
    <2>1. rxTimer' \in [Clients -> 0 .. MaxTimers]
      <3>1. 0 \in 0 .. MaxTimers
        BY IpcAssumption
      <3> QED
        BY <1>4, <1>5, <3>1 DEF IpcInv, PollTypeOK
    <2> QED
      BY <1>2, <1>4, <1>6, <2>1 DEF IpcInv, PollTypeOK
  <1>8. NoAnswerOverlooked' /\ DeadForgotten'
    BY <1>2, <1>4, <1>5 DEF IpcInv, PollTypeOK, Polls, NoAnswerOverlooked,
                            DeadForgotten, clientVars
  <1>9. TimerIdsValid'
    BY <1>2, <1>4, <1>5 DEF IpcInv, PollTypeOK, Polls, TimerIdsValid, TimersOf,
                            clientVars
  <1> QED
    BY <1>3, <1>7, <1>8, <1>9 DEF IpcInv, Polls

\* Connections, and the calls of the programs.
LEMMA ConnectionsIpcInv ==
  ASSUME IInv, IpcInv, NEW c \in Clients, IpcNew(c) \/ IpcClientDeath(c)
  PROVE  IpcInv'
  <1> USE ConstantsAssumption
  <1>1. CASE IpcNew(c)
    <2>1. /\ conn' = [conn EXCEPT ![c] = TRUE] /\ UNCHANGED ipcVars
          /\ session' = [session EXCEPT ![c] = @ + 1] /\ ~conn[c]
          /\ conn \in [Clients -> BOOLEAN]
          /\ session \in [Clients -> 0 .. MaxSessions]
      BY <1>1 DEF IpcNew, ClientConnect, IInv, TypeOK
    <2>2. LiveCounted'
      BY <2>1 DEF IpcInv, LiveCounted
    <2>3. CallTypeOK' /\ PollTypeOK'
      BY <2>1 DEF IpcInv, CallTypeOK, PollTypeOK, ipcVars
    <2>4. Polls'
      BY <2>1 DEF IpcInv, Polls, NoAnswerOverlooked, TimerIdsValid,
                  DeadForgotten, TimersOf, ipcVars
    <2> QED
      BY <2>2, <2>3, <2>4 DEF IpcInv
  <1>2. CASE IpcClientDeath(c)
    <2>1. /\ conn' = [conn EXCEPT ![c] = FALSE] /\ session' = session
          /\ timers' = timers
          /\ conn \in [Clients -> BOOLEAN]
      BY <1>2 DEF IpcClientDeath, ClientDeath, IInv, TypeOK
    <2>2. Forget(c)
      BY <1>2 DEF IpcClientDeath
    <2>3. LiveCounted'
      BY <2>1 DEF IpcInv, LiveCounted
    <2>4. CallTypeOK'
      BY <2>2 DEF Forget, IpcInv, CallTypeOK
    <2>5. PollTypeOK'
      BY <2>1, <2>2, IpcAssumption DEF Forget, IpcInv, PollTypeOK
    <2>6. NoAnswerOverlooked' /\ DeadForgotten'
      BY <2>1, <2>2 DEF Forget, IpcInv, PollTypeOK, Polls, NoAnswerOverlooked,
                        DeadForgotten
    <2>7. TimerIdsValid'
      BY <2>1, <2>2 DEF Forget, IpcInv, PollTypeOK, Polls, TimerIdsValid,
                        TimersOf
    <2> QED
      BY <2>3, <2>4, <2>5, <2>6, <2>7 DEF IpcInv, Polls
  <1> QED
    BY <1>1, <1>2

LEMMA CallsIpcInv ==
  ASSUME IInv, IpcInv, NEW c \in Clients,
         CallTx(c) \/ CallPoll(c) \/ CallReturns(c)
  PROVE  IpcInv'
  <1>1. CASE CallTx(c) \/ CallPoll(c)
    <2>1. CallTypeOK'
      BY <1>1 DEF CallTx, CallPoll, IpcInv, CallTypeOK
    <2>2. UNCHANGED <<clientVars, socket, rxq, rxPing, rxTimer, timers>>
      BY <1>1 DEF CallTx, CallPoll, vars, clientVars
    <2> QED
      BY <2>1, <2>2, PollsUntouched DEF IpcInv
  <1>2. CASE CallReturns(c)
    <2>1. UNCHANGED <<clientVars, cmd, rxq, rxPing, rxTimer, timers, asked>>
      BY <1>2 DEF CallReturns, vars, clientVars
    <2>2. AfterReply(call[c], Head(socket[c])) \in
            {"idle", "tx", "sent", "poll", "failed", "lost"}
      BY DEF AfterReply, WhenSent
    <2>3. CallTypeOK' /\ LiveCounted'
      BY <1>2, <2>1, <2>2 DEF CallReturns, IpcInv, CallTypeOK, LiveCounted,
                              clientVars
    <2>4. PollTypeOK'
      BY <1>2, <2>1 DEF CallReturns, IpcInv, PollTypeOK
    <2>5. Polls'
      BY <2>1 DEF IpcInv, Polls, NoAnswerOverlooked, TimerIdsValid,
                  DeadForgotten, TimersOf, clientVars
    <2> QED
      BY <2>3, <2>4, <2>5 DEF IpcInv
  <1> QED
    BY <1>1, <1>2

LEMMA NextIpcInv == IInv /\ IpcInv /\ [IpcNext]_allVars => IpcInv'
  <1> SUFFICES ASSUME IInv, IpcInv, [IpcNext]_allVars PROVE IpcInv'
    OBVIOUS
  <1>1. ASSUME UNCHANGED <<clientVars, ipcVars>> PROVE IpcInv'
    BY <1>1, PollsUntouched DEF IpcInv, CallTypeOK, ipcVars
  <1>2. CASE UNCHANGED allVars
    BY <1>1, <1>2 DEF allVars, vars, clientVars
  <1>3. CASE IfTx /\ UNCHANGED ipcVars
    BY <1>1, <1>3 DEF IfTx, IfTxIdle, IfTxPartial, IfTxNoResponse, IfTxSent
  <1>4. CASE IpcTxTimeout
    BY <1>1, <1>4 DEF IpcTxTimeout, TxTimeout
  <1>5. CASE RxNote /\ UNCHANGED ipcVars
    BY <1>1, <1>5 DEF RxNote
  <1>6. ASSUME NEW n \in FrameIds, Lose(n) /\ UNCHANGED ipcVars PROVE IpcInv'
    BY <1>1, <1>6 DEF Lose
  <1>7. ASSUME NEW n \in FrameIds, IpcRxAckDropped(n) PROVE IpcInv'
    BY <1>1, <1>7 DEF IpcRxAckDropped, RxUnsolicitedAck, RxAck, RxAckAborts
  <1>8. ASSUME NEW n \in FrameIds, IpcRxAck(n) PROVE IpcInv'
    <2>1. UNCHANGED <<clientVars, call, cmd, asked>>
      BY <1>8 DEF IpcRxAck, RxAck, clientVars
    <2> QED
      BY <1>8, <2>1, AnswersAClient, PushRxIpcInv DEF IpcRxAck
  <1>9. ASSUME NEW c \in Clients, Handle(c) PROVE IpcInv'
    BY <1>9, HandleIpcInv
  <1>10. ASSUME NEW c \in Clients, \/ IpcNew(c) \/ IpcClientDeath(c)
                                   \/ CallTx(c) \/ CallPoll(c) \/ CallReturns(c)
         PROVE  IpcInv'
    BY <1>10, ConnectionsIpcInv, CallsIpcInv
  <1>11. ASSUME NEW t \in timers, PollTimeout(t) \/ PollTimeoutOfDead(t)
         PROVE  IpcInv'
    BY <1>11, TimersIpcInv
  <1> QED
    BY <1>2, <1>3, <1>4, <1>5, <1>6, <1>7, <1>8, <1>9, <1>10, <1>11
       DEF IpcNext, IpcAnswer

LEMMA IpcInvariant == IpcSpec => [](IInv /\ IpcInv)
  BY InitIpcInv, NextIpcInv, IpcImplementsSpec, Invariant, PTL DEF IpcSpec

\* Every variable of the daemon and its clients keeps to its type: in
\* particular each reply is one libsric knows and rx_timer the number of a
\* source or 0.
THEOREM IpcTypeCorrect == IpcSpec => []IpcTypeOK
  <1>1. IInv /\ IpcInv => IpcTypeOK
    BY DEF IInv, IpcInv, CallTypeOK, PollTypeOK, IpcTypeOK
  <1> QED
    BY <1>1, IpcInvariant, PTL

\* Whatever the programs do, an answer never lies in rx_q behind a blocked
\* poll: the assert(rx) of rx_ping holds and the answer popped is the new one.
THEOREM AnswersNeverOverlooked == IpcSpec => []NoAnswerOverlooked
  <1>1. IpcInv => NoAnswerOverlooked
    BY DEF IpcInv, Polls
  <1> QED
    BY <1>1, IpcInvariant, PTL

\* Whatever the programs do, the number g_source_remove is given is that of a
\* source of this very client which is still armed.
THEOREM TimerIdsStayValid == IpcSpec => []TimerIdsValid
  <1>1. IpcInv => TimerIdsValid
    BY DEF IpcInv, Polls
  <1> QED
    BY <1>1, IpcInvariant, PTL
=============================================================================
