--------------------------- MODULE IpcCleanProofs ---------------------------
(***************************************************************************)
(* What Ipc guarantees to programs that close only between calls, and      *)
(* always after a call that timed out (CleanClients): the stream between   *)
(* libsric and sricd stays in step and, when nobody broadcasts, each       *)
(* sric_txrx returns the answer to its own frame.                          *)
(*                                                                         *)
(* The invariant says, of each program, in which of ten phases its call    *)
(* is, what the socket holds in that phase, whether a poll timer may be    *)
(* armed, and where its frame or its answer can be.                        *)
(***************************************************************************)
EXTENDS IpcProofs

\* The numbers of the frames of c that can still be answered.
Out(c) == {f.id : f \in {g \in Live : g.tag = c}}

Unarmed(c) == TimersOf(c) = {}

\* The one timer that may be armed is the one rx_timer names.
ArmedOnce(c) ==
  \A t \in TimersOf(c) : t.num = rxTimer[c] /\ t.session = session[c]

NothingDue(c) == rxq[c] = <<>> /\ Out(c) = {}

\* The answers c may be handed: its own, unless some program broadcasts and so
\* has answers of another frame retire that of c.
Fitting(c) == {n \in FrameIds : NoBroadcasts => n = asked[c]}

\* A frame of c is out, or an answer waits in rx_q, or neither.
OneDue(c) ==
  /\ Out(c) \subseteq {asked[c]}
  /\ rxq[c] = <<>> \/ \E n \in Fitting(c) : rxq[c] = <<n>>
  /\ rxq[c] = <<>> \/ Out(c) = {}

At(c, k, m, s) == call[c] = k /\ cmd[c] = m /\ socket[c] = s

Resting(c) == At(c, "idle", "none", <<>>) /\ NothingDue(c) /\ ~rxPing[c]
Sending(c) == At(c, "tx", "tx", <<>>) /\ NothingDue(c) /\ ~rxPing[c]
Refused(c) == /\ At(c, "tx", "none", <<Status("badaddr")>>)
              /\ NothingDue(c)
              /\ ~rxPing[c]
Accepted(c) == At(c, "tx", "none", <<Status("ok")>>) /\ ~rxPing[c]
Sent(c)    == At(c, "sent", "none", <<>>) /\ ~rxPing[c]
Polling(c) == At(c, "poll", "poll", <<>>) /\ ~rxPing[c]
Answered(c) == /\ \E n \in Fitting(c) : At(c, "poll", "none", <<Rx(n)>>)
               /\ NothingDue(c)
               /\ ~rxPing[c]
TimedOut(c) == /\ At(c, "poll", "none", <<Status("timeout")>>)
               /\ rxPing[c] => NothingDue(c)
GivenUp(c) == At(c, "failed", "none", <<>>) /\ (rxPing[c] => NothingDue(c))
Blocked(c) == At(c, "poll", "none", <<>>) /\ rxPing[c] /\ ArmedOnce(c)

Unblocked(c) ==
  \/ Resting(c) \/ Sending(c) \/ Refused(c) \/ Accepted(c) \/ Sent(c)
  \/ Polling(c) \/ Answered(c) \/ TimedOut(c) \/ GivenUp(c)

Clean(c) == /\ OneDue(c)
            /\ ~conn[c] => Resting(c)
            /\ Blocked(c) \/ (Unarmed(c) /\ Unblocked(c))

CleanInv == \A c \in Clients : Clean(c)

LEMMA InitCleanInv == IpcInit => CleanInv
  <1> SUFFICES ASSUME IpcInit, NEW c \in Clients PROVE Clean(c)
    BY DEF CleanInv
  <1>1. Out(c) = {}
    BY DEF IpcInit, Init, Out, Live, Queued, Delivers
  <1>2. Resting(c) /\ OneDue(c) /\ Unarmed(c)
    BY <1>1 DEF IpcInit, Resting, At, NothingDue, OneDue, Unarmed, TimersOf
  <1> QED
    BY <1>2 DEF Clean, Unblocked

-----------------------------------------------------------------------------
(* What steps of the transmit side do to the frames of a client. *)

LEMMA FewerLive ==
  ASSUME Live' \subseteq Live, NEW c
  PROVE  Out(c)' \subseteq Out(c)
  BY DEF Out

LEMMA PushOut ==
  ASSUME IInv, NEW pri \in 0 .. 1, NEW tag, NEW sess, NEW addr,
         TxqPush(pri, tag, sess, addr), UNCHANGED frameVars, NEW c
  PROVE  Out(c)' \subseteq IF c = tag THEN Out(c) \cup {allocs + 1} ELSE Out(c)
  <1> DEFINE new == [id |-> allocs + 1, tag |-> tag, session |-> sess,
                     addr |-> addr]
  <1>1. Live' = Live \cup {new}
    BY TxqPushLive
  <1>2. new.tag = tag /\ new.id = allocs + 1
    OBVIOUS
  <1> HIDE DEF new
  <1> QED
    BY <1>1, <1>2 DEF Out

LEMMA CancelOut ==
  ASSUME IInv, NEW c \in Clients, TxqCancel(c), UNCHANGED txFrame
  PROVE  Out(c)' = {} /\ \A d : Out(d)' \subseteq Out(d)
  <1>1. Live' = {f \in Live : f.tag # c}
    BY TxqCancelLive
  <1> QED
    BY <1>1 DEF Out

\* The answer that is delivered was the one due: after it nothing is.
LEMMA AckOut ==
  ASSUME IInv, NEW n \in FrameIds, RxAck(n)
  PROVE  /\ \A d : Out(d)' \subseteq Out(d)
         /\ Delivers => \A d : /\ d = txFrame.tag => txFrame.id \in Out(d)
                               /\ txFrame.id \notin Out(d)'
  <1>1. Live' = Queued /\ Queued' = Queued
    BY DEF RxAck, Live, Queued, Delivers
  <1>2. Live' \subseteq Live
    BY <1>1 DEF Live
  <1>3. ASSUME Delivers
        PROVE  txFrame \in Live /\ \A f \in Live' : f.id # txFrame.id
    BY <1>1, <1>3 DEF Live, Delivers, IInv, FramesOwnedOnce
  <1> QED
    BY <1>2, <1>3 DEF Out

-----------------------------------------------------------------------------
(* A client that a step does not touch, but for frames of it that it ends. *)

LEMMA SameFitting ==
  ASSUME NEW c, asked'[c] = asked[c]
  PROVE  Fitting(c)' = Fitting(c)
  BY DEF Fitting, NoBroadcasts

Same(d) ==
  /\ call'[d] = call[d] /\ cmd'[d] = cmd[d] /\ asked'[d] = asked[d]
  /\ socket'[d] = socket[d] /\ rxq'[d] = rxq[d]
  /\ rxPing'[d] = rxPing[d] /\ rxTimer'[d] = rxTimer[d]
  /\ TimersOf(d)' = TimersOf(d)
  /\ session'[d] = session[d]
  /\ ~conn'[d] => ~conn[d]

LEMMA SameIsClean ==
  ASSUME NEW d, Clean(d), Same(d), Out(d)' \subseteq Out(d)
  PROVE  Clean(d)'
  <1>1. OneDue(d)'
    BY SameFitting DEF Clean, OneDue, Same
  <1>2. NothingDue(d) => NothingDue(d)'
    BY DEF NothingDue, Same
  <1>3. Resting(d) => Resting(d)'
    BY <1>2 DEF Resting, At, Same
  <1>4. Unarmed(d) => Unarmed(d)'
    BY DEF Unarmed, Same
  <1>5. Blocked(d) => Blocked(d)'
    BY DEF Blocked, ArmedOnce, At, Same
  <1>6. Unblocked(d) => Unblocked(d)'
    BY <1>2, <1>3, SameFitting
       DEF Unblocked, Sending, Refused, Accepted, Sent, Polling, Answered,
           TimedOut, GivenUp, At, Same
  <1> QED
    BY <1>1, <1>3, <1>4, <1>5, <1>6 DEF Clean, Same

-----------------------------------------------------------------------------
(* One lemma per group of actions: the client that acts goes from phase to *)
(* phase, the others stay where they are.                                  *)

\* Steps of the transmit side alone.
LEMMA TransmitClean ==
  ASSUME CleanInv, UNCHANGED <<ipcVars, clientVars>>,
         \A d \in Clients : Out(d)' \subseteq Out(d)
  PROVE  CleanInv'
  <1> SUFFICES ASSUME NEW d \in Clients PROVE Clean(d)'
    BY DEF CleanInv
  <1>1. Same(d)
    BY DEF Same, ipcVars, clientVars, TimersOf
  <1> QED
    BY <1>1, SameIsClean DEF CleanInv

\* The programs: sric_tx, sric_poll_rx, and their returns.
LEMMA CallsClean ==
  ASSUME CleanClients, IpcInv, CleanInv, NEW c \in Clients,
         CallTx(c) \/ CallPoll(c) \/ CallReturns(c)
  PROVE  CleanInv'
  <1> SUFFICES ASSUME NEW d \in Clients PROVE Clean(d)'
    BY DEF CleanInv
  <1>1. UNCHANGED <<vars, rxq, rxPing, rxTimer, timers, asked>> /\ conn[c]
    BY DEF CallTx, CallPoll, CallReturns
  <1>2. Live' = Live
    BY <1>1 DEF Live, Queued, Delivers, vars
  <1>3. /\ \A e : Out(e)' = Out(e)
        /\ \A e : TimersOf(e)' = TimersOf(e)
    BY <1>1, <1>2 DEF Out, TimersOf
  <1>4. conn' = conn /\ session' = session
    BY <1>1 DEF vars
  <1>5. CASE d # c
    <2>1. Same(d)
      BY <1>1, <1>3, <1>4, <1>5
         DEF Same, CallTx, CallPoll, CallReturns, IpcInv, CallTypeOK, PollTypeOK
    <2> QED
      BY <1>3, <2>1, SameIsClean DEF CleanInv
  <1>6. CASE d = c
    <2>1. Clean(c)
      BY DEF CleanInv
    <2>2. OneDue(c)' /\ conn'[c]
      BY <1>1, <1>3, <1>4, <2>1, SameFitting DEF Clean, OneDue
    <2>3. NothingDue(c)' <=> NothingDue(c)
      BY <1>1, <1>3 DEF NothingDue
    <2>4. CASE CallTx(c)
      <3>1. Unarmed(c) /\ Resting(c)
        BY <2>1, <2>4 DEF CallTx, Clean, Unblocked, Blocked, Sending, Refused,
             Accepted, Sent, Polling, Answered, TimedOut, GivenUp, At
      <3>2. Sending(c)'
        BY <1>1, <2>3, <2>4, <3>1
           DEF CallTx, Resting, Sending, At, IpcInv, CallTypeOK
      <3> QED
        BY <1>3, <1>6, <2>2, <3>1, <3>2 DEF Clean, Unarmed, Unblocked
    <2>5. CASE CallPoll(c)
      <3>1. Unarmed(c) /\ Sent(c)
        BY <2>1, <2>5, CleanClients
           DEF CallPoll, WhenSent, Clean, Unblocked, Blocked, Resting, Sending,
             Refused, Accepted, Polling, Answered, TimedOut, GivenUp, At
      <3>2. Polling(c)'
        BY <1>1, <2>5, <3>1 DEF CallPoll, Sent, Polling, At, IpcInv, CallTypeOK
      <3> QED
        BY <1>3, <1>6, <2>2, <3>1, <3>2 DEF Clean, Unarmed, Unblocked
    <2>6. CASE CallReturns(c)
      <3> DEFINE r == Head(socket[c])
      <3>1. /\ call' = [call EXCEPT ![c] = AfterReply(call[c], r)]
            /\ socket' = [socket EXCEPT ![c] = Tail(@)]
            /\ cmd' = cmd /\ socket[c] # <<>> /\ call[c] \in {"tx", "poll"}
            /\ call \in [Clients -> {"idle", "tx", "sent", "poll", "failed",
                                     "lost"}]
            /\ socket \in [Clients -> Seq(Reply)]
        BY <2>6 DEF CallReturns, IpcInv, CallTypeOK, PollTypeOK
      <3>2. Unarmed(c) /\ (Refused(c) \/ Accepted(c) \/ Answered(c) \/ TimedOut(c))
        BY <2>1, <3>1 DEF Clean, Unblocked, Blocked, Resting, Sending, Sent,
             Polling, GivenUp, At
      <3>3. ASSUME NEW q, socket[c] = <<q>>
            PROVE  r = q /\ socket'[c] = <<>>
        BY <3>1, <3>3
      <3>4. CASE Refused(c)
        <4>1. r = Status("badaddr") /\ socket'[c] = <<>>
          BY <3>3, <3>4 DEF Refused, At
        <4>2. AfterReply(call[c], r) = "idle"
          BY <3>4, <4>1 DEF Refused, At, AfterReply, Status
        <4>3. Resting(c)'
          BY <1>1, <2>3, <3>1, <3>4, <4>1, <4>2 DEF Refused, Resting, At
        <4> QED
          BY <1>3, <1>6, <2>2, <3>2, <4>3 DEF Clean, Unarmed, Unblocked
      <3>5. CASE Accepted(c)
        <4>1. r = Status("ok") /\ socket'[c] = <<>>
          BY <3>3, <3>5 DEF Accepted, At
        <4>2. AfterReply(call[c], r) = "sent"
          BY <3>5, <4>1, CleanClients DEF Accepted, At, AfterReply, WhenSent, Status
        <4>3. Sent(c)'
          BY <1>1, <3>1, <3>5, <4>1, <4>2 DEF Accepted, Sent, At
        <4> QED
          BY <1>3, <1>6, <2>2, <3>2, <4>3 DEF Clean, Unarmed, Unblocked
      <3>6. CASE Answered(c)
        <4>1. r.kind = "rx" /\ socket'[c] = <<>>
          BY <3>3, <3>6 DEF Answered, At, Rx
        <4>2. AfterReply(call[c], r) = "idle"
          BY <3>6, <4>1 DEF Answered, At, AfterReply
        <4>3. Resting(c)'
          BY <1>1, <2>3, <3>1, <3>6, <4>1, <4>2 DEF Answered, Resting, At
        <4> QED
          BY <1>3, <1>6, <2>2, <3>2, <4>3 DEF Clean, Unarmed, Unblocked
      <3>7. CASE TimedOut(c)
        <4>1. r = Status("timeout") /\ socket'[c] = <<>>
          BY <3>3, <3>7 DEF TimedOut, At
        <4>2. AfterReply(call[c], r) = "failed"
          BY <3>7, <4>1, CleanClients DEF TimedOut, At, AfterReply, Status
        <4>3. GivenUp(c)'
          BY <1>1, <2>3, <3>1, <3>7, <4>1, <4>2 DEF TimedOut, GivenUp, At
        <4> QED
          BY <1>3, <1>6, <2>2, <3>2, <4>3 DEF Clean, Unarmed, Unblocked
      <3> QED
        BY <3>2, <3>4, <3>5, <3>6, <3>7
    <2> QED
      BY <1>6, <2>4, <2>5, <2>6
  <1> QED
    BY <1>5, <1>6

\* ipc_new and ipc_client_death.
LEMMA ConnectionsClean ==
  ASSUME CleanClients, IInv, IpcInv, CleanInv, NEW c \in Clients,
         IpcNew(c) \/ IpcClientDeath(c)
  PROVE  CleanInv'
  <1> SUFFICES ASSUME NEW d \in Clients PROVE Clean(d)'
    BY DEF CleanInv
  <1>1. timers' = timers /\ \A e : TimersOf(e)' = TimersOf(e)
    BY DEF IpcNew, IpcClientDeath, ipcVars, TimersOf
  <1>2. CASE IpcNew(c)
    <2>1. /\ UNCHANGED ipcVars /\ Live' = Live /\ ~conn[c]
          /\ conn' = [conn EXCEPT ![c] = TRUE]
          /\ session' = [session EXCEPT ![c] = @ + 1]
          /\ conn \in [Clients -> BOOLEAN]
          /\ session \in [Clients -> 0 .. MaxSessions]
      BY <1>2 DEF IpcNew, ClientConnect, queueVars, frameVars, Live, Queued,
                  Delivers, IInv, TypeOK
    <2>2. \A e : Out(e)' = Out(e)
      BY <2>1 DEF Out
    <2>3. CASE d # c
      <3>1. Same(d)
        BY <1>1, <2>1, <2>3 DEF Same, ipcVars
      <3> QED
        BY <2>2, <3>1, SameIsClean DEF CleanInv
    <2>4. CASE d = c
      <3>1. OneDue(c) /\ Resting(c) /\ Unarmed(c)
        BY <2>1 DEF CleanInv, Clean, Blocked, Resting, At
      <3>2. OneDue(c)' /\ Resting(c)' /\ Unarmed(c)'
        BY <1>1, <2>1, <2>2, <3>1 DEF OneDue, Resting, NothingDue, At, Unarmed,
                                      ipcVars
      <3> QED
        BY <2>4, <3>2 DEF Clean, Unblocked
    <2> QED
      BY <2>3, <2>4
  <1>3. CASE IpcClientDeath(c)
    <2>1. /\ Forget(c) /\ session' = session
          /\ conn' = [conn EXCEPT ![c] = FALSE]
          /\ conn \in [Clients -> BOOLEAN] /\ call[c] \in {"idle", "failed"}
      BY <1>3, CleanClients DEF IpcClientDeath, ClientDeath, IInv, TypeOK
    <2>2. Out(c)' = {} /\ \A e : Out(e)' \subseteq Out(e)
      BY <1>3, CancelOut DEF IpcClientDeath, ClientDeath
    <2>3. CASE d # c
      <3>1. Same(d)
        BY <1>1, <2>1, <2>3
           DEF Same, Forget, IpcInv, CallTypeOK, PollTypeOK
      <3> QED
        BY <2>2, <3>1, SameIsClean DEF CleanInv
    <2>4. CASE d = c
      <3>1. Unarmed(c)
        BY <2>1 DEF CleanInv, Clean, Blocked, At
      <3>2. Resting(c)' /\ OneDue(c)'
        BY <2>1, <2>2 DEF Forget, IpcInv, CallTypeOK, PollTypeOK, Resting,
                          NothingDue, OneDue, At
      <3> QED
        BY <1>1, <2>4, <3>1, <3>2 DEF Clean, Unblocked, Unarmed
    <2> QED
      BY <2>3, <2>4
  <1> QED
    BY <1>2, <1>3
\* The commands: only a program that sent one has a command to read.
LEMMA HandleClean ==
  ASSUME IInv, IpcInv, CleanInv, NEW c \in Clients, Handle(c)
  PROVE  CleanInv'
  <1> SUFFICES ASSUME NEW d \in Clients PROVE Clean(d)'
    BY DEF CleanInv
  <1>1. /\ conn[c] /\ cmd[c] # "none" /\ cmd' = [cmd EXCEPT ![c] = "none"]
        /\ call' = call /\ conn' = conn /\ session' = session
        /\ cmd[c] = IF HandleTx(c) \/ HandleTxBadAddr(c) THEN "tx" ELSE "poll"
    BY DEF Handle, HandleTx, HandleTxBadAddr, HandlePollRxNow, HandlePollRxZero,
           HandlePollRxForever, HandlePollRxTimed, Takes, ClientTx, clientVars,
           vars
  <1>2. /\ cmd \in [Clients -> {"none", "tx", "poll"}]
        /\ asked \in [Clients -> 0 .. MaxFrames]
        /\ socket \in [Clients -> Seq(Reply)] /\ rxq \in [Clients -> Seq(FrameIds)]
        /\ rxPing \in [Clients -> BOOLEAN]
        /\ rxTimer \in [Clients -> 0 .. MaxTimers]
    BY DEF IpcInv, CallTypeOK, PollTypeOK
  <1>3. Out(c)' \subseteq Out(c) \cup {allocs + 1}
        /\ (~HandleTx(c) => Out(c)' \subseteq Out(c))
        /\ \A e : e # c => Out(e)' \subseteq Out(e)
    <2>1. CASE HandleTx(c)
      BY <2>1, PushOut DEF HandleTx, ClientTx
    <2>2. CASE ~HandleTx(c)
      <3>1. Live' \subseteq Live
        BY <2>2 DEF Handle, HandleTxBadAddr, HandlePollRxNow, HandlePollRxZero,
                    HandlePollRxForever, HandlePollRxTimed, vars, Live, Queued,
                    Delivers
      <3> QED
        BY <2>2, <3>1, FewerLive
    <2> QED
      BY <2>1, <2>2
  <1>4. CASE d # c
    <2>1. TimersOf(d)' = TimersOf(d)
      BY <1>4 DEF Handle, HandleTx, HandleTxBadAddr, HandlePollRxNow,
           HandlePollRxZero, HandlePollRxForever, HandlePollRxTimed, TimersOf
    <2>2. /\ socket'[d] = socket[d] /\ rxq'[d] = rxq[d] /\ asked'[d] = asked[d]
          /\ rxPing'[d] = rxPing[d] /\ rxTimer'[d] = rxTimer[d]
      BY <1>2, <1>4
         DEF Handle, HandleTx, HandleTxBadAddr, HandlePollRxNow,
             HandlePollRxZero, HandlePollRxForever, HandlePollRxTimed,
             WriteReply
    <2>3. Same(d)
      BY <1>1, <1>2, <1>4, <2>1, <2>2 DEF Same
    <2> QED
      BY <1>3, <1>4, <2>3, SameIsClean DEF CleanInv
  <1>5. CASE d = c
    <2>1. Clean(c) /\ cmd'[c] = "none"
      BY <1>1, <1>2 DEF CleanInv
    <2>2. Unarmed(c) /\ (Sending(c) \/ Polling(c)) /\ socket[c] = <<>>
      BY <1>1, <2>1 DEF Clean, Unblocked, Blocked, Resting, Refused, Accepted,
           Sent, Sending, Polling, Answered, TimedOut, GivenUp, At
    <2>3. ASSUME NEW r, WriteReply(c, r)
          PROVE  socket'[c] = <<r>>
      BY <1>2, <2>2, <2>3 DEF WriteReply
    <2>4. CASE HandleTx(c) \/ HandleTxBadAddr(c)
      <3>1. Sending(c) /\ UNCHANGED <<rxq, rxPing, timers>>
        BY <1>1, <2>2, <2>4 DEF HandleTx, HandleTxBadAddr, Polling, At
      <3>2. Unarmed(c)'
        BY <2>2, <3>1 DEF Unarmed, TimersOf
      <3>3. CASE HandleTx(c)
        <4>1. socket'[c] = <<Status("ok")>> /\ asked'[c] = allocs + 1
          BY <1>2, <2>3, <3>3 DEF HandleTx
        <4>2. OneDue(c)' /\ Accepted(c)'
          BY <1>1, <1>3, <2>1, <3>1, <4>1
             DEF Sending, NothingDue, OneDue, Accepted, At
        <4> QED
          BY <1>1, <1>5, <3>2, <4>2 DEF Clean, Unblocked
      <3>4. CASE HandleTxBadAddr(c) /\ ~HandleTx(c)
        <4>1. socket'[c] = <<Status("badaddr")>> /\ asked' = asked
          BY <2>3, <3>4 DEF HandleTxBadAddr
        <4>2. OneDue(c)' /\ Refused(c)'
          BY <1>1, <1>3, <2>1, <3>1, <3>4, <4>1, SameFitting
             DEF Clean, Sending, NothingDue, OneDue, Refused, At
        <4> QED
          BY <1>1, <1>5, <3>2, <4>2 DEF Clean, Unblocked
      <3> QED
        BY <2>4, <3>3, <3>4
    <2>5. CASE ~(HandleTx(c) \/ HandleTxBadAddr(c))
      <3>1. Polling(c) /\ asked' = asked /\ Out(c)' \subseteq Out(c) /\ OneDue(c)
        BY <1>1, <1>3, <2>1, <2>2, <2>5
           DEF Handle, HandlePollRxNow, HandlePollRxZero, HandlePollRxForever,
               HandlePollRxTimed, Sending, At, Clean
      <3>2. CASE HandlePollRxNow(c)
        <4>1. PICK n \in Fitting(c) : rxq[c] = <<n>> /\ Out(c) = {}
          BY <3>1, <3>2 DEF HandlePollRxNow, OneDue
        <4>2. Head(<<n>>) = n /\ Tail(<<n>>) = <<>>
          OBVIOUS
        <4>3. socket'[c] = <<Rx(n)>> /\ rxq'[c] = <<>> /\ n \in Fitting(c)'
          BY <1>2, <2>3, <3>1, <3>2, <4>1, <4>2, SameFitting
             DEF HandlePollRxNow
        <4>4. OneDue(c)' /\ Answered(c)' /\ Unarmed(c)'
          BY <1>1, <2>1, <2>2, <3>1, <3>2, <4>1, <4>3
             DEF HandlePollRxNow, Polling, Answered, At, NothingDue, OneDue,
                 Unarmed, TimersOf
        <4> QED
          BY <1>1, <1>5, <4>4 DEF Clean, Unblocked
      <3>3. CASE HandlePollRxZero(c)
        <4>1. socket'[c] = <<Status("timeout")>>
          BY <2>3, <3>3 DEF HandlePollRxZero
        <4>2. OneDue(c)' /\ TimedOut(c)' /\ Unarmed(c)'
          BY <1>1, <2>1, <2>2, <3>1, <3>3, <4>1, SameFitting
             DEF HandlePollRxZero, Polling, TimedOut, At, OneDue, Unarmed,
                 TimersOf
        <4> QED
          BY <1>1, <1>5, <4>2 DEF Clean, Unblocked
      <3>4. CASE HandlePollRxForever(c)
        <4>1. ArmedOnce(c)'
          BY <2>2, <3>4 DEF HandlePollRxForever, ArmedOnce, Unarmed, TimersOf
        <4>2. OneDue(c)' /\ Blocked(c)'
          BY <1>1, <1>2, <2>1, <2>2, <3>1, <3>4, <4>1
             DEF HandlePollRxForever, Polling, Blocked, At, OneDue
        <4> QED
          BY <1>1, <1>5, <4>2 DEF Clean
      <3>5. CASE HandlePollRxTimed(c)
        <4>1. PICK i \in 1 .. MaxTimers :
                /\ rxTimer' = [rxTimer EXCEPT ![c] = i]
                /\ timers' = timers \cup
                     {[client |-> c, num |-> i, session |-> session[c]]}
          BY <3>5 DEF HandlePollRxTimed
        <4>2. rxTimer'[c] = i
          BY <1>2, <4>1
        <4>3. ArmedOnce(c)'
          BY <1>1, <2>2, <4>1, <4>2 DEF ArmedOnce, Unarmed, TimersOf
        <4>4. OneDue(c)' /\ Blocked(c)'
          BY <1>1, <1>2, <2>1, <2>2, <3>1, <3>5, <4>3
             DEF HandlePollRxTimed, Polling, Blocked, At, OneDue
        <4> QED
          BY <1>1, <1>5, <4>4 DEF Clean
      <3> QED
        BY <2>5, <3>2, <3>3, <3>4, <3>5 DEF Handle
    <2> QED
      BY <2>4, <2>5
  <1> QED
    BY <1>4, <1>5

\* timeout_callback: only a blocked poll has a timer, and only one.
LEMMA TimersClean ==
  ASSUME IInv, IpcInv, CleanInv, NEW t \in timers,
         PollTimeout(t) \/ PollTimeoutOfDead(t)
  PROVE  CleanInv'
  <1> DEFINE c == t.client
  <1>1. c \in Clients /\ t \in TimersOf(c) /\ timers \subseteq Timer
    BY DEF IpcInv, PollTypeOK, Timer, TimersOf
  <1>2. Blocked(c) /\ OneDue(c) /\ conn[c]
    BY <1>1 DEF CleanInv, Clean, Unarmed, Blocked, Resting, At
  <1>3. /\ timers' = timers \ {t} /\ ClientTimeout(c)
        /\ WriteReply(c, Status("timeout")) /\ rxTimer' = [rxTimer EXCEPT ![c] = 0]
        /\ UNCHANGED <<call, cmd, rxq, rxPing, asked>>
    BY <1>2 DEF PollTimeout, PollTimeoutOfDead
  <1>4. /\ socket \in [Clients -> Seq(Reply)]
        /\ rxTimer \in [Clients -> 0 .. MaxTimers]
        /\ rxPing \in [Clients -> BOOLEAN]
    BY DEF IpcInv, PollTypeOK
  <1>5. Out(c)' = {} /\ \A e : Out(e)' \subseteq Out(e)
    BY <1>1, <1>3, CancelOut DEF ClientTimeout
  <1>6. conn' = conn /\ session' = session
    BY <1>3 DEF ClientTimeout, clientVars
  <1> HIDE DEF c
  <1> SUFFICES ASSUME NEW d \in Clients PROVE Clean(d)'
    BY DEF CleanInv
  <1>7. CASE d # c
    <2>1. TimersOf(d)' = TimersOf(d)
      BY <1>1, <1>3, <1>7 DEF TimersOf
    <2>2. Same(d)
      BY <1>1, <1>3, <1>4, <1>6, <1>7, <2>1 DEF Same, WriteReply
    <2> QED
      BY <1>5, <2>2, SameIsClean DEF CleanInv
  <1>8. CASE d = c
    <2>1. ASSUME NEW u \in TimersOf(c) PROVE u = t
      <3>1. u \in Timer /\ t \in Timer /\ u.client = c /\ t.client = c
        BY <1>1 DEF TimersOf
      <3>2. u.num = t.num /\ u.session = t.session
        BY <1>1, <1>2 DEF Blocked, ArmedOnce
      <3> QED
        BY <3>1, <3>2 DEF Timer
    <2>2. Unarmed(c)'
      BY <1>3, <2>1 DEF Unarmed, TimersOf
    <2>3. rxq[c] = <<>> /\ socket[c] = <<>>
      BY <1>1, <1>2 DEF Blocked, At, IpcInv, Polls, NoAnswerOverlooked
    <2>4. socket'[c] = <<Status("timeout")>>
      BY <1>1, <1>3, <1>4, <2>3 DEF WriteReply
    <2>5. TimedOut(c)' /\ OneDue(c)'
      BY <1>2, <1>3, <1>5, <2>3, <2>4
         DEF Blocked, TimedOut, At, NothingDue, OneDue
    <2> QED
      BY <1>2, <1>6, <1>8, <2>2, <2>5 DEF Clean, Unblocked
  <1> QED
    BY <1>7, <1>8

\* An ACK delivered: the frame it retires is the last its client asked for, and
\* without broadcasts, the bus being timely, the frame it answers.
LEMMA AnswerClean ==
  ASSUME TInv, IpcInv, CleanInv, NEW n \in FrameIds, IpcRxAck(n),
         NEW c, c = txFrame.tag
  PROVE  CleanInv'
  <1>1. /\ Delivers /\ RxAck(n) /\ UNCHANGED <<call, cmd, asked>>
        /\ PushRxQueued(c, n) \/ PushRxPing(c, n)
        /\ IInv
    BY DEF IpcRxAck, TInv
  <1>2. c \in Clients /\ conn[c]
    BY <1>1, AnswersAClient
  <1>3. conn' = conn /\ session' = session
    BY <1>1 DEF RxAck, clientVars
  <1>4. NoBroadcasts => n = txFrame.id
    BY <1>1 DEF RxAck, TInv, OneAnswer
  <1>5. /\ Out(c)' = {} /\ Out(c) # {} /\ txFrame.id = asked[c]
        /\ rxq[c] = <<>>
    BY <1>1, <1>2, AckOut DEF CleanInv, Clean, OneDue
  <1>6. n \in Fitting(c)'
    BY <1>1, <1>4, <1>5, SameFitting DEF Fitting
  <1>7. \A e : Out(e)' \subseteq Out(e)
    BY <1>1, AckOut
  <1>8. /\ socket \in [Clients -> Seq(Reply)] /\ rxq \in [Clients -> Seq(FrameIds)]
        /\ rxPing \in [Clients -> BOOLEAN]
        /\ rxTimer \in [Clients -> 0 .. MaxTimers]
    BY DEF IpcInv, PollTypeOK
  <1> SUFFICES ASSUME NEW d \in Clients PROVE Clean(d)'
    BY DEF CleanInv
  <1>9. CASE d # c
    <2>1. TimersOf(d)' = TimersOf(d)
      BY <1>1, <1>9 DEF PushRxQueued, PushRxPing, TimersOf
    <2>2. Same(d)
      BY <1>1, <1>3, <1>8, <1>9, <2>1
         DEF Same, PushRxQueued, PushRxPing, WriteReply
    <2> QED
      BY <1>7, <2>2, SameIsClean DEF CleanInv
  <1>10. CASE d = c
    <2>1. Clean(c)
      BY <1>2 DEF CleanInv
    <2>2. Append(<<>>, n) = <<n>> /\ Head(<<n>>) = n /\ Tail(<<n>>) = <<>>
      OBVIOUS
    <2>3. CASE PushRxQueued(c, n)
      <3>1. rxq'[c] = <<n>>
        BY <1>2, <1>5, <1>8, <2>2, <2>3 DEF PushRxQueued
      <3>2. OneDue(c)'
        BY <1>1, <1>5, <1>6, <3>1 DEF OneDue
      <3>3. /\ Unarmed(c) /\ ~rxPing[c]
            /\ \/ Accepted(c) \/ Sent(c) \/ Polling(c)
               \/ TimedOut(c) \/ GivenUp(c)
        BY <1>5, <2>1, <2>3 DEF PushRxQueued, Clean, Unblocked, Blocked, Resting,
             Sending, Refused, Answered, NothingDue
      <3>4. Unarmed(c)'
        BY <2>3, <3>3 DEF PushRxQueued, Unarmed, TimersOf
      <3>5. Unblocked(c)'
        BY <1>1, <2>3, <3>3 DEF PushRxQueued, Accepted, Sent, Polling, TimedOut,
             GivenUp, At, Unblocked
      <3> QED
        BY <1>2, <1>3, <1>10, <3>2, <3>4, <3>5 DEF Clean
    <2>4. CASE PushRxPing(c, n)
      <3>1. rxPing[c]
        BY <2>4 DEF PushRxPing
      <3>2. Blocked(c)
        BY <1>5, <2>1, <3>1 DEF Clean, Unblocked, Resting, Sending, Refused,
             Accepted, Sent, Polling, Answered, TimedOut, GivenUp, NothingDue
      <3>3. Unarmed(c)'
        BY <2>4, <3>2 DEF PushRxPing, Blocked, ArmedOnce, Unarmed, TimersOf
      <3>4. socket[c] = <<>>
        BY <3>2 DEF Blocked, At
      <3>5. socket'[c] = <<Rx(n)>> /\ rxq'[c] = <<>> /\ ~rxPing'[c]
        BY <1>2, <1>5, <1>8, <2>2, <2>4, <3>4 DEF PushRxPing, WriteReply
      <3>6. Answered(c)' /\ OneDue(c)'
        BY <1>1, <1>5, <1>6, <3>2, <3>5
           DEF Blocked, Answered, At, NothingDue, OneDue
      <3> QED
        BY <1>2, <1>3, <1>10, <3>3, <3>6 DEF Clean, Unblocked
    <2> QED
      BY <1>1, <2>3, <2>4
  <1> QED
    BY <1>9, <1>10

-----------------------------------------------------------------------------

CInv == TInv /\ IpcInv /\ CleanInv

LEMMA NextCleanInv ==
  ASSUME CleanClients, TInv, IpcInv, CleanInv, [IpcNext]_allVars
  PROVE  CleanInv'
  <1> USE DEF TInv
  <1>1. ASSUME UNCHANGED <<ipcVars, clientVars>>, Live' \subseteq Live
        PROVE  CleanInv'
    BY <1>1, FewerLive, TransmitClean
  <1>2. CASE UNCHANGED allVars
    <2>1. Live' = Live
      BY <1>2 DEF allVars, vars, Live, Queued, Delivers
    <2> QED
      BY <1>1, <1>2, <2>1 DEF allVars, vars, clientVars
  <1>3. CASE IfTx /\ UNCHANGED ipcVars
    BY <1>1, <1>3, IfTxLive
       DEF IfTx, IfTxIdle, IfTxPartial, IfTxNoResponse, IfTxSent
  <1>4. CASE IpcTxTimeout
    <2>1. Live' = Live
      BY <1>4 DEF IpcTxTimeout, TxTimeout, Live, Queued, Delivers
    <2> QED
      BY <1>1, <1>4, <2>1 DEF IpcTxTimeout, TxTimeout
  <1>5. CASE RxNote /\ UNCHANGED ipcVars
    <2>1. \A d \in Clients : Out(d)' \subseteq Out(d)
      BY <1>5, PushOut, ConstantsAssumption DEF RxNote
    <2> QED
      BY <1>5, <2>1, TransmitClean DEF RxNote
  <1>6. ASSUME NEW n \in FrameIds,
               \/ Lose(n) /\ UNCHANGED ipcVars
               \/ IpcRxAckDropped(n)
        PROVE  CleanInv'
    <2>1. UNCHANGED <<ipcVars, clientVars>>
      BY <1>6 DEF Lose, IpcRxAckDropped, RxUnsolicitedAck, RxAck, RxAckAborts
    <2>2. Live' \subseteq Live
      BY <1>6 DEF Lose, IpcRxAckDropped, RxUnsolicitedAck, RxAck, RxAckAborts,
                  queueVars, frameVars, Live, Queued, Delivers
    <2> QED
      BY <1>1, <2>1, <2>2
  <1>7. ASSUME NEW n \in FrameIds, IpcRxAck(n) PROVE CleanInv'
    BY <1>7, AnswerClean
  <1>8. ASSUME NEW c \in Clients, Handle(c) PROVE CleanInv'
    BY <1>8, HandleClean
  <1>9. ASSUME NEW c \in Clients, \/ IpcNew(c) \/ IpcClientDeath(c)
                                  \/ CallTx(c) \/ CallPoll(c) \/ CallReturns(c)
        PROVE  CleanInv'
    BY <1>9, CallsClean, ConnectionsClean
  <1>10. ASSUME NEW t \in timers, PollTimeout(t) \/ PollTimeoutOfDead(t)
         PROVE  CleanInv'
    BY <1>10, TimersClean
  <1> QED
    BY <1>2, <1>3, <1>4, <1>5, <1>6, <1>7, <1>8, <1>9, <1>10
       DEF IpcNext, IpcAnswer

LEMMA CleanInvariant ==
  ASSUME CleanClients
  PROVE  IpcSpec => []CInv
  <1>1. IpcSpec => [](TInv /\ IpcInv)
    BY ImplementsTimely, TimelyInvariant, IpcInvariant, PTL
  <1>2. TInv /\ IpcInv /\ CleanInv /\ [IpcNext]_allVars => CleanInv'
    BY NextCleanInv
  <1> QED
    BY <1>1, <1>2, InitCleanInv, PTL DEF IpcSpec, CInv

\* Everything the daemon writes to a well-behaved program is the one reply to
\* the one command under way, so libsric, which never looks, reads no other.
THEOREM RepliesStayInStep ==
  ASSUME CleanClients
  PROVE  IpcSpec => []RepliesInStep
  <1>1. CInv => RepliesInStep
    <2> SUFFICES ASSUME CInv, NEW c \in Clients, socket[c] # <<>>
                 PROVE  /\ Len(socket[c]) = 1
                        /\ cmd[c] = "none"
                        /\ Expected(c, Head(socket[c]).kind)
      BY DEF RepliesInStep
    <2>1. Refused(c) \/ Accepted(c) \/ Answered(c) \/ TimedOut(c)
      BY DEF CInv, CleanInv, Clean, Unblocked, Blocked, Resting, Sending, Sent,
             Polling, GivenUp, At
    <2>2. ASSUME NEW r, socket[c] = <<r>>
          PROVE  Len(socket[c]) = 1 /\ Head(socket[c]) = r
      BY <2>2
    <2>3. CASE Refused(c) \/ Accepted(c) \/ TimedOut(c)
      BY <2>2, <2>3 DEF Refused, Accepted, TimedOut, At, Expected, Status
    <2>4. CASE Answered(c)
      <3>1. PICK n \in Fitting(c) : At(c, "poll", "none", <<Rx(n)>>)
        BY <2>4 DEF Answered
      <3> QED
        BY <2>2, <3>1 DEF At, Expected, Rx
    <2> QED
      BY <2>1, <2>3, <2>4
  <1> QED
    BY <1>1, CleanInvariant, PTL

\* A poll whose command is read is answered or keeps its ping: the answer, or
\* the timeout, still has a way to the program that is blocked on it.
THEOREM PollsStayServed ==
  ASSUME CleanClients
  PROVE  IpcSpec => []PollsAreServed
  <1>1. CInv => PollsAreServed
    <2> SUFFICES ASSUME CInv, NEW c \in Clients, call[c] = "poll",
                        cmd[c] = "none", socket[c] = <<>>
                 PROVE  Blocked(c)
      BY DEF PollsAreServed, Blocked
    <2>1. \A r : <<r>> # <<>>
      OBVIOUS
    <2> QED
      BY <2>1 DEF CInv, CleanInv, Clean, Unblocked, Resting, Sending, Refused,
                  Accepted, Sent, Polling, Answered, TimedOut, GivenUp, At
  <1> QED
    BY <1>1, CleanInvariant, PTL

\* No poll timer outlives its poll: none can fire for a dead client, for its
\* successor at the same address, or for a later poll.
THEOREM TimersStayTracked ==
  ASSUME CleanClients
  PROVE  IpcSpec => []TimersTracked
  <1>1. CInv => TimersTracked
    <2> SUFFICES ASSUME CInv, NEW t \in timers
                 PROVE  /\ conn[t.client] /\ session[t.client] = t.session
                        /\ rxTimer[t.client] = t.num
                        /\ rxPing[t.client]
      BY DEF TimersTracked
    <2>1. t.client \in Clients /\ t \in TimersOf(t.client)
      BY DEF CInv, IpcInv, PollTypeOK, Timer, TimersOf
    <2>2. Blocked(t.client) /\ conn[t.client]
      BY <2>1 DEF CInv, CleanInv, Clean, Unarmed, Blocked, Resting, At
    <2> QED
      BY <2>1, <2>2 DEF Blocked, ArmedOnce
  <1> QED
    BY <1>1, CleanInvariant, PTL

\* sric_txrx returns the answer to the frame it sent: when no program
\* broadcasts, no answer that waits for a program, in rx_q or in its socket, is
\* to anything else.
THEOREM AnswersCorrespond ==
  ASSUME CleanClients, NoBroadcasts
  PROVE  IpcSpec => []TxRxCorresponds
  <1>1. CInv => TxRxCorresponds
    <2> SUFFICES ASSUME CInv, NEW c \in Clients
                 PROVE  /\ \A i \in DOMAIN rxq[c] : rxq[c][i] = asked[c]
                        /\ \A i \in DOMAIN socket[c] :
                             socket[c][i].frame \in {0, asked[c]}
      BY DEF TxRxCorresponds
    <2>1. Clean(c)
      BY DEF CInv, CleanInv
    <2>2. rxq[c] \in {<<>>, <<asked[c]>>}
      BY <2>1 DEF Clean, OneDue, Fitting
    <2>3. \/ socket[c] = <<>>
          \/ \E k \in {"ok", "badaddr", "timeout"} : socket[c] = <<Status(k)>>
          \/ socket[c] = <<Rx(asked[c])>>
      BY <2>1 DEF Clean, Unblocked, Blocked, Resting, Sending, Refused, Accepted,
                  Sent, Polling, Answered, TimedOut, GivenUp, At, Fitting
    <2> QED
      BY <2>2, <2>3 DEF Status, Rx
  <1> QED
    BY <1>1, CleanInvariant, PTL

-----------------------------------------------------------------------------
(* For programs that close after a call that timed out and do not broadcast,  *)
(* Ipc implements CallService: IpcInit maps to SInit, and every step of       *)
(* IpcNext maps to a step of one program's call or to a stutter.              *)

Turn(c) == IF Due(c) THEN asked[c] ELSE 0

\* The answer a call should have, and the one it has.
Yields(c) == IF Stage(c) = "answered" THEN asked[c] ELSE 0
Got(c)    == IF Stage(c) = "answered" THEN Held(c) ELSE 0

Honest == \A c \in Clients : Got(c) = Yields(c)

\* What is shown of every step: it is one of the service, provided that the
\* answers are the right ones before and after it.
CallStep == Honest /\ Honest' => [CS!SNext]_(CS!svars)

-----------------------------------------------------------------------------
(* The refinement mapping, read off where a call is *)

Open(c) == \/ At(c, "tx", "none", <<Status("ok")>>) \/ At(c, "sent", "none", <<>>)
           \/ At(c, "poll", "poll", <<>>) \/ At(c, "poll", "none", <<>>)

Over(c) == \/ At(c, "poll", "none", <<Status("timeout")>>)
           \/ At(c, "failed", "none", <<>>)

Staged(c) ==
  /\ ~conn[c] => Stage(c) = "away"
  /\ conn[c] =>
       /\ call[c] = "idle" => Stage(c) = "ready"
       /\ At(c, "tx", "tx", <<>>) => Stage(c) = "asking"
       /\ At(c, "tx", "none", <<Status("badaddr")>>) => Stage(c) = "refused"
       /\ Open(c) => Stage(c) = IF rxq[c] = <<>> THEN "waiting" ELSE "answered"
       /\ \A n : At(c, "poll", "none", <<Rx(n)>>) => Stage(c) = "answered"
       /\ Over(c) => Stage(c) = "gaveup"

LEMMA StagedAlways == \A c : Staged(c)
  <1> SUFFICES ASSUME NEW c PROVE Staged(c)
    OBVIOUS
  <1>1. ASSUME NEW r, socket[c] = <<r>>
        PROVE  \A k : Written(c, k) <=> r.kind = k
    BY <1>1 DEF Written
  <1>2. ASSUME socket[c] = <<>>
        PROVE  \A k : ~Written(c, k)
    BY <1>2 DEF Written
  <1>3. ~conn[c] => Stage(c) = "away"
    BY DEF Stage
  <1> SUFFICES ASSUME conn[c]
               PROVE  /\ call[c] = "idle" => Stage(c) = "ready"
                      /\ At(c, "tx", "tx", <<>>) => Stage(c) = "asking"
                      /\ At(c, "tx", "none", <<Status("badaddr")>>)
                           => Stage(c) = "refused"
                      /\ Open(c) => Stage(c) = IF rxq[c] = <<>> THEN "waiting"
                                                               ELSE "answered"
                      /\ \A n : At(c, "poll", "none", <<Rx(n)>>)
                                  => Stage(c) = "answered"
                      /\ Over(c) => Stage(c) = "gaveup"
    BY <1>3 DEF Staged
  <1>4. call[c] = "idle" => Stage(c) = "ready"
    BY DEF Stage
  <1>5. At(c, "tx", "tx", <<>>) => Stage(c) = "asking"
    BY <1>2 DEF Stage, At
  <1>6. At(c, "tx", "none", <<Status("badaddr")>>) => Stage(c) = "refused"
    BY <1>1 DEF Stage, At, Status
  <1>7. Open(c) => Stage(c) = IF rxq[c] = <<>> THEN "waiting" ELSE "answered"
    BY <1>1, <1>2 DEF Stage, Open, At, Status
  <1>8. \A n : At(c, "poll", "none", <<Rx(n)>>) => Stage(c) = "answered"
    BY <1>1 DEF Stage, At, Rx
  <1>9. Over(c) => Stage(c) = "gaveup"
    BY <1>1, <1>2 DEF Stage, Over, At, Status
  <1> QED
    BY <1>4, <1>5, <1>6, <1>7, <1>8, <1>9

LEMMA StagedNext == (\A c : Staged(c))'
  BY StagedAlways, PTL

LEMMA DueIsOut == \A c : Due(c) <=> asked[c] \in Out(c)
  BY DEF Due, Out

LEMMA DueIsOutNext == (\A c : Due(c) <=> asked[c] \in Out(c))'
  BY DueIsOut, PTL

-----------------------------------------------------------------------------
(* Steps of the service *)

\* The call of d is where it was.
Stays(d) == /\ Stage(d)' = Stage(d)
            /\ Turn(d)' = Turn(d)
            /\ Yields(d)' = Yields(d)

LEMMA AllStay ==
  ASSUME \A d \in Clients : Stays(d)
  PROVE  CallStep
  <1> SUFFICES ASSUME Honest, Honest' PROVE UNCHANGED CS!svars
    BY DEF CallStep
  <1>1. \A d \in Clients : Got(d)' = Got(d)
    BY DEF Stays, Honest
  <1> QED
    BY <1>1 DEF Stays, Turn, Got, CS!svars

\* The ways in which the call of c moves on.
CallMoves(c) ==
  \/ Stays(c)
  \/ /\ \/ Stage(c) = "away" /\ Stage(c)' = "ready"
        \/ Stage(c) = "ready" /\ Stage(c)' = "asking"
        \/ Stage(c) = "asking" /\ Stage(c)' = "refused"
        \/ Stage(c) \in {"answered", "refused"} /\ Stage(c)' = "ready"
     /\ Turn(c)' = Turn(c)
  \/ /\ Stage(c) = "asking" /\ Stage(c)' = "waiting"
     /\ Turn(c)' \in 1 .. MaxFrames
     /\ \A d \in Clients : Turn(d) < Turn(c)'
  \/ /\ \/ Stage(c) = "waiting" /\ Stage(c)' = "answered"
        \/ Stage(c) = "gaveup" /\ Stage(c)' = "gaveup"
     /\ Turn(c) # 0 /\ Turn(c)' = 0
     /\ Stage(c)' = "answered" => Yields(c)' = Turn(c)
     /\ \A d \in Clients : Turn(d) # 0 => Turn(c) <= Turn(d)
  \/ /\ Stage(c) = "waiting" /\ Stage(c)' = "gaveup"
     /\ Turn(c)' \in {0, Turn(c)}
  \/ /\ Stage(c) \in {"ready", "gaveup"} /\ Stage(c)' = "away"
     /\ Turn(c)' = 0

LEMMA OneMoves ==
  ASSUME NEW c \in Clients, \A d \in Clients : d # c => Stays(d), CallMoves(c)
  PROVE  CallStep
  <1> DEFINE st == [d \in Clients |-> Stage(d)]
             tn == [d \in Clients |-> Turn(d)]
             an == [d \in Clients |-> Got(d)]
  <1> SUFFICES ASSUME Honest, Honest' PROVE [CS!SNext]_(CS!svars)
    BY DEF CallStep
  <1>1. /\ st' = [st EXCEPT ![c] = Stage(c)'] /\ tn' = [tn EXCEPT ![c] = Turn(c)']
        /\ \A d \in Clients : st[d] = Stage(d) /\ tn[d] = Turn(d)
    BY DEF Stays
  <1>2. Turn(c)' = Turn(c) => tn' = tn
    BY DEF Stays
  <1>3. ASSUME NEW from, NEW to, Stage(c) \in from, Stage(c)' = to
        PROVE  CS!Moves(c, from, to)
    BY <1>1, <1>3 DEF CS!Moves
  <1>4. an' = [an EXCEPT ![c] = Yields(c)']
    BY DEF Stays, Honest
  <1>5. Stage(c) # "answered" /\ Stage(c)' # "answered" => an' = an
    <2>1. ASSUME Stage(c) # "answered", Stage(c)' # "answered"
          PROVE  Got(c)' = Got(c)
      BY <2>1 DEF Got
    <2>2. \A d \in Clients : d # c => Got(d)' = Got(d)
      BY DEF Stays, Honest
    <2> QED
      BY <2>1, <2>2
  <1>6. CASE Stays(c)
    <2>1. CallStep
      BY <1>6, AllStay
    <2> QED
      BY <2>1 DEF CallStep
  <1>7. CASE /\ \/ Stage(c) = "away" /\ Stage(c)' = "ready"
                \/ Stage(c) = "ready" /\ Stage(c)' = "asking"
                \/ Stage(c) = "asking" /\ Stage(c)' = "refused"
                \/ Stage(c) \in {"answered", "refused"} /\ Stage(c)' = "ready"
             /\ Turn(c)' = Turn(c)
    <2>1. tn' = tn
      BY <1>2, <1>7
    <2>2. CASE Stage(c) \in {"answered", "refused"}
      <3>1. CS!Moves(c, {"answered", "refused"}, "ready") /\ Yields(c)' = 0
        BY <1>3, <1>7, <2>2 DEF Yields
      <3>2. CS!Return(c)
        BY <1>4, <2>1, <3>1 DEF CS!Return, Turn, Got
      <3> QED
        BY <3>2 DEF CS!SNext
    <2>3. CASE Stage(c) \notin {"answered", "refused"}
      <3>1. an' = an
        BY <1>5, <1>7, <2>3
      <3>2. CS!Connect(c) \/ CS!Ask(c) \/ CS!Refuse(c)
        BY <1>3, <1>7, <2>1, <2>3, <3>1
           DEF CS!Connect, CS!Ask, CS!Refuse, Turn, Got
      <3> QED
        BY <3>2 DEF CS!SNext
    <2> QED
      BY <2>2, <2>3
  <1>8. CASE /\ Stage(c) = "asking" /\ Stage(c)' = "waiting"
             /\ Turn(c)' \in 1 .. MaxFrames
             /\ \A d \in Clients : Turn(d) < Turn(c)'
    <2>1. CS!Moves(c, {"asking"}, "waiting") /\ an' = an
      BY <1>3, <1>5, <1>8
    <2>2. PICK n \in 1 .. MaxFrames :
            n = Turn(c)' /\ \A d \in Clients : tn[d] < n
      BY <1>1, <1>8
    <2>3. tn' = [tn EXCEPT ![c] = n]
      BY <1>1, <2>2
    <2>4. CS!Accept(c)
      BY <2>1, <2>2, <2>3 DEF CS!Accept, Turn, Got
    <2> QED
      BY <2>4 DEF CS!SNext
  <1>9. CASE /\ \/ Stage(c) = "waiting" /\ Stage(c)' = "answered"
                \/ Stage(c) = "gaveup" /\ Stage(c)' = "gaveup"
             /\ Turn(c) # 0 /\ Turn(c)' = 0
             /\ Stage(c)' = "answered" => Yields(c)' = Turn(c)
             /\ \A d \in Clients : Turn(d) # 0 => Turn(c) <= Turn(d)
    <2>1. \/ /\ CS!Moves(c, {"waiting"}, "answered")
             /\ an' = [an EXCEPT ![c] = tn[c]]
          \/ CS!Moves(c, {"gaveup"}, "gaveup") /\ an' = an
      <3>1. CASE Stage(c)' = "answered"
        <4>1. CS!Moves(c, {"waiting"}, "answered")
          BY <1>3, <1>9, <3>1
        <4>2. an' = [an EXCEPT ![c] = tn[c]]
          BY <1>1, <1>4, <1>9, <3>1
        <4> QED
          BY <4>1, <4>2
      <3>2. CASE Stage(c)' # "answered"
        BY <1>3, <1>5, <1>9, <3>2
      <3> QED
        BY <3>1, <3>2
    <2>2. CS!Answer(c)
      BY <1>1, <1>9, <2>1 DEF CS!Answer, Turn, Got
    <2> QED
      BY <2>2 DEF CS!SNext
  <1>10. CASE /\ Stage(c) = "waiting" /\ Stage(c)' = "gaveup"
              /\ Turn(c)' \in {0, Turn(c)}
    <2>1. tn' = tn \/ tn' = [tn EXCEPT ![c] = 0]
      BY <1>1, <1>2, <1>10
    <2>2. CS!Moves(c, {"waiting"}, "gaveup") /\ an' = an
      BY <1>3, <1>5, <1>10
    <2>3. CS!GiveUp(c)
      BY <2>1, <2>2 DEF CS!GiveUp, Turn, Got
    <2> QED
      BY <2>3 DEF CS!SNext
  <1>11. CASE /\ Stage(c) \in {"ready", "gaveup"} /\ Stage(c)' = "away"
              /\ Turn(c)' = 0
    <2>1. CS!Moves(c, {"ready", "gaveup"}, "away") /\ an' = an
      BY <1>3, <1>5, <1>11
    <2>2. tn' = [tn EXCEPT ![c] = 0]
      BY <1>1, <1>11
    <2>3. CS!Leave(c)
      BY <2>1, <2>2 DEF CS!Leave, Turn, Got
    <2> QED
      BY <2>3 DEF CS!SNext
  <1> QED
    BY <1>6, <1>7, <1>8, <1>9, <1>10, <1>11 DEF CallMoves

-----------------------------------------------------------------------------
(* What steps of the transmit side do to the turns, exactly *)

\* A frame without an answer is nobody's: the one if_tx works on as well.
CurrentClassified ==
  txFrame # NoFrame => (txFrame.addr = "ack" => txFrame.tag = NoTag)

LEMMA NextCurrentClassified ==
  IInv /\ CurrentClassified /\ [Next]_vars => CurrentClassified'
  <1> SUFFICES ASSUME IInv, CurrentClassified, [Next]_vars
               PROVE  CurrentClassified'
    OBVIOUS
  <1>1. ASSUME txFrame' \in {txFrame, NoFrame} PROVE CurrentClassified'
    BY <1>1 DEF CurrentClassified
  <1>2. ASSUME NEW f, TakeFrame(f), txFrame' \in {f, NoFrame}
        PROVE  CurrentClassified'
    <2>1. CASE txFrame = NoFrame
      <3>1. f \in Queued
        BY <1>2, <2>1 DEF TakeFrame, TxqNext, Queued
      <3> QED
        BY <1>2, <3>1, ConstantsAssumption
           DEF IInv, Classified, Queued, CurrentClassified
    <2>2. CASE txFrame # NoFrame
      BY <1>1, <1>2, <2>2 DEF TakeFrame
    <2> QED
      BY <2>1, <2>2
  <1>3. CASE IfTx
    BY <1>1, <1>2, <1>3
       DEF IfTx, IfTxIdle, IfTxPartial, IfTxNoResponse, IfTxSent, frameVars
  <1>4. CASE ~IfTx
    <2>1. txFrame' \in {txFrame, NoFrame}
      BY <1>4 DEF Next, TxTimeout, RxAnswer, RxUnsolicitedAck, RxAck, RxAckAborts,
           RxNote, Lose, ClientConnect, ClientTx, ClientTimeout, ClientDeath,
           frameVars, vars
    <2> QED
      BY <1>1, <2>1
  <1> QED
    BY <1>3, <1>4

\* if_tx ends no frame of a client.
LEMMA IfTxOut ==
  ASSUME IInv, CurrentClassified, IfTx, NEW d \in Clients
  PROVE  Out(d)' = Out(d)
  <1>1. ASSUME Live' = Live PROVE Out(d)' = Out(d)
    BY <1>1 DEF Out
  <1>2. CASE IfTxIdle
    <2>1. Live' = Live
      BY <1>2 DEF IfTxIdle, Live, Queued, Delivers, queueVars, frameVars
    <2> QED
      BY <1>1, <2>1
  <1>3. ASSUME NEW f, TakeFrame(f), txFrame' = f PROVE Out(d)' = Out(d)
    <2>1. Live' = Live
      BY <1>3, TakeFrameLive, ConstantsAssumption DEF Live, Delivers
    <2> QED
      BY <1>1, <2>1
  <1>4. ASSUME NEW f, IfTxNoResponse(f) PROVE Out(d)' = Out(d)
    <2>1. TakeFrame(f) /\ Live' = Queued' /\ NoResponse(f)
      BY <1>4 DEF IfTxNoResponse, Live, Delivers
    <2>2. f.tag = NoTag
      <3>1. CASE txFrame = NoFrame
        <4>1. f \in Queued
          BY <2>1, <3>1 DEF TakeFrame, TxqNext, Queued
        <4> QED
          BY <2>1, <4>1, ConstantsAssumption
             DEF NoResponse, IInv, Classified, Queued
      <3>2. CASE txFrame # NoFrame
        BY <2>1, <3>2 DEF TakeFrame, NoResponse, CurrentClassified
      <3> QED
        BY <3>1, <3>2
    <2>3. Live' \subseteq Live /\ \A g \in Live : g \in Live' \/ g = f
      BY <2>1, TakeFrameLive
    <2> QED
      BY <2>2, <2>3, ConstantsAssumption DEF Out
  <1> QED
    BY <1>2, <1>3, <1>4 DEF IfTx, IfTxPartial, IfTxSent

LEMMA PushOutExact ==
  ASSUME IInv, NEW pri \in 0 .. 1, NEW tag, NEW sess, NEW addr,
         TxqPush(pri, tag, sess, addr), UNCHANGED frameVars
  PROVE  /\ \A d : d # tag => Out(d)' = Out(d)
         /\ allocs + 1 \in Out(tag)'
  <1> DEFINE new == [id |-> allocs + 1, tag |-> tag, session |-> sess,
                     addr |-> addr]
  <1>1. Live' = Live \cup {new}
    BY TxqPushLive
  <1>2. new.tag = tag /\ new.id = allocs + 1
    OBVIOUS
  <1> HIDE DEF new
  <1> QED
    BY <1>1, <1>2 DEF Out

LEMMA CancelOutExact ==
  ASSUME IInv, NEW c \in Clients, TxqCancel(c), UNCHANGED txFrame
  PROVE  /\ Out(c)' = {}
         /\ \A d : d # c => Out(d)' = Out(d)
  <1>1. Live' = {f \in Live : f.tag # c}
    BY TxqCancelLive
  <1> QED
    BY <1>1 DEF Out

\* The frame an answer retires is the oldest of all the clients'.
LEMMA AckOutExact ==
  ASSUME IInv, NEW n \in FrameIds, RxAck(n), Delivers
  PROVE  /\ \A d : d # txFrame.tag => Out(d)' = Out(d)
         /\ \A d \in Clients : \A m \in Out(d) : txFrame.id <= m
  <1>1. Live' = Queued /\ Live = Queued \cup {txFrame} /\ txFrame \in Frame
    BY DEF RxAck, Live, Queued, Delivers, IInv, TypeOK
  <1>2. \A d : d # txFrame.tag => Out(d)' = Out(d)
    BY <1>1 DEF Out
  <1>3. ASSUME NEW d \in Clients, NEW m \in Out(d) PROVE txFrame.id <= m
    <2>1. PICK g \in Live : g.tag = d /\ g.id = m
      BY <1>3 DEF Out
    <2>2. txFrame.tag # NoTag /\ d # NoTag
      BY ConstantsAssumption DEF RxAck
    <2>3. Older(txFrame, Queued)
      BY DEF IInv, Ordered
    <2>4. txFrame.id \in Nat /\ m \in Nat
      BY <1>1, <2>1, LiveFrames DEF Frame, FrameIds
    <2>5. CASE g = txFrame
      BY <2>1, <2>4, <2>5
    <2>6. CASE g \in Queued
      BY <2>1, <2>2, <2>3, <2>4, <2>6 DEF Older
    <2> QED
      BY <1>1, <2>5, <2>6
  <1> QED
    BY <1>2, <1>3

\* A frame about to be pushed gets a number beyond all those out.
LEMMA OutNumbered ==
  ASSUME IInv, NEW d, NEW m \in Out(d)
  PROVE  m \in 1 .. allocs
  <1>1. PICK g \in Live : g.id = m
    BY DEF Out
  <1> QED
    BY <1>1 DEF Live, Delivers, IInv, Numbered, FramesOwnedOnce

LEMMA TurnOfOut ==
  ASSUME NEW d
  PROVE  Turn(d) = IF asked[d] \in Out(d) THEN asked[d] ELSE 0
  BY DueIsOut DEF Turn

LEMMA TurnOfOutNext ==
  ASSUME NEW d
  PROVE  Turn(d)' = IF asked'[d] \in Out(d)' THEN asked'[d] ELSE 0
  BY DueIsOutNext DEF Turn

\* Nothing of d changes, and none of its frames ends.
LEMMA UntouchedStays ==
  ASSUME NEW d, Same(d), conn'[d] = conn[d], Out(d)' = Out(d)
  PROVE  Stays(d)
  <1>1. Turn(d)' = Turn(d)
    BY TurnOfOut, TurnOfOutNext DEF Same
  <1>2. \A k : Written(d, k)' <=> Written(d, k)
    BY DEF Written, Same
  <1>3. Stage(d)' = Stage(d)
    BY <1>2 DEF Stage, Same
  <1>4. Yields(d)' = Yields(d)
    BY <1>3 DEF Yields, Same
  <1> QED
    BY <1>1, <1>3, <1>4 DEF Stays
-----------------------------------------------------------------------------
(* One lemma per group of actions, as in IpcCleanProofs *)

\* Steps of the transmit side alone.
LEMMA TransmitService ==
  ASSUME UNCHANGED <<ipcVars, clientVars>>,
         \A d \in Clients : Out(d)' = Out(d)
  PROVE  CallStep
  <1> SUFFICES ASSUME NEW d \in Clients PROVE Stays(d)
    BY AllStay
  <1>1. Same(d) /\ conn'[d] = conn[d]
    BY DEF Same, ipcVars, clientVars, TimersOf
  <1> QED
    BY <1>1, UntouchedStays

\* A call whose frame stays out, or not, as it was.
LEMMA StaysStaged ==
  ASSUME NEW c, asked'[c] = asked[c], Out(c)' = Out(c), Stage(c)' = Stage(c)
  PROVE  Stays(c)
  BY TurnOfOut, TurnOfOutNext DEF Stays, Yields

LEMMA CallsService ==
  ASSUME CleanClients, IpcInv, CleanInv, NEW c \in Clients,
         CallTx(c) \/ CallPoll(c) \/ CallReturns(c)
  PROVE  CallStep
  <1>1. UNCHANGED <<vars, rxq, rxPing, rxTimer, timers, asked>> /\ conn[c]
    BY DEF CallTx, CallPoll, CallReturns
  <1>2. Live' = Live
    BY <1>1 DEF Live, Queued, Delivers, vars
  <1>3. /\ \A e : Out(e)' = Out(e)
        /\ \A e : TimersOf(e)' = TimersOf(e)
    BY <1>1, <1>2 DEF Out, TimersOf
  <1>4. conn' = conn /\ session' = session
    BY <1>1 DEF vars
  <1>5. ASSUME NEW d \in Clients, d # c PROVE Stays(d)
    <2>1. Same(d)
      BY <1>1, <1>3, <1>4, <1>5
         DEF Same, CallTx, CallPoll, CallReturns, IpcInv, CallTypeOK, PollTypeOK
    <2> QED
      BY <1>3, <1>4, <2>1, UntouchedStays
  <1>6. Clean(c) /\ Staged(c) /\ Staged(c)' /\ Turn(c)' = Turn(c)
    BY <1>1, <1>3, StagedAlways, StagedNext, TurnOfOut, TurnOfOutNext
       DEF CleanInv
  <1>7. /\ call \in [Clients -> {"idle", "tx", "sent", "poll", "failed", "lost"}]
        /\ cmd \in [Clients -> {"none", "tx", "poll"}]
        /\ socket \in [Clients -> Seq(Reply)]
    BY DEF IpcInv, CallTypeOK, PollTypeOK
  <1>8. Stage(c)' = Stage(c) => CallMoves(c)
    BY <1>1, <1>6 DEF Stays, Yields, CallMoves
  <1>9. CASE CallTx(c)
    <2>1. Stage(c) = "ready"
      BY <1>1, <1>6, <1>9 DEF CallTx, Staged
    <2>2. call'[c] = "tx" /\ cmd'[c] = "tx" /\ conn'[c]
      BY <1>1, <1>4, <1>7, <1>9 DEF CallTx
    <2>3. Stage(c)' = "asking"
      BY <2>2 DEF Stage
    <2>4. CallMoves(c)
      BY <1>6, <2>1, <2>3 DEF CallMoves
    <2> QED
      BY <1>5, <2>4, OneMoves
  <1>10. CASE CallPoll(c)
    <2>1. Sent(c)
      BY <1>6, <1>10, CleanClients DEF CallPoll, WhenSent, Clean, Unblocked, Blocked, Resting, Sending,
           Refused, Accepted, Polling, Answered, TimedOut, GivenUp, At
    <2>2. Open(c) /\ Open(c)'
      BY <1>7, <1>10, <2>1 DEF CallPoll, Sent, Open, At
    <2>3. Stage(c)' = Stage(c)
      BY <1>1, <1>4, <1>6, <2>2 DEF Staged
    <2> QED
      BY <1>5, <1>8, <2>3, OneMoves
  <1>11. CASE CallReturns(c)
    <2> DEFINE r == Head(socket[c])
    <2>1. /\ call'[c] = AfterReply(call[c], r) /\ cmd'[c] = cmd[c] /\ conn'[c]
          /\ socket[c] # <<>> /\ call[c] \in {"tx", "poll"}
      BY <1>1, <1>4, <1>7, <1>11 DEF CallReturns
    <2>2. ASSUME NEW q, socket[c] = <<q>>
          PROVE  r = q /\ socket'[c] = <<>>
      BY <1>7, <1>11, <2>2 DEF CallReturns
    <2>3. Refused(c) \/ Accepted(c) \/ Answered(c) \/ TimedOut(c)
      BY <1>6, <2>1 DEF Clean, Unblocked, Blocked, Resting, Sending, Sent,
           Polling, GivenUp, At
    <2> HIDE DEF r
    <2>4. CASE Refused(c) \/ Answered(c)
      <3>1. Stage(c) \in {"refused", "answered"}
        BY <1>1, <1>6, <2>4 DEF Refused, Answered, Staged
      <3>2. call'[c] = "idle"
        <4>1. CASE Refused(c)
          BY <2>1, <2>2, <4>1 DEF Refused, At, AfterReply, Status
        <4>2. CASE Answered(c)
          <5>1. PICK n \in Fitting(c) : At(c, "poll", "none", <<Rx(n)>>)
            BY <4>2 DEF Answered
          <5> QED
            BY <2>1, <2>2, <5>1 DEF At, AfterReply, Rx
        <4> QED
          BY <2>4, <4>1, <4>2
      <3>3. Stage(c)' = "ready"
        BY <1>6, <2>1, <3>2 DEF Staged
      <3>4. CallMoves(c)
        BY <1>6, <3>1, <3>3 DEF CallMoves
      <3> QED
        BY <1>5, <3>4, OneMoves
    <2>5. CASE Accepted(c)
      <3>1. r = Status("ok") /\ socket'[c] = <<>> /\ call'[c] = "sent"
        BY <2>1, <2>2, <2>5, CleanClients
           DEF Accepted, At, AfterReply, WhenSent, Status
      <3>2. Open(c) /\ Open(c)'
        BY <2>1, <2>5, <3>1 DEF Accepted, Open, At
      <3>3. Stage(c)' = Stage(c)
        BY <1>1, <1>4, <1>6, <3>2 DEF Staged
      <3> QED
        BY <1>5, <1>8, <3>3, OneMoves
    <2>6. CASE TimedOut(c)
      <3>1. r = Status("timeout") /\ socket'[c] = <<>> /\ call'[c] = "failed"
        BY <2>1, <2>2, <2>6, CleanClients DEF TimedOut, At, AfterReply, Status
      <3>2. Over(c) /\ Over(c)'
        BY <2>1, <2>6, <3>1 DEF TimedOut, Over, At
      <3>3. Stage(c)' = Stage(c)
        BY <1>1, <1>4, <1>6, <3>2 DEF Staged
      <3> QED
        BY <1>5, <1>8, <3>3, OneMoves
    <2> QED
      BY <2>3, <2>4, <2>5, <2>6
  <1> QED
    BY <1>9, <1>10, <1>11

LEMMA ConnectionsService ==
  ASSUME CleanClients, IInv, IpcInv, CleanInv, NEW c \in Clients,
         IpcNew(c) \/ IpcClientDeath(c)
  PROVE  CallStep
  <1>1. \A e : TimersOf(e)' = TimersOf(e)
    BY DEF IpcNew, IpcClientDeath, ipcVars, TimersOf
  <1>2. Staged(c) /\ Staged(c)' /\ Clean(c)
    BY StagedAlways, StagedNext DEF CleanInv
  <1>3. CASE IpcNew(c)
    <2>1. /\ UNCHANGED ipcVars /\ Live' = Live /\ ~conn[c]
          /\ conn' = [conn EXCEPT ![c] = TRUE]
          /\ session' = [session EXCEPT ![c] = @ + 1]
          /\ conn \in [Clients -> BOOLEAN]
          /\ session \in [Clients -> 0 .. MaxSessions]
      BY <1>3 DEF IpcNew, ClientConnect, queueVars, frameVars, Live, Queued,
                  Delivers, IInv, TypeOK
    <2>2. \A e : Out(e)' = Out(e)
      BY <2>1 DEF Out
    <2>3. ASSUME NEW d \in Clients, d # c PROVE Stays(d)
      <3>1. Same(d) /\ conn'[d] = conn[d]
        BY <1>1, <2>1, <2>3 DEF Same, ipcVars
      <3> QED
        BY <2>2, <3>1, UntouchedStays
    <2>4. Stage(c) = "away" /\ Stage(c)' = "ready"
      BY <1>2, <2>1 DEF Staged, Clean, Resting, At, ipcVars
    <2>5. Turn(c)' = Turn(c)
      BY <2>1, <2>2, TurnOfOut, TurnOfOutNext DEF ipcVars
    <2>6. CallMoves(c)
      BY <2>4, <2>5 DEF CallMoves
    <2> QED
      BY <2>3, <2>6, OneMoves
  <1>4. CASE IpcClientDeath(c)
    <2>1. /\ Forget(c) /\ session' = session /\ conn[c]
          /\ conn' = [conn EXCEPT ![c] = FALSE]
          /\ conn \in [Clients -> BOOLEAN] /\ call[c] \in {"idle", "failed"}
      BY <1>4, CleanClients DEF IpcClientDeath, ClientDeath, IInv, TypeOK
    <2>2. Out(c)' = {} /\ \A e : e # c => Out(e)' = Out(e)
      BY <1>4, CancelOutExact DEF IpcClientDeath, ClientDeath
    <2>3. ASSUME NEW d \in Clients, d # c PROVE Stays(d)
      <3>1. Same(d) /\ conn'[d] = conn[d]
        BY <1>1, <2>1, <2>3 DEF Same, Forget, IpcInv, CallTypeOK, PollTypeOK
      <3> QED
        BY <2>2, <2>3, <3>1, UntouchedStays
    <2>4. Resting(c) \/ GivenUp(c)
      BY <1>2, <2>1 DEF Clean, Unblocked, Blocked, Resting, Sending, Sent, Refused,
           Accepted, Polling, Answered, TimedOut, GivenUp, At
    <2>5. Stage(c) \in {"ready", "gaveup"} /\ Stage(c)' = "away"
      BY <1>2, <2>1, <2>4 DEF Staged, Resting, GivenUp, Over, At
    <2>6. Turn(c)' = 0
      BY <2>2, TurnOfOutNext
    <2>7. CallMoves(c)
      BY <2>5, <2>6 DEF CallMoves
    <2> QED
      BY <2>3, <2>7, OneMoves
  <1> QED
    BY <1>3, <1>4
LEMMA HandleService ==
  ASSUME IInv, IpcInv, CleanInv, NEW c \in Clients, Handle(c)
  PROVE  CallStep
  <1>1. /\ conn[c] /\ cmd[c] # "none" /\ cmd' = [cmd EXCEPT ![c] = "none"]
        /\ call' = call /\ conn' = conn /\ session' = session
        /\ cmd[c] = IF HandleTx(c) \/ HandleTxBadAddr(c) THEN "tx" ELSE "poll"
    BY DEF Handle, HandleTx, HandleTxBadAddr, HandlePollRxNow, HandlePollRxZero,
           HandlePollRxForever, HandlePollRxTimed, Takes, ClientTx, clientVars,
           vars
  <1>2. /\ cmd \in [Clients -> {"none", "tx", "poll"}]
        /\ asked \in [Clients -> 0 .. MaxFrames]
        /\ socket \in [Clients -> Seq(Reply)] /\ rxq \in [Clients -> Seq(FrameIds)]
        /\ rxPing \in [Clients -> BOOLEAN]
        /\ rxTimer \in [Clients -> 0 .. MaxTimers]
    BY DEF IpcInv, CallTypeOK, PollTypeOK
  <1>3. /\ \A e : e # c => Out(e)' = Out(e)
        /\ ~HandleTx(c) => Out(c)' = Out(c)
        /\ HandleTx(c) => allocs + 1 \in Out(c)'
    <2>1. CASE HandleTx(c)
      BY <2>1, PushOutExact DEF HandleTx, ClientTx
    <2>2. CASE ~HandleTx(c)
      <3>1. Live' = Live
        BY <2>2 DEF Handle, HandleTxBadAddr, HandlePollRxNow, HandlePollRxZero,
                    HandlePollRxForever, HandlePollRxTimed, vars, Live, Queued,
                    Delivers
      <3> QED
        BY <2>2, <3>1 DEF Out
    <2> QED
      BY <2>1, <2>2
  <1>4. ASSUME NEW d \in Clients, d # c PROVE Stays(d)
    <2>1. TimersOf(d)' = TimersOf(d)
      BY <1>4 DEF Handle, HandleTx, HandleTxBadAddr, HandlePollRxNow,
           HandlePollRxZero, HandlePollRxForever, HandlePollRxTimed, TimersOf
    <2>2. /\ socket'[d] = socket[d] /\ rxq'[d] = rxq[d] /\ asked'[d] = asked[d]
          /\ rxPing'[d] = rxPing[d] /\ rxTimer'[d] = rxTimer[d]
      BY <1>2, <1>4
         DEF Handle, HandleTx, HandleTxBadAddr, HandlePollRxNow,
             HandlePollRxZero, HandlePollRxForever, HandlePollRxTimed,
             WriteReply
    <2>3. Same(d) /\ conn'[d] = conn[d]
      BY <1>1, <1>2, <1>4, <2>1, <2>2 DEF Same
    <2> QED
      BY <1>3, <1>4, <2>3, UntouchedStays
  <1>5. Clean(c) /\ Staged(c) /\ Staged(c)' /\ conn'[c] /\ cmd'[c] = "none"
    BY <1>1, <1>2, StagedAlways, StagedNext DEF CleanInv
  <1>6. /\ Sending(c) \/ Polling(c)
        /\ socket[c] = <<>>
    BY <1>1, <1>5 DEF Clean, Unblocked, Blocked, Resting, Refused, Accepted,
         Sent, Sending, Polling, Answered, TimedOut, GivenUp, At
  <1>7. ASSUME NEW r, WriteReply(c, r)
        PROVE  socket'[c] = <<r>>
    BY <1>2, <1>6, <1>7 DEF WriteReply
  <1>8. CASE HandleTx(c)
    <2>1. Sending(c) /\ rxq[c] = <<>> /\ rxq' = rxq
      BY <1>1, <1>6, <1>8 DEF HandleTx, Sending, Polling, At, NothingDue
    <2>2. socket'[c] = <<Status("ok")>> /\ asked'[c] = allocs + 1
      BY <1>2, <1>7, <1>8 DEF HandleTx
    <2>3. Stage(c) = "asking"
      BY <1>1, <1>5, <2>1 DEF Staged, Sending
    <2>4. Open(c)'
      BY <1>1, <1>5, <2>1, <2>2 DEF Open, At, Sending
    <2>5. Stage(c)' = "waiting"
      BY <1>5, <2>1, <2>4 DEF Staged
    <2>6. Turn(c)' = allocs + 1
      BY <1>3, <1>8, <2>2, TurnOfOutNext
    <2>7. allocs \in Nat /\ allocs < MaxFrames /\ MaxFrames \in Nat
      BY <1>8, ConstantsAssumption DEF HandleTx, ClientTx, TxqPush, IInv, TypeOK
    <2>8. ASSUME NEW d \in Clients PROVE Turn(d) < allocs + 1
      BY <2>7, TurnOfOut, OutNumbered
    <2>9. CallMoves(c)
      BY <2>3, <2>5, <2>6, <2>7, <2>8 DEF CallMoves
    <2> QED
      BY <1>4, <2>9, OneMoves
  <1>9. CASE ~HandleTx(c)
    <2>1. Turn(c)' = Turn(c)
      <3>1. asked' = asked
        BY <1>9 DEF Handle, HandleTxBadAddr, HandlePollRxNow, HandlePollRxZero,
                    HandlePollRxForever, HandlePollRxTimed
      <3> QED
        BY <1>3, <1>9, <3>1, TurnOfOut, TurnOfOutNext
    <2>2. CASE HandleTxBadAddr(c)
      <3>1. Sending(c)
        BY <1>1, <1>6, <2>2 DEF Polling, At
      <3>2. Stage(c) = "asking"
        BY <1>1, <1>5, <3>1 DEF Staged, Sending
      <3>3. At(c, "tx", "none", <<Status("badaddr")>>)'
        BY <1>1, <1>5, <1>7, <2>2, <3>1 DEF HandleTxBadAddr, Sending, At
      <3>4. Stage(c)' = "refused"
        BY <1>5, <3>3 DEF Staged
      <3>5. CallMoves(c)
        BY <2>1, <3>2, <3>4 DEF CallMoves
      <3> QED
        BY <1>4, <3>5, OneMoves
    <2>3. CASE ~HandleTxBadAddr(c)
      <3>1. Polling(c) /\ Open(c)
        BY <1>1, <1>6, <1>9, <2>3 DEF Sending, Polling, Open, At
      <3>2. Stage(c) = IF rxq[c] = <<>> THEN "waiting" ELSE "answered"
        BY <1>1, <1>5, <3>1 DEF Staged
      <3>3. CASE HandlePollRxNow(c)
        <4>1. PICK n : rxq[c] # <<>> /\ rxq[c] = <<n>>
          BY <1>5, <3>3 DEF HandlePollRxNow, Clean, OneDue
        <4>2. Head(<<n>>) = n
          OBVIOUS
        <4>3. socket'[c] = <<Rx(n)>> /\ asked' = asked
          BY <1>7, <3>3, <4>1, <4>2 DEF HandlePollRxNow
        <4>4. At(c, "poll", "none", <<Rx(n)>>)'
          BY <1>1, <1>5, <3>1, <4>3 DEF Polling, At, Rx
        <4>5. Stage(c)' = Stage(c)
          BY <1>5, <3>2, <4>1, <4>4 DEF Staged
        <4> QED
          BY <1>4, <2>1, <4>3, <4>5, AllStay DEF Stays, Yields
      <3>4. CASE HandlePollRxZero(c)
        <4>1. Over(c)' /\ rxq[c] = <<>>
          BY <1>1, <1>5, <1>7, <3>1, <3>4 DEF HandlePollRxZero, Polling, Over, At
        <4>2. Stage(c) = "waiting" /\ Stage(c)' = "gaveup"
          BY <1>5, <3>2, <4>1 DEF Staged
        <4>3. CallMoves(c)
          BY <2>1, <4>2 DEF CallMoves
        <4> QED
          BY <1>4, <4>3, OneMoves
      <3>5. CASE HandlePollRxForever(c) \/ HandlePollRxTimed(c)
        <4>1. UNCHANGED <<socket, rxq, asked>>
          BY <3>5 DEF HandlePollRxForever, HandlePollRxTimed
        <4>2. Open(c)'
          BY <1>1, <1>5, <3>1, <4>1 DEF Polling, Open, At
        <4>3. Stage(c)' = Stage(c)
          BY <1>5, <3>2, <4>1, <4>2 DEF Staged
        <4> QED
          BY <1>4, <2>1, <4>1, <4>3, AllStay DEF Stays, Yields
      <3> QED
        BY <1>9, <2>3, <3>3, <3>4, <3>5 DEF Handle
    <2> QED
      BY <2>2, <2>3
  <1> QED
    BY <1>8, <1>9

LEMMA TimersService ==
  ASSUME IInv, IpcInv, CleanInv, NEW t \in timers,
         PollTimeout(t) \/ PollTimeoutOfDead(t)
  PROVE  CallStep
  <1> DEFINE c == t.client
  <1>1. c \in Clients /\ t \in TimersOf(c)
    BY DEF IpcInv, PollTypeOK, Timer, TimersOf
  <1>2. Blocked(c) /\ conn[c]
    BY <1>1 DEF CleanInv, Clean, Unarmed, Blocked, Resting, At
  <1>3. /\ timers' = timers \ {t} /\ ClientTimeout(c)
        /\ WriteReply(c, Status("timeout")) /\ rxTimer' = [rxTimer EXCEPT ![c] = 0]
        /\ UNCHANGED <<call, cmd, rxq, rxPing, asked>>
    BY <1>2 DEF PollTimeout, PollTimeoutOfDead
  <1>4. /\ socket \in [Clients -> Seq(Reply)]
        /\ rxTimer \in [Clients -> 0 .. MaxTimers]
    BY DEF IpcInv, PollTypeOK
  <1>5. Out(c)' = {} /\ \A e : e # c => Out(e)' = Out(e)
    BY <1>1, <1>3, CancelOutExact DEF ClientTimeout
  <1>6. conn' = conn /\ session' = session
    BY <1>3 DEF ClientTimeout, clientVars
  <1> HIDE DEF c
  <1>7. ASSUME NEW d \in Clients, d # c PROVE Stays(d)
    <2>1. TimersOf(d)' = TimersOf(d)
      BY <1>1, <1>3, <1>7 DEF TimersOf
    <2>2. Same(d) /\ conn'[d] = conn[d]
      BY <1>1, <1>3, <1>4, <1>6, <1>7, <2>1 DEF Same, WriteReply
    <2> QED
      BY <1>5, <1>7, <2>2, UntouchedStays
  <1>8. rxq[c] = <<>> /\ socket[c] = <<>>
    BY <1>1, <1>2 DEF Blocked, At, IpcInv, Polls, NoAnswerOverlooked
  <1>9. socket'[c] = <<Status("timeout")>>
    BY <1>1, <1>3, <1>4, <1>8 DEF WriteReply
  <1>10. Open(c) /\ Over(c)'
    BY <1>2, <1>3, <1>9 DEF Blocked, Open, Over, At
  <1>11. Stage(c) = "waiting" /\ Stage(c)' = "gaveup"
    BY <1>2, <1>6, <1>8, <1>10, StagedAlways, StagedNext DEF Staged
  <1>12. Turn(c)' = 0
    BY <1>5, TurnOfOutNext
  <1>13. CallMoves(c)
    BY <1>11, <1>12 DEF CallMoves
  <1> QED
    BY <1>1, <1>7, <1>13, OneMoves

\* An ACK delivered: it is the turn of the request it answers.
LEMMA AnswerService ==
  ASSUME TInv, IpcInv, CleanInv, NEW n \in FrameIds, IpcRxAck(n),
         NEW c, c = txFrame.tag
  PROVE  CallStep
  <1>1. /\ Delivers /\ RxAck(n) /\ UNCHANGED <<call, cmd, asked>>
        /\ PushRxQueued(c, n) \/ PushRxPing(c, n)
        /\ IInv
    BY DEF IpcRxAck, TInv
  <1>2. c \in Clients /\ conn[c]
    BY <1>1, AnswersAClient
  <1>3. conn' = conn /\ session' = session
    BY <1>1 DEF RxAck, clientVars
  <1> DEFINE m == txFrame.id
  <1>4. m # 0
    BY <1>1 DEF Delivers, IInv, TypeOK, Frame, FrameIds
  <1>5. /\ m \in Out(c) /\ m \notin Out(c)'
        /\ m = asked[c] /\ rxq[c] = <<>>
    BY <1>1, <1>2, AckOut DEF CleanInv, Clean, OneDue
  <1>6. /\ \A e : e # c => Out(e)' = Out(e)
        /\ \A e \in Clients : \A k \in Out(e) : m <= k
    BY <1>1, AckOutExact
  <1> HIDE DEF m
  <1>7. /\ socket \in [Clients -> Seq(Reply)] /\ rxq \in [Clients -> Seq(FrameIds)]
        /\ rxPing \in [Clients -> BOOLEAN]
        /\ rxTimer \in [Clients -> 0 .. MaxTimers]
    BY DEF IpcInv, PollTypeOK
  <1>8. ASSUME NEW d \in Clients, d # c PROVE Stays(d)
    <2>1. TimersOf(d)' = TimersOf(d)
      BY <1>1, <1>8 DEF PushRxQueued, PushRxPing, TimersOf
    <2>2. Same(d) /\ conn'[d] = conn[d]
      BY <1>1, <1>3, <1>7, <1>8, <2>1
         DEF Same, PushRxQueued, PushRxPing, WriteReply
    <2> QED
      BY <1>6, <1>8, <2>2, UntouchedStays
  <1>9. Turn(c) = m /\ Turn(c)' = 0
    BY <1>1, <1>5, TurnOfOut, TurnOfOutNext
  <1>10. \A d \in Clients : Turn(d) # 0 => m <= Turn(d)
    BY <1>6, TurnOfOut
  <1>11. Clean(c) /\ Staged(c) /\ Staged(c)' /\ conn'[c]
    BY <1>2, <1>3, StagedAlways, StagedNext DEF CleanInv
  <1>12. Append(<<>>, n) = <<n>> /\ Head(<<n>>) = n /\ <<n>> # <<>>
    OBVIOUS
  <1>13. \/ Stage(c) = "waiting" /\ Stage(c)' = "answered"
         \/ Stage(c) = "gaveup" /\ Stage(c)' = "gaveup"
    <2>1. CASE PushRxQueued(c, n)
      <3>1. rxq'[c] # <<>> /\ socket' = socket
        BY <1>2, <1>5, <1>7, <1>12, <2>1 DEF PushRxQueued
      <3>2. Accepted(c) \/ Sent(c) \/ Polling(c) \/ TimedOut(c) \/ GivenUp(c)
        BY <1>5, <1>11, <2>1 DEF PushRxQueued, Clean, Unblocked, Blocked, Resting,
             Sending, Refused, Answered, NothingDue
      <3>3. Open(c) \/ Over(c)
        BY <3>2 DEF Accepted, Sent, Polling, TimedOut, GivenUp, Open, Over
      <3>4. (Open(c) => Open(c)') /\ (Over(c) => Over(c)')
        BY <1>1, <3>1 DEF Open, Over, At
      <3> QED
        BY <1>2, <1>5, <1>11, <3>1, <3>3, <3>4 DEF Staged
    <2>2. CASE PushRxPing(c, n)
      <3>1. Blocked(c)
        BY <1>5, <1>11, <2>2 DEF PushRxPing, Clean, Unblocked, Resting, Sending,
             Refused, Accepted, Sent, Polling, Answered, TimedOut, GivenUp,
             NothingDue
      <3>2. socket[c] = <<>> /\ Open(c)
        BY <3>1 DEF Blocked, Open, At
      <3>3. socket'[c] = <<Rx(n)>>
        BY <1>2, <1>5, <1>7, <1>12, <2>2, <3>2 DEF PushRxPing, WriteReply
      <3>4. At(c, "poll", "none", <<Rx(n)>>)'
        BY <1>1, <3>1, <3>3 DEF Blocked, At, Rx
      <3> QED
        BY <1>2, <1>5, <1>11, <3>2, <3>4 DEF Staged
    <2> QED
      BY <1>1, <2>1, <2>2
  <1>14. Stage(c)' = "answered" => Yields(c)' = Turn(c)
    BY <1>1, <1>5, <1>9 DEF Yields
  <1>15. CallMoves(c)
    BY <1>4, <1>9, <1>10, <1>13, <1>14 DEF CallMoves
  <1> QED
    BY <1>2, <1>8, <1>15, OneMoves

-----------------------------------------------------------------------------

\* When nobody broadcasts, the answer that waits for a call is its own.
LEMMA AnswersAreHonest ==
  ASSUME NoBroadcasts, CInv
  PROVE  Honest
  <1> SUFFICES ASSUME NEW c \in Clients, Stage(c) = "answered"
               PROVE  Held(c) = asked[c]
    BY DEF Honest, Got, Yields
  <1>1. Clean(c)
    BY DEF CInv, CleanInv
  <1>2. CASE rxq[c] # <<>>
    <2>1. rxq[c] = <<asked[c]>>
      BY <1>1, <1>2 DEF Clean, OneDue, Fitting
    <2> QED
      BY <2>1 DEF Held
  <1>3. CASE rxq[c] = <<>>
    <2>1. Written(c, "rx")
      BY <1>3 DEF Stage
    <2>2. PICK n \in Fitting(c) : socket[c] = <<Rx(n)>>
      BY <1>1, <2>1 DEF Written, Clean, Unblocked, Blocked, Resting, Sending,
           Refused, Accepted, Sent, Polling, Answered, TimedOut, GivenUp, At,
           Status
    <2>3. n = asked[c] /\ n \in FrameIds
      BY <2>2 DEF Fitting
    <2>4. \A k : Rx(k) \in {socket[c][i] : i \in DOMAIN socket[c]} <=> k = n
      BY <2>2 DEF Rx
    <2> QED
      BY <1>3, <2>3, <2>4 DEF Held
  <1> QED
    BY <1>2, <1>3

LEMMA AnswersAreHonestNext ==
  ASSUME NoBroadcasts PROVE CInv' => Honest'
  BY AnswersAreHonest, PTL

LEMMA NextCallService ==
  ASSUME CleanClients, CInv, CurrentClassified, [IpcNext]_allVars
  PROVE  CallStep
  <1> USE DEF CInv, TInv
  <1>1. ASSUME UNCHANGED <<ipcVars, clientVars>>, Live' = Live
        PROVE  CallStep
    BY <1>1, TransmitService DEF Out
  <1>2. CASE UNCHANGED allVars
    <2>1. Live' = Live
      BY <1>2 DEF allVars, vars, Live, Queued, Delivers
    <2> QED
      BY <1>1, <1>2, <2>1 DEF allVars, vars, clientVars
  <1>3. CASE IfTx /\ UNCHANGED ipcVars
    BY <1>3, IfTxOut, TransmitService
       DEF IfTx, IfTxIdle, IfTxPartial, IfTxNoResponse, IfTxSent
  <1>4. CASE IpcTxTimeout
    <2>1. Live' = Live
      BY <1>4 DEF IpcTxTimeout, TxTimeout, Live, Queued, Delivers
    <2> QED
      BY <1>1, <1>4, <2>1 DEF IpcTxTimeout, TxTimeout
  <1>5. CASE RxNote /\ UNCHANGED ipcVars
    <2>1. \A d \in Clients : Out(d)' = Out(d)
      BY <1>5, PushOutExact, ConstantsAssumption DEF RxNote
    <2> QED
      BY <1>5, <2>1, TransmitService DEF RxNote
  <1>6. ASSUME NEW n \in FrameIds,
               \/ Lose(n) /\ UNCHANGED ipcVars
               \/ IpcRxAckDropped(n)
        PROVE  CallStep
    <2>1. UNCHANGED <<ipcVars, clientVars>>
      BY <1>6 DEF Lose, IpcRxAckDropped, RxUnsolicitedAck, RxAck, RxAckAborts
    <2>2. Live' = Live
      BY <1>6 DEF Lose, IpcRxAckDropped, RxUnsolicitedAck, RxAck, RxAckAborts,
                  queueVars, frameVars, Live, Queued, Delivers
    <2> QED
      BY <1>1, <2>1, <2>2
  <1>7. ASSUME NEW n \in FrameIds, IpcRxAck(n) PROVE CallStep
    BY <1>7, AnswerService
  <1>8. ASSUME NEW c \in Clients, Handle(c) PROVE CallStep
    BY <1>8, HandleService
  <1>9. ASSUME NEW c \in Clients, \/ IpcNew(c) \/ IpcClientDeath(c)
                                  \/ CallTx(c) \/ CallPoll(c) \/ CallReturns(c)
        PROVE  CallStep
    BY <1>9, CallsService, ConnectionsService
  <1>10. ASSUME NEW t \in timers, PollTimeout(t) \/ PollTimeoutOfDead(t)
         PROVE  CallStep
    BY <1>10, TimersService
  <1> QED
    BY <1>2, <1>3, <1>4, <1>5, <1>6, <1>7, <1>8, <1>9, <1>10
       DEF IpcNext, IpcAnswer

\* Whatever polls, timers, deaths and lost answers come between, sricd and
\* libsric answer the requests of well-behaved programs, none of which
\* broadcasts, in the order they were accepted, each once, and a call returns
\* its own answer, a refusal or a timeout that came first.
THEOREM CallsImplementService ==
  ASSUME CleanClients, NoBroadcasts
  PROVE  IpcSpec => CallServiceSpec
  <1>1. IpcInit => CS!SInit
    <2> SUFFICES ASSUME IpcInit PROVE CS!SInit
      OBVIOUS
    <2>1. Live = {}
      BY DEF IpcInit, Init, Live, Queued, Delivers
    <2>2. ASSUME NEW c \in Clients PROVE Stage(c) = "away" /\ ~Due(c)
      BY <2>1 DEF IpcInit, Init, Stage, Due
    <2> QED
      BY <2>2 DEF CS!SInit
  <1>2. IpcSpec => []CInv
    BY CleanInvariant
  <1>3. IpcSpec => []CurrentClassified
    <2>1. IpcInit => CurrentClassified
      BY DEF IpcInit, Init, CurrentClassified
    <2>2. CInv /\ CurrentClassified /\ [Next]_vars => CurrentClassified'
      BY NextCurrentClassified DEF CInv, TInv
    <2>3. IpcSpec => Spec
      BY IpcImplementsSpec, PTL
    <2> QED
      BY <1>2, <2>1, <2>2, <2>3, PTL DEF IpcSpec, Spec
  <1>4. CInv /\ CInv' /\ CurrentClassified /\ [IpcNext]_allVars
          => [CS!SNext]_(CS!svars)
    BY NextCallService, AnswersAreHonest, AnswersAreHonestNext DEF CallStep
  <1> QED
    BY <1>1, <1>2, <1>3, <1>4, PTL DEF IpcSpec, CallServiceSpec, CS!SSpec
=============================================================================
