-------------------------------- MODULE Ipc ---------------------------------
(***************************************************************************)
(* The request path from one end to the other: the callers of libsric's    *)
(* sric_txrx, the stream socket to sricd, the command handlers of          *)
(* sricd/ipc.c with the per-client queue, ping and timer of                *)
(* sricd/client.c, on top of the transmit side (SricIf).                   *)
(*                                                                         *)
(* libsric is synchronous: it writes a command and blocks until it has     *)
(* read one reply, whose kind it takes for granted.  The stream carries    *)
(* whole replies here; a caller that reads a reply to something else is    *)
(* `lost' and is followed no further.                                      *)
(***************************************************************************)
EXTENDS SricIf, Sequences

CONSTANTS PollTimeouts,  \* the timeouts callers pass, of "zero", "finite", "never"
          CleanClients,  \* callers poll once after each frame they send, close
                         \* only between calls, and always after a call that
                         \* timed out; the others send, poll and close at will
          MaxTimers      \* bound: poll timers armed for one client address

ASSUME IpcAssumption ==
  /\ PollTimeouts \subseteq {"zero", "finite", "never"}
  /\ CleanClients \in BOOLEAN
  /\ MaxTimers \in Nat

VARIABLES
  call,     \* call[c]: where the caller is in sric_txrx
  cmd,      \* cmd[c]: the command written and not yet read by sricd
  socket,   \* socket[c]: replies written by sricd and not yet read
  rxq,      \* c->rx_q: the frames whose answers wait to be polled, oldest first
  rxPing,   \* c->rx_ping # NULL
  rxTimer,  \* c->rx_timer: a number of `timers', or 0
  timers,   \* the poll timers glib holds, with the pointer they were given
  asked     \* asked[c]: the last frame the caller asked for (not in the code)

ipcVars == <<call, cmd, socket, rxq, rxPing, rxTimer, timers, asked>>
allVars == <<vars, ipcVars>>

Reply == [kind : {"ok", "badaddr", "timeout"}, frame : {0}]
           \cup [kind : {"rx"}, frame : FrameIds]

Status(k) == [kind |-> k, frame |-> 0]
Rx(n)     == [kind |-> "rx", frame |-> n]

\* A glib source: g_timeout_add(timeout, timeout_callback, c).  `session' is
\* not in the code: it says which client at the address c armed it.
Timer == [client : Clients, num : 1 .. MaxTimers, session : 1 .. MaxSessions]

TimersOf(c) == {t \in timers : t.client = c}

-----------------------------------------------------------------------------
(* libsric: sric_txrx, as sric_tx then sric_poll_rx (external to sricd) *)

\* sric_tx: the command goes out and its status byte is awaited.  The command
\* before has been read by then, as it always has, except for a caller that
\* took a stale reply for its own: that one is held up (a bound).
CallTx(c) ==
  /\ conn[c]
  /\ call[c] = "idle"
  /\ cmd[c] = "none"
  /\ call' = [call EXCEPT ![c] = "tx"]
  /\ cmd' = [cmd EXCEPT ![c] = "tx"]
  /\ UNCHANGED <<vars, socket, rxq, rxPing, rxTimer, timers, asked>>

\* Where a caller is once sric_tx succeeded: it polls now, or does as it likes.
WhenSent == IF CleanClients THEN "sent" ELSE "idle"

\* sric_poll_rx, by a caller that has sent something: other callers poll as
\* often as they like, also after several frames or when nothing is due.
CallPoll(c) ==
  /\ conn[c]
  /\ call[c] = WhenSent
  /\ asked[c] # 0
  /\ cmd[c] = "none"
  /\ call' = [call EXCEPT ![c] = "poll"]
  /\ cmd' = [cmd EXCEPT ![c] = "poll"]
  /\ UNCHANGED <<vars, socket, rxq, rxPing, rxTimer, timers, asked>>

\* Where a caller that waits for the reply to `waiting' is once it has read r.
AfterReply(waiting, r) ==
  CASE waiting = "tx" /\ r.kind = "ok"                   -> WhenSent
    [] waiting = "tx" /\ r.kind = "badaddr"              -> "idle"
    [] waiting = "poll" /\ r.kind = "rx"                 -> "idle"
    [] waiting = "poll" /\ r.kind = "timeout" -> IF CleanClients THEN "failed"
                                                                 ELSE "idle"
    [] OTHER                                             -> "lost"

CallReturns(c) ==
  /\ conn[c]
  /\ call[c] \in {"tx", "poll"}
  /\ socket[c] # <<>>
  /\ call' = [call EXCEPT ![c] = AfterReply(call[c], Head(socket[c]))]
  /\ socket' = [socket EXCEPT ![c] = Tail(@)]
  /\ UNCHANGED <<vars, cmd, rxq, rxPing, rxTimer, timers, asked>>

-----------------------------------------------------------------------------
(* ipc.c and client.c: connections *)

\* ipc_new, client_create.
IpcNew(c) ==
  /\ ClientConnect(c)
  /\ UNCHANGED ipcVars

\* Mutant of Forget: client_destroy leaves rx_q for the next client there.
ForgetAllButRx(c) ==
  /\ call' = [call EXCEPT ![c] = "idle"]
  /\ cmd' = [cmd EXCEPT ![c] = "none"]
  /\ socket' = [socket EXCEPT ![c] = <<>>]
  /\ rxPing' = [rxPing EXCEPT ![c] = FALSE]
  /\ rxTimer' = [rxTimer EXCEPT ![c] = 0]
  /\ asked' = [asked EXCEPT ![c] = 0]
  /\ UNCHANGED rxq

\* The struct and its socket are gone; nothing is left of the caller.
Forget(c) ==
  /\ call' = [call EXCEPT ![c] = "idle"]
  /\ cmd' = [cmd EXCEPT ![c] = "none"]
  /\ socket' = [socket EXCEPT ![c] = <<>>]
  /\ rxq' = [rxq EXCEPT ![c] = <<>>]
  /\ rxPing' = [rxPing EXCEPT ![c] = FALSE]
  /\ rxTimer' = [rxTimer EXCEPT ![c] = 0]
  /\ asked' = [asked EXCEPT ![c] = 0]

\* ipc_client_death, client_destroy: queued frames and answers are dropped, a
\* poll timer is not.
IpcClientDeath(c) ==
  /\ CleanClients => call[c] \in {"idle", "failed"}
  /\ ClientDeath(c)
  /\ Forget(c)
  /\ UNCHANGED timers

-----------------------------------------------------------------------------
(* ipc.c: the commands *)

Takes(c, k) ==
  /\ ~aborted
  /\ conn[c]
  /\ cmd[c] = k
  /\ cmd' = [cmd EXCEPT ![c] = "none"]

WriteReply(c, r) == socket' = [socket EXCEPT ![c] = Append(@, r)]

\* handle_tx, the device exists.
HandleTx(c) ==
  /\ Takes(c, "tx")
  /\ ClientTx(c)
  /\ WriteReply(c, Status("ok"))
  /\ asked' = [asked EXCEPT ![c] = allocs + 1]
  /\ UNCHANGED <<call, rxq, rxPing, rxTimer, timers>>

\* handle_tx, the device does not exist.
HandleTxBadAddr(c) ==
  /\ Takes(c, "tx")
  /\ WriteReply(c, Status("badaddr"))
  /\ UNCHANGED <<vars, call, rxq, rxPing, rxTimer, timers, asked>>

\* handle_poll_rx, an answer is there.
HandlePollRxNow(c) ==
  /\ Takes(c, "poll")
  /\ rxq[c] # <<>>
  /\ WriteReply(c, Rx(Head(rxq[c])))
  /\ rxq' = [rxq EXCEPT ![c] = Tail(@)]
  /\ UNCHANGED <<vars, call, rxPing, rxTimer, timers, asked>>

\* handle_poll_rx, timeout 0.
HandlePollRxZero(c) ==
  /\ "zero" \in PollTimeouts
  /\ Takes(c, "poll")
  /\ rxq[c] = <<>>
  /\ WriteReply(c, Status("timeout"))
  /\ UNCHANGED <<vars, call, rxq, rxPing, rxTimer, timers, asked>>

\* Mutant of HandlePollRxForever: c->rx_ping is not set.
HandlePollRxForgotten(c) ==
  /\ "never" \in PollTimeouts
  /\ Takes(c, "poll")
  /\ rxq[c] = <<>>
  /\ UNCHANGED <<vars, call, socket, rxq, rxPing, rxTimer, timers, asked>>

\* handle_poll_rx, timeout -1: blocked without a timer.
HandlePollRxForever(c) ==
  /\ "never" \in PollTimeouts
  /\ Takes(c, "poll")
  /\ rxq[c] = <<>>
  /\ rxPing' = [rxPing EXCEPT ![c] = TRUE]
  /\ UNCHANGED <<vars, call, socket, rxq, rxTimer, timers, asked>>

\* Mutant of HandlePollRxTimed: rx_q is not looked at first.
HandlePollRxBlind(c) ==
  /\ "finite" \in PollTimeouts
  /\ Takes(c, "poll")
  /\ rxPing' = [rxPing EXCEPT ![c] = TRUE]
  /\ \E i \in 1 .. MaxTimers :
       /\ \A t \in TimersOf(c) : t.num # i
       /\ rxTimer' = [rxTimer EXCEPT ![c] = i]
       /\ timers' = timers \cup
            {[client |-> c, num |-> i, session |-> session[c]]}
  /\ UNCHANGED <<vars, call, socket, rxq, asked>>

\* handle_poll_rx, any other timeout: c->rx_timer is overwritten.
HandlePollRxTimed(c) ==
  /\ "finite" \in PollTimeouts
  /\ Takes(c, "poll")
  /\ rxq[c] = <<>>
  /\ rxPing' = [rxPing EXCEPT ![c] = TRUE]
  /\ \E i \in 1 .. MaxTimers :
       /\ \A t \in TimersOf(c) : t.num # i
       /\ rxTimer' = [rxTimer EXCEPT ![c] = i]
       /\ timers' = timers \cup
            {[client |-> c, num |-> i, session |-> session[c]]}
  /\ UNCHANGED <<vars, call, socket, rxq, asked>>

\* Mutant of PollTimeout: the status byte is not written.
PollTimeoutSilent(t) ==
  /\ t \in timers
  /\ timers' = timers \ {t}
  /\ ClientTimeout(t.client)
  /\ rxTimer' = [rxTimer EXCEPT ![t.client] = 0]
  /\ UNCHANGED <<call, cmd, socket, rxq, rxPing, asked>>

\* Mutant of PollTimeout: c->rx_timer keeps the number of the dead source.
PollTimeoutKeepsId(t) ==
  /\ t \in timers
  /\ timers' = timers \ {t}
  /\ ClientTimeout(t.client)
  /\ WriteReply(t.client, Status("timeout"))
  /\ UNCHANGED <<call, cmd, rxq, rxPing, rxTimer, asked>>

\* timeout_callback, its client still there or another one at its address:
\* the frames of whoever is there are cancelled; rx_ping stays set.
PollTimeout(t) ==
  /\ t \in timers
  /\ timers' = timers \ {t}
  /\ ClientTimeout(t.client)
  /\ WriteReply(t.client, Status("timeout"))
  /\ rxTimer' = [rxTimer EXCEPT ![t.client] = 0]
  /\ UNCHANGED <<call, cmd, rxq, rxPing, asked>>

\* timeout_callback with a pointer to freed memory: txq_cancel finds nothing,
\* and the status byte goes nowhere or to a client whose fd has that number.
PollTimeoutOfDead(t) ==
  /\ ~aborted
  /\ t \in timers
  /\ ~conn[t.client]
  /\ timers' = timers \ {t}
  /\ \/ UNCHANGED socket
     \/ \E d \in Clients : conn[d] /\ WriteReply(d, Status("timeout"))
  /\ UNCHANGED <<vars, call, cmd, rxq, rxPing, rxTimer, asked>>

-----------------------------------------------------------------------------
(* client_push_rx, at the end of proc_rx_frame *)

\* No poll is blocked: the answer waits in rx_q.
PushRxQueued(c, n) ==
  /\ ~rxPing[c]
  /\ rxq' = [rxq EXCEPT ![c] = Append(@, n)]
  /\ UNCHANGED <<socket, rxPing, rxTimer, timers>>

\* Mutant of PushRxPing: rx_ping is called before the answer is in rx_q.
PushRxPingEarly(c, n) ==
  /\ rxPing[c]
  /\ rxPing' = [rxPing EXCEPT ![c] = FALSE]
  /\ rxTimer' = [rxTimer EXCEPT ![c] = 0]
  /\ timers' = {t \in timers : t.client = c => t.num # rxTimer[c]}
  /\ rxq' = [rxq EXCEPT ![c] = <<n>>]
  /\ WriteReply(c, Rx(0))

\* Mutant of PushRxPing: c->rx_ping stays set.
PushRxPingStays(c, n) ==
  /\ rxPing[c]
  /\ rxTimer' = [rxTimer EXCEPT ![c] = 0]
  /\ timers' = {t \in timers : t.client = c => t.num # rxTimer[c]}
  /\ rxq' = [rxq EXCEPT ![c] = Tail(Append(@, n))]
  /\ WriteReply(c, Rx(Head(Append(rxq[c], n))))
  /\ UNCHANGED rxPing

\* Mutant of PushRxPing: the timer is not removed.
PushRxPingTimerStays(c, n) ==
  /\ rxPing[c]
  /\ rxPing' = [rxPing EXCEPT ![c] = FALSE]
  /\ rxTimer' = [rxTimer EXCEPT ![c] = 0]
  /\ rxq' = [rxq EXCEPT ![c] = Tail(Append(@, n))]
  /\ WriteReply(c, Rx(Head(Append(rxq[c], n))))
  /\ UNCHANGED timers

\* rx_ping: the answer goes to the blocked poll and the timer is removed.
PushRxPing(c, n) ==
  /\ rxPing[c]
  /\ rxPing' = [rxPing EXCEPT ![c] = FALSE]
  /\ rxTimer' = [rxTimer EXCEPT ![c] = 0]
  /\ timers' = {t \in timers : t.client = c => t.num # rxTimer[c]}
  /\ rxq' = [rxq EXCEPT ![c] = Tail(Append(@, n))]
  /\ WriteReply(c, Rx(Head(Append(rxq[c], n))))

\* An ACK hands the current frame's client its answer.
IpcRxAck(n) ==
  /\ Delivers
  /\ RxAck(n)
  /\ PushRxQueued(txFrame.tag, n) \/ PushRxPing(txFrame.tag, n)
  /\ UNCHANGED <<call, cmd, asked>>

\* An ACK that reaches no client.
IpcRxAckDropped(n) ==
  /\ Delivers => txFrame.tag = NoTag
  /\ RxUnsolicitedAck(n) \/ RxAck(n) \/ RxAckAborts(n)
  /\ UNCHANGED ipcVars

-----------------------------------------------------------------------------

IpcInit ==
  /\ Init
  /\ call = [c \in Clients |-> "idle"]
  /\ cmd = [c \in Clients |-> "none"]
  /\ socket = [c \in Clients |-> <<>>]
  /\ rxq = [c \in Clients |-> <<>>]
  /\ rxPing = [c \in Clients |-> FALSE]
  /\ rxTimer = [c \in Clients |-> 0]
  /\ timers = {}
  /\ asked = [c \in Clients |-> 0]

IpcAnswer == \E n \in FrameIds : IpcRxAck(n) \/ IpcRxAckDropped(n)

\* The bus as in TimelyNext: no answer is on its way when the timer fires.
IpcTxTimeout ==
  /\ \A n \in FrameIds : answers[n] = 0
  /\ TxTimeout
  /\ UNCHANGED ipcVars

Handle(c) ==
  \/ HandleTx(c)
  \/ HandleTxBadAddr(c)
  \/ HandlePollRxNow(c)
  \/ HandlePollRxZero(c)
  \/ HandlePollRxForever(c)
  \/ HandlePollRxTimed(c)

IpcNext ==
  \/ IfTx /\ UNCHANGED ipcVars
  \/ IpcTxTimeout
  \/ IpcAnswer
  \/ RxNote /\ UNCHANGED ipcVars
  \/ (\E n \in FrameIds : Lose(n)) /\ UNCHANGED ipcVars
  \/ \E c \in Clients : \/ IpcNew(c)
                        \/ IpcClientDeath(c)
                        \/ CallTx(c)
                        \/ CallPoll(c)
                        \/ CallReturns(c)
                        \/ Handle(c)
  \/ \E t \in timers : PollTimeout(t) \/ PollTimeoutOfDead(t)

IpcSpec == IpcInit /\ [][IpcNext]_allVars

\* As in SricIf; glib also dispatches readable sockets, and a caller goes on.
IpcFairness ==
  /\ WF_allVars(IfTx /\ UNCHANGED ipcVars)
  /\ WF_allVars(IpcTxTimeout)
  /\ SF_allVars(IpcAnswer)
  /\ \A c \in Clients : /\ WF_allVars(Handle(c))
                        /\ WF_allVars(CallReturns(c))

IpcFairSpec == IpcSpec /\ IpcFairness

-----------------------------------------------------------------------------
(* Properties *)

IpcTypeOK ==
  /\ TypeOK
  /\ call \in [Clients -> {"idle", "tx", "sent", "poll", "failed", "lost"}]
  /\ cmd \in [Clients -> {"none", "tx", "poll"}]
  /\ socket \in [Clients -> Seq(Reply)]
  /\ rxq \in [Clients -> Seq(FrameIds)]
  /\ rxPing \in [Clients -> BOOLEAN]
  /\ rxTimer \in [Clients -> 0 .. MaxTimers]
  /\ timers \subseteq Timer
  /\ asked \in [Clients -> 0 .. MaxFrames]

\* The reply of kind k is one libsric may read to the call it is in.
Expected(c, k) ==
  \/ call[c] = "tx" /\ k \in {"ok", "badaddr"}
  \/ call[c] = "poll" /\ k \in {"rx", "timeout"}

\* sricd writes to a client only in reply to a command, once, and with a reply
\* to that command: the callbacks of ipc.c that write on their own (rx_ping,
\* timeout_callback) do so only for a poll that is blocked.
RepliesInStep ==
  \A c \in Clients : socket[c] # <<>> =>
    /\ Len(socket[c]) = 1
    /\ cmd[c] = "none"
    /\ Expected(c, Head(socket[c]).kind)

\* A poll under way is never forgotten: its command is still to be read, or its
\* reply is in the socket, or it is blocked with its ping set.
PollsAreServed ==
  \A c \in Clients :
    call[c] = "poll" /\ cmd[c] = "none" /\ socket[c] = <<>> => rxPing[c]

\* No answer waits in rx_q while a poll is blocked, so rx_ping, which pops the
\* oldest, hands over the one just pushed and its assert(rx) holds.
NoAnswerOverlooked == \A c \in Clients : rxPing[c] => rxq[c] = <<>>

\* rx_timer, when not 0, is the number of an armed source of this client, so
\* rx_ping's g_source_remove never removes another callback's source.
TimerIdsValid ==
  \A c \in Clients : rxTimer[c] # 0 =>
    \E t \in TimersOf(c) : t.num = rxTimer[c] /\ t.session = session[c]

\* Every armed poll timer is that of a live client's blocked poll, and the one
\* its rx_timer names, so that rx_ping can remove it.
TimersTracked ==
  \A t \in timers : /\ conn[t.client] /\ session[t.client] = t.session
                    /\ rxTimer[t.client] = t.num
                    /\ rxPing[t.client]

\* sric_txrx returns the answer to the frame it sent, whoever else used the
\* bus, timed out or died (sric.h: "wait for the corresponding RX").
TxRxCorresponds ==
  \A c \in Clients :
    \A n \in {rxq[c][i] : i \in DOMAIN rxq[c]} \cup
             {socket[c][i].frame : i \in DOMAIN socket[c]} :
      n \in {0, asked[c]}

\* What CallService sees of a program: the stage of its call, and the number of
\* its frame for as long as that can be answered.
Written(c, k) == \E i \in DOMAIN socket[c] : socket[c][i].kind = k

Stage(c) ==
  IF ~conn[c]                                               THEN "away"
  ELSE IF call[c] = "idle"                                  THEN "ready"
  ELSE IF cmd[c] = "tx"                                     THEN "asking"
  ELSE IF Written(c, "badaddr")                             THEN "refused"
  ELSE IF call[c] = "failed" \/ Written(c, "timeout")       THEN "gaveup"
  ELSE IF rxq[c] # <<>> \/ Written(c, "rx")                 THEN "answered"
                                                            ELSE "waiting"

Due(c) == \E f \in Live : f.tag = c /\ f.id = asked[c]

\* The number of the answer that waits for c, in rx_q or in its socket.
Held(c) == IF rxq[c] # <<>> THEN Head(rxq[c])
           ELSE CHOOSE n \in FrameIds : Rx(n) \in {socket[c][i] : i \in DOMAIN socket[c]}

CS == INSTANCE CallService WITH
        stage  <- [c \in Clients |-> Stage(c)],
        turn   <- [c \in Clients |-> IF Due(c) THEN asked[c] ELSE 0],
        answer <- [c \in Clients |-> IF Stage(c) = "answered" THEN Held(c) ELSE 0]

\* For programs that close after a call that timed out and never broadcast,
\* sricd and libsric implement CallService: whatever polls, timers, deaths and
\* lost answers come between, requests are answered in the order they were
\* accepted, each once, and no call returns anything but its own answer, a
\* refusal or a timeout that came first.
CallServiceSpec == CS!SSpec

\* client.h: rx_ping is NULL when the client is not blocked polling on it.
PingOnlyWhileBlocked ==
  \A c \in Clients : rxPing[c] => call[c] = "poll" /\ cmd[c] = "none"

\* ipc.c: the timeout of a poll dequeues the frames its own client sent.
TimeoutDequeuesOwnFrames ==
  [][\A t \in timers :
       PollTimeout(t) => \A f \in Queued \ Queued' : f.session = t.session
    ]_allVars

\* A blocked sric_poll_rx returns in the end.
PollReturns ==
  \A c \in Clients : call[c] = "poll" ~> call[c] # "poll"
=============================================================================
