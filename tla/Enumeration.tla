----------------------------- MODULE Enumeration -----------------------------
(***************************************************************************)
(* How sricd gives the devices on the bus their addresses and learns their *)
(* classes before it listens for clients: the state machine of             *)
(* sricd/sric-enum.c, its two timers and its ACK filter, with the bus of   *)
(* module Ostric.                                                          *)
(*                                                                         *)
(* The transmit side is the one of SricIf, coarser: a frame is written in  *)
(* one piece, and a retransmission is one step with the timeout that       *)
(* causes it.  No client exists yet, so nothing is cancelled.              *)
(***************************************************************************)
EXTENDS Ostric

CONSTANTS NoCommand,      \* tx_frame == NULL
          LateAnswers,    \* timers may fire while ACKs are on their way
          MaxLostFrames,  \* bound: frames the bus loses
          MaxLostAnswers, \* bound: ACKs the bus loses
          MaxWire         \* bound: ACKs on their way when a frame is repeated

ASSUME EnumerationAssumption ==
  /\ NoCommand \notin Command
  /\ LateAnswers \in BOOLEAN
  /\ {MaxLostFrames, MaxLostAnswers, MaxWire} \subseteq Nat

VARIABLES
  state,         \* state
  next,          \* current_next_address
  infoAddr,      \* current_addr_info_addr
  resetCount,    \* reset_count
  killTimer,     \* the source of kill_token_timeout is armed
  resetTimer,    \* the source of send_reset_timeout is armed
  replied,       \* addresses whose addr_info_replies is true
  classes,       \* device_classes
  known,         \* device_types: the class, or NoData for NO_DEVICE
  queue,         \* tx_queue[0], next to go first
  txFrame,       \* tx_frame, sent and awaiting its ACK
  lostFrames, lostAnswers  \* how many were lost so far (not in the code)

fsmVars  == <<state, next, infoAddr, killTimer, resetTimer, known, queue>>
recvVars == <<replied, classes>>
vars     == <<busVars, fsmVars, recvVars, resetCount, txFrame,
              lostFrames, lostAnswers>>

States == {"IDLE", "KILLING_TOKEN", "RESETTING", "ENUMERATING", "SETTING_ADDR",
           "SETTING_GW_ADDR", "ADVANCING_TOKEN", "FETCHING_CLASSES",
           "ENUMERATED", "exited"}

-----------------------------------------------------------------------------
(* The frames *)

Reset         == [cmd |-> "RESET",       to |-> 0, arg |-> 0]
Address(a)    == [cmd |-> "ADDR_ASSIGN", to |-> 0, arg |-> a]
TokAdvance(a) == [cmd |-> "TOK_ADVANCE", to |-> a, arg |-> 0]
AddrInfo(a)   == [cmd |-> "ADDR_INFO",   to |-> a, arg |-> 0]
Gateway(c)    == [cmd |-> c,             to |-> 1, arg |-> 0]

\* txq_push of each of the frames in turn.
Push(frames) == queue' = queue \o frames

-----------------------------------------------------------------------------
(* sric_enum_fsm: what it does with event ev, by the state it is in *)

FsmIdle(ev) ==
  /\ state = "IDLE"
  /\ ev = "START_ENUM"
  /\ Push(<<TokAdvance(0), TokAdvance(0), Gateway("REQ_TOKEN")>>)
  /\ killTimer' = TRUE
  /\ state' = "KILLING_TOKEN"
  /\ UNCHANGED <<next, infoAddr, resetTimer, known>>

FsmKillingToken(ev) ==
  /\ state = "KILLING_TOKEN"
  /\ ev = "TOKEN_CATCH_TIMEOUT"
  /\ Push(<<Gateway("USE_TOKEN")>>)
  /\ killTimer' = FALSE
  /\ resetTimer' = TRUE
  /\ state' = "RESETTING"
  /\ UNCHANGED <<next, infoAddr, known>>

\* Mutant of FsmResetting: the token is not asked back.
FsmResettingNoReq(ev) ==
  /\ state = "RESETTING"
  /\ ev = "BUS_RESET"
  /\ Push(<<Gateway("GEN_TOKEN"), Gateway("HAVE_TOKEN")>>)
  /\ resetTimer' = FALSE
  /\ state' = "ENUMERATING"
  /\ UNCHANGED <<next, infoAddr, killTimer, known>>

FsmResetting(ev) ==
  /\ state = "RESETTING"
  /\ ev = "BUS_RESET"
  /\ Push(<<Gateway("GEN_TOKEN"), Gateway("REQ_TOKEN"), Gateway("HAVE_TOKEN")>>)
  /\ resetTimer' = FALSE
  /\ state' = "ENUMERATING"
  /\ UNCHANGED <<next, infoAddr, killTimer, known>>

FsmEnumerating(ev) ==
  /\ state = "ENUMERATING"
  /\ ev \in {"DEV_PRESENT", "TOK_AT_GW"}
  /\ IF next >= HighAddress
       THEN state' = "exited" /\ UNCHANGED queue
       ELSE /\ Push(<<Address(next)>>)
            /\ state' = IF ev = "DEV_PRESENT" THEN "SETTING_ADDR"
                                              ELSE "SETTING_GW_ADDR"
  /\ UNCHANGED <<next, infoAddr, killTimer, resetTimer, known>>

\* Mutant of FsmSettingGwAddr: the gateway's address is not counted.
FsmSettingGwAddrNotCounted(ev) ==
  /\ state = "SETTING_GW_ADDR"
  /\ ev = "NEW_DEV_ACK"
  /\ state' = "FETCHING_CLASSES"
  /\ infoAddr' = 3
  /\ Push(<<Gateway("USE_TOKEN"), Gateway("GEN_TOKEN"), AddrInfo(2)>>)
  /\ UNCHANGED <<next, killTimer, resetTimer, known>>

\* addr_info_replies is cleared too: see ForgetReplies.
FsmSettingGwAddr(ev) ==
  /\ state = "SETTING_GW_ADDR"
  /\ ev = "NEW_DEV_ACK"
  /\ next' = next + 1
  /\ state' = "FETCHING_CLASSES"
  /\ infoAddr' = 3
  /\ Push(<<Gateway("USE_TOKEN"), Gateway("GEN_TOKEN"), AddrInfo(2)>>)
  /\ UNCHANGED <<killTimer, resetTimer, known>>

FsmSettingAddr(ev) ==
  /\ state = "SETTING_ADDR"
  /\ ev = "NEW_DEV_ACK"
  /\ Push(<<TokAdvance(next)>>)
  /\ state' = "ADVANCING_TOKEN"
  /\ UNCHANGED <<next, infoAddr, killTimer, resetTimer, known>>

\* Mutant of FsmAdvancingToken: the next device gets the same address.
FsmAdvancingTokenSame(ev) ==
  /\ state = "ADVANCING_TOKEN"
  /\ ev = "NEW_DEV_ACK"
  /\ Push(<<Gateway("HAVE_TOKEN")>>)
  /\ state' = "ENUMERATING"
  /\ UNCHANGED <<next, infoAddr, killTimer, resetTimer, known>>

FsmAdvancingToken(ev) ==
  /\ state = "ADVANCING_TOKEN"
  /\ ev = "NEW_DEV_ACK"
  /\ next' = next + 1
  /\ Push(<<Gateway("HAVE_TOKEN")>>)
  /\ state' = "ENUMERATING"
  /\ UNCHANGED <<infoAddr, killTimer, resetTimer, known>>

\* Mutant of FsmFetchingClasses: done once the last request is sent.
FsmFetchingClassesEarly(ev) ==
  /\ state = "FETCHING_CLASSES"
  /\ ev = "ADDR_INFO_ACK"
  /\ IF infoAddr + 1 >= next
       THEN /\ known' = [a \in DOMAIN known |->
                           IF a \in 2 .. next - 1 THEN classes'[a] ELSE known[a]]
            /\ state' = "ENUMERATED"
            /\ infoAddr' = infoAddr + 1
            /\ Push(<<AddrInfo(infoAddr)>>)
       ELSE /\ Push(<<AddrInfo(infoAddr)>>)
            /\ infoAddr' = infoAddr + 1
            /\ UNCHANGED <<known, state>>
  /\ UNCHANGED <<next, killTimer, resetTimer>>

\* The devices are added with the classes this very ACK may have completed.
FsmFetchingClasses(ev) ==
  /\ state = "FETCHING_CLASSES"
  /\ ev = "ADDR_INFO_ACK"
  /\ IF infoAddr = next
       THEN /\ known' = [a \in DOMAIN known |->
                           IF a \in 2 .. next - 1 THEN classes'[a] ELSE known[a]]
            /\ state' = "ENUMERATED"
            /\ UNCHANGED <<queue, infoAddr>>
       ELSE /\ Push(<<AddrInfo(infoAddr)>>)
            /\ infoAddr' = infoAddr + 1
            /\ UNCHANGED <<known, state>>
  /\ UNCHANGED <<next, killTimer, resetTimer>>

FsmReacts(ev) ==
  \/ FsmIdle(ev)
  \/ FsmKillingToken(ev)
  \/ FsmResetting(ev)
  \/ FsmEnumerating(ev)
  \/ FsmSettingGwAddr(ev)
  \/ FsmSettingAddr(ev)
  \/ FsmAdvancingToken(ev)
  \/ FsmFetchingClasses(ev)

\* The pairs of a state and an event that sric_enum_fsm does something with.
Expects ==
  {<<"IDLE", "START_ENUM">>, <<"KILLING_TOKEN", "TOKEN_CATCH_TIMEOUT">>,
   <<"RESETTING", "BUS_RESET">>, <<"ENUMERATING", "DEV_PRESENT">>,
   <<"ENUMERATING", "TOK_AT_GW">>, <<"SETTING_GW_ADDR", "NEW_DEV_ACK">>,
   <<"SETTING_ADDR", "NEW_DEV_ACK">>, <<"ADVANCING_TOKEN", "NEW_DEV_ACK">>,
   <<"FETCHING_CLASSES", "ADDR_INFO_ACK">>}

Fsm(ev) == IF <<state, ev>> \in Expects THEN FsmReacts(ev)
                                        ELSE UNCHANGED fsmVars

-----------------------------------------------------------------------------
(* Start and timers *)

\* On a timely bus a timer fires when what was sent before has been answered:
\* 100 ms, 50 ms and RETXMIT_TIMEOUT are long for a few short frames.
Settled == LateAnswers \/ (wire = <<>> /\ queue = <<>> /\ txFrame = NoCommand)

\* sric_enum_start, from sric_if_init.
Start ==
  /\ state = "IDLE"
  /\ Fsm("START_ENUM")
  /\ UNCHANGED <<busVars, recvVars, resetCount, txFrame, lostFrames, lostAnswers>>

KillTokenTimeout ==
  /\ killTimer
  /\ Settled
  /\ Fsm("TOKEN_CATCH_TIMEOUT")
  /\ UNCHANGED <<busVars, recvVars, resetCount, txFrame, lostFrames, lostAnswers>>

\* Mutant of SendReset: the resets are not counted.
SendResetNoLimit ==
  /\ resetTimer
  /\ Settled
  /\ resetCount' = resetCount + 1
  /\ Push(<<Reset>>)
  /\ UNCHANGED <<busVars, state, next, infoAddr, killTimer, resetTimer, known,
                 recvVars, txFrame, lostFrames, lostAnswers>>

\* send_reset_timeout, five times a reset.
SendReset ==
  /\ resetTimer
  /\ Settled
  /\ resetCount < 5
  /\ resetCount' = resetCount + 1
  /\ Push(<<Reset>>)
  /\ UNCHANGED <<busVars, state, next, infoAddr, killTimer, resetTimer, known,
                 recvVars, txFrame, lostFrames, lostAnswers>>

\* send_reset_timeout, the sixth time.
BusReset ==
  /\ resetTimer
  /\ Settled
  /\ resetCount >= 5
  /\ resetCount' = resetCount + 1
  /\ Fsm("BUS_RESET")
  /\ UNCHANGED <<busVars, recvVars, txFrame, lostFrames, lostAnswers>>

-----------------------------------------------------------------------------
(* sric-if.c during enumeration *)

\* A frame goes out: the bus takes it and answers, or it is lost.
Transmit(c) ==
  \/ /\ Process(c)
     /\ UNCHANGED lostFrames
  \/ /\ lostFrames < MaxLostFrames
     /\ lostFrames' = lostFrames + 1
     /\ UNCHANGED busVars

\* if_tx: the next frame is sent.  A RESET, whose tag is NULL, is done with.
Send ==
  /\ txFrame = NoCommand
  /\ queue # <<>>
  /\ Transmit(Head(queue))
  /\ queue' = Tail(queue)
  /\ txFrame' = IF Head(queue).cmd = "RESET" THEN NoCommand ELSE Head(queue)
  /\ UNCHANGED <<state, next, infoAddr, killTimer, resetTimer, known, recvVars,
                 resetCount, lostAnswers>>

\* tx_timeout, then if_tx.
Retransmit ==
  /\ txFrame # NoCommand
  /\ IF LateAnswers THEN Len(wire) < MaxWire ELSE wire = <<>>
  /\ Transmit(txFrame)
  /\ UNCHANGED <<fsmVars, recvVars, resetCount, txFrame, lostAnswers>>

\* sric_enum_rx: what the ACK is taken for.
EventOf(a) ==
  CASE state = "ENUMERATING" /\ a.data # NoData ->
         IF a.data = 0 THEN "DEV_PRESENT" ELSE "TOK_AT_GW"
    [] state \notin {"IDLE", "ENUMERATING"} /\ a.src = next -> "NEW_DEV_ACK"
    [] state = "FETCHING_CLASSES" /\ a.src # next /\ a.data # NoData ->
         "ADDR_INFO_ACK"
    [] OTHER -> "none"

\* The class in an ADDR_INFO ACK is noted before the state machine runs, which
\* forgets the replies when it starts to ask for classes.
Record(a) ==
  IF EventOf(a) = "ADDR_INFO_ACK"
    THEN /\ replied' = replied \cup {a.src}
         /\ classes' = [classes EXCEPT ![a.src] = a.data]
    ELSE /\ replied' = IF <<state, EventOf(a)>> = <<"SETTING_GW_ADDR", "NEW_DEV_ACK">>
                         THEN {} ELSE replied
         /\ UNCHANGED classes

\* proc_rx_frame: an ACK retires the current frame, whichever it answers, and
\* goes through sric_enum_rx; without a current frame it is ignored.  Once
\* enumerated is set, it would go to a client at the frame's tag.
RxAnswer ==
  /\ wire # <<>>
  /\ wire' = Tail(wire)
  /\ IF txFrame = NoCommand \/ state = "ENUMERATED"
       THEN UNCHANGED <<fsmVars, recvVars>>
       ELSE Record(Head(wire)) /\ Fsm(EventOf(Head(wire)))
  /\ txFrame' = NoCommand
  /\ UNCHANGED <<dev, gwHas, gwKeep, gwAddr, resetCount, lostFrames, lostAnswers>>

\* The bus loses an ACK (external).
LoseAnswer ==
  /\ wire # <<>>
  /\ lostAnswers < MaxLostAnswers
  /\ lostAnswers' = lostAnswers + 1
  /\ wire' = Tail(wire)
  /\ UNCHANGED <<dev, gwHas, gwKeep, gwAddr, fsmVars, recvVars, resetCount,
                 txFrame, lostFrames>>

\* ostric's main loop with nothing to read.
IdleTurn ==
  /\ AdvanceToken
  /\ UNCHANGED <<fsmVars, recvVars, resetCount, txFrame, lostFrames, lostAnswers>>

-----------------------------------------------------------------------------

EnumInit ==
  /\ BusInit
  /\ state = "IDLE"
  /\ next = 2
  /\ infoAddr = 2
  /\ resetCount = 0
  /\ killTimer = FALSE
  /\ resetTimer = FALSE
  /\ replied = {}
  /\ classes = [a \in 0 .. HighAddress - 1 |-> 0]
  /\ known = [a \in 0 .. HighAddress - 1 |-> NoData]
  /\ queue = <<>>
  /\ txFrame = NoCommand
  /\ lostFrames = 0
  /\ lostAnswers = 0

Running == state # "exited"

EnumNext ==
  /\ Running
  /\ \/ Start
     \/ KillTokenTimeout
     \/ SendReset
     \/ BusReset
     \/ Send
     \/ Retransmit
     \/ RxAnswer
     \/ LoseAnswer
     \/ IdleTurn

EnumSpec == EnumInit /\ [][EnumNext]_vars

\* glib dispatches what is ready, and what the bus loses is bounded.
EnumFairSpec ==
  /\ EnumSpec
  /\ WF_vars(Running /\ Start)
  /\ WF_vars(Running /\ KillTokenTimeout)
  /\ WF_vars(Running /\ (SendReset \/ BusReset))
  /\ WF_vars(Running /\ (Send \/ Retransmit))
  /\ WF_vars(Running /\ RxAnswer)

-----------------------------------------------------------------------------
(* Properties *)

EnumTypeOK ==
  /\ BusTypeOK
  /\ state \in States
  /\ next \in 2 .. HighAddress
  /\ infoAddr \in 2 .. HighAddress
  /\ resetCount \in 0 .. 6
  /\ killTimer \in BOOLEAN
  /\ resetTimer \in BOOLEAN
  /\ replied \subseteq 0 .. HighAddress - 1
  /\ classes \in [0 .. HighAddress - 1 -> 0 .. GatewayClass]
  /\ known \in [0 .. HighAddress - 1 -> {NoData} \cup 0 .. GatewayClass]
  /\ queue \in Seq(Command)
  /\ txFrame \in Command \cup {NoCommand}
  /\ lostFrames \in 0 .. MaxLostFrames
  /\ lostAnswers \in 0 .. MaxLostAnswers

\* Enumeration ends only when every address given out has told its class
\* ("We caught all the acks", sric-enum.c).
CaughtAllAcks ==
  state = "ENUMERATED" => 2 .. next - 1 \subseteq replied

\* What device_exists and device_type say once enumeration is over is what is
\* on the bus: every address that answers is known with its class, and no other.
BusKnown ==
  state = "ENUMERATED" =>
    \A a \in Addresses :
      known[a] = IF a = gwAddr THEN GatewayClass
                 ELSE IF \E d \in Devices : dev[d].address = a
                   THEN Class(CHOOSE d \in Devices : dev[d].address = a)
                 ELSE NoData

\* The token stopped at every device on its way round: nobody is left out.
EveryoneAddressed ==
  state = "ENUMERATED" => /\ gwAddr # NoAddr
                          /\ \A d \in Devices : dev[d].address # NoAddr

\* BAD_ENUM_TAG is never used as a client: once ACKs go to clients, no frame of
\* enumeration is queued or awaits one.
QuietWhenEnumerated ==
  state = "ENUMERATED" => queue = <<>> /\ txFrame = NoCommand

\* sricd gets as far as listening for clients, however many frames it must
\* repeat, unless the bus loses an ACK: the devices do not repeat one, and a
\* device that has taken its address ignores a second ADDR_ASSIGN.
EnumerationFinishes == <>(state = "ENUMERATED" \/ lostAnswers > 0)
=============================================================================
