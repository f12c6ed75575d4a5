---------------------------- MODULE CallService -----------------------------
(***************************************************************************)
(* What sricd and libsric promise the programs that call sric_txrx, with   *)
(* no socket, no command, no queue of answers, no timer and no bus: a call *)
(* is refused, or accepted and given a turn behind all those accepted      *)
(* before it; requests are answered in turn, each once and by its own      *)
(* answer; a call returns that answer or gives up before it came, never    *)
(* after; what one program does changes neither the stage nor the turn of  *)
(* another's call.  Ipc implements it for programs that close after a call *)
(* that timed out and do not broadcast.                                    *)
(***************************************************************************)
EXTENDS Naturals

CONSTANTS Clients,   \* the programs
          MaxFrames  \* bound: requests ever accepted

Stages == {"away", "ready", "asking", "refused", "waiting", "answered", "gaveup"}

VARIABLES stage,  \* stage[c]: how far the call of c is
          turn,   \* turn[c]: the place of its request among the unanswered, or 0
          answer  \* answer[c]: the place of the request whose answer it has, or 0

svars == <<stage, turn, answer>>

Moves(c, from, to) ==
  /\ stage[c] \in from
  /\ stage' = [stage EXCEPT ![c] = to]

Connect(c) == Moves(c, {"away"}, "ready") /\ UNCHANGED <<turn, answer>>

Ask(c) == Moves(c, {"ready"}, "asking") /\ UNCHANGED <<turn, answer>>

\* There is no such device.
Refuse(c) == Moves(c, {"asking"}, "refused") /\ UNCHANGED <<turn, answer>>

Accept(c) ==
  /\ Moves(c, {"asking"}, "waiting")
  /\ \E n \in 1 .. MaxFrames :
       /\ \A d \in Clients : turn[d] < n
       /\ turn' = [turn EXCEPT ![c] = n]
  /\ UNCHANGED answer

\* The request of c is answered, and c gets that answer and no other.  When c
\* has given up that helps nobody.
Answer(c) ==
  /\ turn[c] # 0
  /\ \A d \in Clients : turn[d] # 0 => turn[c] <= turn[d]
  /\ turn' = [turn EXCEPT ![c] = 0]
  /\ \/ /\ Moves(c, {"waiting"}, "answered")
        /\ answer' = [answer EXCEPT ![c] = turn[c]]
     \/ /\ Moves(c, {"gaveup"}, "gaveup")
        /\ UNCHANGED answer

\* The request is withdrawn; with a timeout of 0 it keeps its turn.
GiveUp(c) ==
  /\ Moves(c, {"waiting"}, "gaveup")
  /\ UNCHANGED turn \/ turn' = [turn EXCEPT ![c] = 0]
  /\ UNCHANGED answer

\* The program has its answer, or knows that there is no such device.
Return(c) ==
  /\ Moves(c, {"answered", "refused"}, "ready")
  /\ answer' = [answer EXCEPT ![c] = 0]
  /\ UNCHANGED turn

Leave(c) ==
  /\ Moves(c, {"ready", "gaveup"}, "away")
  /\ turn' = [turn EXCEPT ![c] = 0]
  /\ UNCHANGED answer

SInit == /\ stage = [c \in Clients |-> "away"]
         /\ turn = [c \in Clients |-> 0]
         /\ answer = [c \in Clients |-> 0]

SNext == \E c \in Clients :
  \/ Connect(c) \/ Ask(c) \/ Refuse(c) \/ Accept(c) \/ Answer(c)
  \/ GiveUp(c) \/ Return(c) \/ Leave(c)

SSpec == SInit /\ [][SNext]_svars
=============================================================================
