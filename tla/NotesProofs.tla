---------------------------- MODULE NotesProofs -----------------------------
(***************************************************************************)
(* Proofs about Notes for every value of its constants: who is told of a   *)
(* device's notes, what libsric believes of it, the polls, and that Notes  *)
(* implements NoteService.                                                 *)
(***************************************************************************)
EXTENDS Notes, Induction, SequenceTheorems

-----------------------------------------------------------------------------
(* The inductive invariant.  FlagsAgree says nothing while a command is on *)
(* its way, and nothing of clients that are gone; Cached says what libsric *)
(* and sricd hold then, so that they agree when the command has been read  *)
(* and when a new client takes the address.                                *)

ProgramTypeOK ==
  /\ manners \in {"clean", "rough"}
  /\ conn \in [Clients -> BOOLEAN]
  /\ session \in [Clients -> 0 .. MaxSessions]
  /\ noteflags \in [Clients -> [Addresses -> SUBSET Kinds]]
  /\ call \in [Clients -> {"idle", "flags", "clear", "list", "poll", "failed", "lost"}]
  /\ cmd \in [Clients -> Command]

PollTypeOK ==
  /\ socket \in [Clients -> Seq(Reply)]
  /\ noteq \in [Clients -> Seq(NoteFrame)]
  /\ notePing \in [Clients -> BOOLEAN]
  /\ noteTimer \in [Clients -> 0 .. MaxTimers]
  /\ timers \subseteq Timer

TargetTypeOK ==
  /\ targets \in [Addresses -> SUBSET Target]
  /\ received \in 0 .. MaxNotes

\* client_destroy and sric_quit leave nothing behind but a timer.
DeadForgotten ==
  \A c \in Clients : ~conn[c] =>
    /\ noteTimer[c] = 0 /\ ~notePing[c]
    /\ cmd[c] = NoCommand
    /\ noteflags[c] = [a \in Addresses |-> {}]

LiveCounted == \A c \in Clients : conn[c] => session[c] > 0

\* What the cache of libsric holds for a device while a command may be pending.
CachedFor(c, a) ==
  noteflags[c][a] = CASE cmd[c].op = "clear" -> {}
                      [] cmd[c].op = "flags" /\ cmd[c].addr = a -> cmd[c].flags
                      [] OTHER -> Registered(c, a)

Cached == \A c \in Clients, a \in Present : CachedFor(c, a)

NInv == /\ ProgramTypeOK
        /\ PollTypeOK
        /\ TargetTypeOK
        /\ DeadForgotten
        /\ LiveCounted
        /\ TargetsAlive
        /\ Cached
        /\ NoNoteOverlooked

LEMMA InitNInv == Init => NInv
  <1> SUFFICES ASSUME Init PROVE NInv
    OBVIOUS
  <1> USE NotesAssumption
  <1>1. ProgramTypeOK
    <2>1. NoCommand \in Command
      BY DEF Command
    <2> QED
      BY <2>1 DEF Init, ProgramTypeOK
  <1>2. PollTypeOK
    BY DEF Init, PollTypeOK
  <1>3. TargetTypeOK
    BY DEF Init, TargetTypeOK
  <1>4. DeadForgotten /\ LiveCounted /\ NoNoteOverlooked
    BY DEF Init, DeadForgotten, LiveCounted, NoNoteOverlooked
  <1>5. TargetsAlive
    BY DEF Init, TargetsAlive
  <1>6. Cached
    <2> SUFFICES ASSUME NEW c \in Clients, NEW a \in Present PROVE CachedFor(c, a)
      BY DEF Cached
    <2>1. a \in Addresses /\ targets[a] = {}
      BY DEF Init
    <2>2. Registered(c, a) = {}
      BY <2>1 DEF Registered
    <2>3. noteflags[c][a] = {} /\ cmd[c].op = "none"
      BY <2>1 DEF Init, NoCommand
    <2> QED
      BY <2>2, <2>3 DEF CachedFor
  <1> QED
    BY <1>1, <1>2, <1>3, <1>4, <1>5, <1>6 DEF NInv

-----------------------------------------------------------------------------
(* device.c *)

\* device_set_client_notes leaves the records of the others as they are, and
\* one of c with these flags, or none when there are no flags.
LEMMA SetClientNotesFacts ==
  ASSUME NEW old \in SUBSET Target, NEW c \in Clients, NEW ks \in SUBSET Kinds,
         session[c] \in 1 .. MaxSessions,
         \A t \in old : t.client = c => t.session = session[c],
         \A t, u \in old : t.client = c /\ u.client = c => t = u,
         NEW new, new = SetClientNotes(old, c, ks)
  PROVE  /\ new \subseteq Target
         /\ \A t : t.client # c => (t \in new <=> t \in old)
         /\ \A t \in new : t.client = c => /\ t.session = session[c]
                                           /\ t.flags = ks
                                           /\ ks # {}
         /\ ks # {} => \E t \in new : t.client = c
         /\ \A t, u \in new : t.client = c /\ u.client = c => t = u
  <1> DEFINE mine == {t \in old : t.client = c}
             rec == [client |-> c, session |-> session[c], flags |-> ks]
             mended == {[t EXCEPT !.flags = ks] : t \in mine}
  <1>1. rec \in Target /\ rec.client = c /\ rec.session = session[c] /\ rec.flags = ks
    BY DEF Target
  <1>2. ASSUME NEW t \in mine PROVE [t EXCEPT !.flags = ks] = rec
    <2>1. t = [client |-> c, session |-> session[c], flags |-> t.flags]
      BY DEF Target
    <2> QED
      BY <2>1
  <1>3. CASE ks = {}
    <2>1. new = old \ mine
      BY <1>3 DEF SetClientNotes
    <2> QED
      BY <1>3, <2>1
  <1>4. CASE ks # {} /\ mine = {}
    <2>1. new = (old \ mine) \cup {rec}
      BY <1>4 DEF SetClientNotes
    <2> HIDE DEF rec
    <2> QED
      BY <1>1, <1>4, <2>1
  <1>5. CASE ks # {} /\ mine # {}
    <2>1. mended = {rec}
      BY <1>2, <1>5
    <2>2. new = (old \ mine) \cup mended
      BY <1>5 DEF SetClientNotes
    <2> HIDE DEF rec, mended
    <2> QED
      BY <1>1, <1>5, <2>1, <2>2
  <1> QED
    BY <1>3, <1>4, <1>5

\* The flags sricd holds for a client with at most one record.
LEMMA RegisteredIs ==
  ASSUME NEW c, NEW a, NEW ks,
         \A t \in targets[a] : t.client = c => t.flags = ks,
         ks # {} => \E t \in targets[a] : t.client = c
  PROVE  Registered(c, a) = ks
  BY DEF Registered

\* The records of one live client are rewritten for the devices in A: it has
\* the flags it asked for there, and nobody else's change.
LEMMA TargetsRewritten ==
  ASSUME NInv, NEW c \in Clients, NEW ks \in SUBSET Kinds, NEW A, conn[c],
         targets' = [a \in Addresses |->
                       IF a \in A THEN SetClientNotes(targets[a], c, ks)
                                  ELSE targets[a]],
         UNCHANGED <<session, received>>,
         \A d \in Clients : d # c => conn'[d] = conn[d],
         conn'[c] \/ (ks = {} /\ Addresses \subseteq A)
  PROVE  /\ TargetTypeOK' /\ TargetsAlive'
         /\ \A a \in Addresses, d \in Clients :
              Registered(d, a)' = IF d = c /\ a \in A THEN ks ELSE Registered(d, a)
  <1> USE NotesAssumption
  <1>1. session[c] \in 1 .. MaxSessions
    BY DEF NInv, ProgramTypeOK, LiveCounted
  <1>2. targets \in [Addresses -> SUBSET Target]
    BY DEF NInv, TargetTypeOK
  <1>3. ASSUME NEW a \in Addresses, NEW new, new = SetClientNotes(targets[a], c, ks)
        PROVE  /\ new \subseteq Target
               /\ \A t : t.client # c => (t \in new <=> t \in targets[a])
               /\ \A t \in new : t.client = c => /\ t.session = session[c]
                                                 /\ t.flags = ks
                                                 /\ ks # {}
               /\ ks # {} => \E t \in new : t.client = c
               /\ \A t, u \in new : t.client = c /\ u.client = c => t = u
    <2>1. /\ targets[a] \in SUBSET Target
          /\ \A t \in targets[a] : t.client = c => t.session = session[c]
          /\ \A t, u \in targets[a] : t.client = c /\ u.client = c => t = u
      BY <1>2 DEF NInv, TargetsAlive
    <2> HIDE DEF NInv
    <2> QED
      BY <1>1, <1>3, <2>1, SetClientNotesFacts
  <1>4. ASSUME NEW a \in Addresses
        PROVE  /\ targets'[a] \subseteq Target
               /\ \A t : t.client # c => (t \in targets'[a] <=> t \in targets[a])
               /\ a \in A =>
                    /\ \A t \in targets'[a] : t.client = c => /\ t.session = session[c]
                                                            /\ t.flags = ks
                                                            /\ ks # {}
                    /\ ks # {} => \E t \in targets'[a] : t.client = c
                    /\ \A t, u \in targets'[a] : t.client = c /\ u.client = c => t = u
               /\ a \notin A => targets'[a] = targets[a]
    <2>1. CASE a \in A
      <3>1. targets'[a] = SetClientNotes(targets[a], c, ks)
        BY <2>1
      <3> QED
        BY <1>3, <2>1, <3>1
    <2>2. CASE a \notin A
      BY <1>2, <2>2
    <2> QED
      BY <2>1, <2>2
  <1>5. TargetTypeOK'
    <2>1. targets' \in [Addresses -> SUBSET Target]
      BY <1>4
    <2> QED
      BY <2>1 DEF NInv, TargetTypeOK
  <1>6. TargetsAlive'
    <2> SUFFICES ASSUME NEW a \in Addresses, NEW t \in targets'[a]
                 PROVE  /\ conn'[t.client] /\ session'[t.client] = t.session
                        /\ \A u \in targets'[a] : u.client = t.client => u = t
      BY DEF TargetsAlive
    <2>1. t.client \in Clients
      BY <1>4 DEF Target
    <2>2. CASE t.client # c
      <3>1. t \in targets[a]
        BY <1>4, <2>2
      <3>2. \A u \in targets'[a] : u.client = t.client => u \in targets[a]
        BY <1>4, <2>2
      <3> QED
        BY <2>1, <2>2, <3>1, <3>2 DEF NInv, TargetsAlive
    <2>3. CASE t.client = c
      <3>1. CASE a \in A
        BY <1>4, <2>3, <3>1
      <3>2. CASE a \notin A
        BY <1>4, <2>3, <3>2 DEF NInv, TargetsAlive
      <3> QED
        BY <3>1, <3>2
    <2> QED
      BY <2>2, <2>3
  <1>7. ASSUME NEW a \in Addresses, NEW d \in Clients
        PROVE  Registered(d, a)' = IF d = c /\ a \in A THEN ks ELSE Registered(d, a)
    <2>1. CASE d = c /\ a \in A
      BY <1>4, <2>1 DEF Registered
    <2>2. CASE d # c
      <3>1. {u \in targets'[a] : u.client = d} = {u \in targets[a] : u.client = d}
        BY <1>4, <2>2
      <3> QED
        BY <2>2, <3>1 DEF Registered
    <2>3. CASE a \notin A
      BY <1>4, <2>3 DEF Registered
    <2> QED
      BY <2>1, <2>2, <2>3
  <1> QED
    BY <1>5, <1>6, <1>7

-----------------------------------------------------------------------------
(* The programs *)

LEMMA CommandOps ==
  /\ NoCommand \in Command /\ NoCommand.op = "none"
  /\ \A op \in {"clear", "list", "poll"} : [op |-> op] \in Command
  /\ \A a \in Addresses, ks \in SUBSET Kinds :
       /\ FlagsCommand(a, ks) \in Command
       /\ FlagsCommand(a, ks).op = "flags"
       /\ FlagsCommand(a, ks).addr = a
       /\ FlagsCommand(a, ks).flags = ks
  /\ \A k \in Command : k.op = "flags" => /\ k.addr \in Addresses
                                          /\ k.flags \in SUBSET Kinds
  BY DEF NoCommand, Command, FlagsCommand

\* Neither the targets nor what a pending command will do to them changes.
LEMMA TargetsUntouched ==
  ASSUME NInv, UNCHANGED <<conn, session, noteflags, targets, received>>,
         \A c \in Clients : \/ cmd'[c] = cmd[c]
                            \/ /\ cmd[c].op \notin {"flags", "clear"}
                               /\ cmd'[c].op \notin {"flags", "clear"}
  PROVE  TargetTypeOK' /\ TargetsAlive' /\ Cached' /\ LiveCounted'
  <1>1. TargetTypeOK' /\ TargetsAlive' /\ LiveCounted'
    BY DEF NInv, TargetTypeOK, TargetsAlive, LiveCounted
  <1>2. ASSUME NEW c \in Clients, NEW a \in Present PROVE CachedFor(c, a)'
    <2>1. CachedFor(c, a)
      BY DEF NInv, Cached
    <2>2. Registered(c, a)' = Registered(c, a)
      BY DEF Registered
    <2> QED
      BY <2>1, <2>2 DEF CachedFor
  <1> QED
    BY <1>1, <1>2 DEF Cached

LEMMA ProgramNInv ==
  ASSUME NInv, NEW c \in Clients, Program(c)
  PROVE  NInv'
  <1> USE NotesAssumption
  <1>1. PICK what, k :
          /\ Calls(c, what, k)
          /\ what \in {"flags", "clear", "list", "poll"} /\ k \in Command
          /\ \/ k.op \in {"list", "poll"} /\ UNCHANGED noteflags
             \/ /\ k.op = "clear"
                /\ noteflags' = [noteflags EXCEPT ![c] = [a \in Addresses |-> {}]]
             \/ /\ k.op = "flags"
                /\ noteflags' = [noteflags EXCEPT ![c][k.addr] = k.flags]
    <2>1. ASSUME NEW a \in Addresses, NEW ks \in FlagWords, SetFlags(c, a, ks)
          PROVE  /\ Calls(c, "flags", FlagsCommand(a, ks))
                 /\ noteflags' = [noteflags EXCEPT ![c][a] = ks]
                 /\ ks \in SUBSET Kinds
      BY <2>1 DEF SetFlags
    <2>2. CASE \E a \in Addresses, ks \in FlagWords : SetFlags(c, a, ks)
      BY <2>1, <2>2, CommandOps
    <2>3. CASE UnregisterAll(c)
      BY <2>3, CommandOps DEF UnregisterAll
    <2>4. CASE EnumerateDevices(c)
      BY <2>4, CommandOps DEF EnumerateDevices
    <2>5. CASE PollNote(c)
      BY <2>5, CommandOps DEF PollNote
    <2> QED
      BY <2>2, <2>3, <2>4, <2>5 DEF Program
  <1>2. /\ conn[c] /\ cmd[c] = NoCommand
        /\ call' = [call EXCEPT ![c] = what] /\ cmd' = [cmd EXCEPT ![c] = k]
        /\ UNCHANGED <<clientVars, socket, pollVars, targets, received>>
    BY <1>1 DEF Calls
  <1>3. k.op = "flags" => k.addr \in Addresses /\ k.flags \in SUBSET Kinds
    BY <1>1, CommandOps
  <1>4. noteflags' \in [Clients -> [Addresses -> SUBSET Kinds]]
    <2>1. noteflags \in [Clients -> [Addresses -> SUBSET Kinds]]
      BY DEF NInv, ProgramTypeOK
    <2>2. [a \in Addresses |-> {}] \in [Addresses -> SUBSET Kinds]
      OBVIOUS
    <2>3. ASSUME NEW f \in [Addresses -> SUBSET Kinds],
                 noteflags' = [noteflags EXCEPT ![c] = f]
          PROVE  noteflags' \in [Clients -> [Addresses -> SUBSET Kinds]]
      BY <2>1, <2>3
    <2>4. CASE noteflags' = [noteflags EXCEPT ![c][k.addr] = k.flags] /\ k.op = "flags"
      <3>1. [noteflags[c] EXCEPT ![k.addr] = k.flags] \in [Addresses -> SUBSET Kinds]
        BY <1>3, <2>1, <2>4
      <3> QED
        BY <2>3, <2>4, <3>1
    <2> QED
      BY <1>1, <2>1, <2>2, <2>3, <2>4
  <1>5. ProgramTypeOK' /\ LiveCounted'
    BY <1>1, <1>2, <1>4 DEF NInv, ProgramTypeOK, LiveCounted, clientVars
  <1>6. PollTypeOK' /\ NoNoteOverlooked' /\ TargetTypeOK' /\ TargetsAlive'
    BY <1>2 DEF NInv, PollTypeOK, NoNoteOverlooked, TargetTypeOK, TargetsAlive,
                pollVars, clientVars
  <1>7. \A d \in Clients : d # c => noteflags'[d] = noteflags[d] /\ cmd'[d] = cmd[d]
    BY <1>1, <1>2 DEF NInv, ProgramTypeOK
  <1>8. DeadForgotten'
    BY <1>2, <1>7 DEF NInv, DeadForgotten, pollVars, clientVars
  <1>9. Cached'
    <2> SUFFICES ASSUME NEW d \in Clients, NEW a \in Present PROVE CachedFor(d, a)'
      BY DEF Cached
    <2>1. CachedFor(d, a) /\ a \in Addresses
      BY DEF NInv, Cached
    <2>2. Registered(d, a)' = Registered(d, a)
      BY <1>2 DEF Registered
    <2>3. CASE d # c
      BY <1>7, <2>1, <2>2, <2>3 DEF CachedFor
    <2>4. CASE d = c
      <3>1. cmd'[c] = k /\ noteflags[c][a] = Registered(c, a)
        BY <1>2, <2>1, <2>4, CommandOps DEF CachedFor, NInv, ProgramTypeOK
      <3>2. noteflags \in [Clients -> [Addresses -> SUBSET Kinds]]
        BY DEF NInv, ProgramTypeOK
      <3> HIDE DEF NInv
      <3>3. CASE k.op \in {"list", "poll"} /\ UNCHANGED noteflags
        BY <2>2, <2>4, <3>1, <3>3 DEF CachedFor
      <3>4. CASE /\ k.op = "clear"
                 /\ noteflags' = [noteflags EXCEPT ![c] = [b \in Addresses |-> {}]]
        <4>1. noteflags'[c][a] = {}
          BY <2>1, <3>2, <3>4
        <4> QED
          BY <2>4, <3>1, <3>4, <4>1 DEF CachedFor
      <3>5. CASE /\ k.op = "flags"
                 /\ noteflags' = [noteflags EXCEPT ![c][k.addr] = k.flags]
        <4>1. noteflags'[c][a] = IF k.addr = a THEN k.flags ELSE noteflags[c][a]
          BY <1>3, <2>1, <3>2, <3>5
        <4> QED
          BY <2>2, <2>4, <3>1, <3>5, <4>1 DEF CachedFor
      <3> QED
        BY <1>1, <3>3, <3>4, <3>5
    <2> QED
      BY <2>3, <2>4
  <1> QED
    BY <1>5, <1>6, <1>8, <1>9 DEF NInv

LEMMA CallReturnsNInv ==
  ASSUME NInv, NEW c \in Clients, CallReturns(c)
  PROVE  NInv'
  <1>1. /\ UNCHANGED <<clientVars, noteflags, cmd, pollVars, targets, received>>
        /\ socket' = [socket EXCEPT ![c] = Tail(@)] /\ socket[c] # <<>>
        /\ call' = [call EXCEPT ![c] = AfterReply(call[c], Head(socket[c]).kind)]
    BY DEF CallReturns
  <1>2. AfterReply(call[c], Head(socket[c]).kind) \in {"idle", "failed", "lost"}
    BY DEF AfterReply
  <1>3. ProgramTypeOK'
    BY <1>1, <1>2 DEF NInv, ProgramTypeOK, clientVars
  <1>4. PollTypeOK'
    BY <1>1 DEF NInv, PollTypeOK, pollVars
  <1>5. TargetTypeOK' /\ TargetsAlive' /\ Cached' /\ LiveCounted'
    BY <1>1, TargetsUntouched DEF clientVars
  <1>6. DeadForgotten' /\ NoNoteOverlooked'
    BY <1>1 DEF NInv, DeadForgotten, NoNoteOverlooked, clientVars, pollVars
  <1> QED
    BY <1>3, <1>4, <1>5, <1>6 DEF NInv

-----------------------------------------------------------------------------
(* The commands *)

LEMMA TakesFacts ==
  ASSUME NInv, NEW c \in Clients, NEW op, op # "none", Takes(c, op)
  PROVE  /\ conn[c] /\ cmd[c] \in Command /\ cmd[c].op = op
         /\ UNCHANGED <<clientVars, noteflags, call, received>>
         /\ ProgramTypeOK' /\ LiveCounted'
         /\ cmd'[c].op = "none"
         /\ \A d \in Clients : d # c => cmd'[d] = cmd[d]
         /\ \A d \in Clients : ~conn[d] => cmd'[d] = NoCommand
  <1>1. /\ conn[c] /\ cmd[c].op = op /\ cmd' = [cmd EXCEPT ![c] = NoCommand]
        /\ UNCHANGED <<clientVars, noteflags, call, received>>
    BY DEF Takes
  <1>2. ProgramTypeOK' /\ LiveCounted'
    BY <1>1, CommandOps DEF NInv, ProgramTypeOK, LiveCounted, clientVars
  <1>3. cmd \in [Clients -> Command]
    BY DEF NInv, ProgramTypeOK
  <1>4. \A d \in Clients : ~conn[d] => cmd'[d] = NoCommand
    BY <1>1, <1>3 DEF NInv, DeadForgotten
  <1> QED
    BY <1>1, <1>2, <1>3, <1>4, CommandOps

\* A reply written, and nothing else done to the polls.
LEMMA OnlyReplies ==
  ASSUME NInv, NEW c \in Clients, NEW r \in Reply, WriteReply(c, r),
         UNCHANGED pollVars, UNCHANGED <<conn, noteflags>>,
         \A d \in Clients : ~conn[d] => cmd'[d] = NoCommand
  PROVE  PollTypeOK' /\ NoNoteOverlooked' /\ DeadForgotten'
  <1>1. socket' \in [Clients -> Seq(Reply)]
    BY DEF WriteReply, NInv, PollTypeOK
  <1> QED
    BY <1>1 DEF NInv, PollTypeOK, NoNoteOverlooked, DeadForgotten, pollVars

\* The devices that c's command is about, and the flags it asks for there.
DevicesMeant(c) == IF cmd[c].op = "flags" THEN {cmd[c].addr} ELSE Addresses

FlagsMeant(c) == IF cmd[c].op = "flags" THEN cmd[c].flags ELSE {}

\* What handle_note_flags and handle_note_clear do to the records.
LEMMA RegisterTargets ==
  ASSUME NInv, NEW c \in Clients, HandleNoteFlags(c) \/ HandleNoteClear(c)
  PROVE  /\ TargetTypeOK' /\ TargetsAlive'
         /\ \A b \in Addresses, d \in Clients :
              Registered(d, b)' = IF d = c /\ b \in DevicesMeant(c)
                                    THEN FlagsMeant(c) ELSE Registered(d, b)
  <1> USE NotesAssumption
  <1>0. PICK A, ks : A = DevicesMeant(c) /\ ks = FlagsMeant(c)
    OBVIOUS
  <1>1. PICK op \in {"flags", "clear"} : Takes(c, op)
    BY DEF HandleNoteFlags, HandleNoteClear
  <1>2. /\ conn[c] /\ cmd[c] \in Command
        /\ UNCHANGED <<clientVars, received>>
    BY <1>1, TakesFacts
  <1>3. ks \in SUBSET Kinds
    BY <1>0, <1>2, CommandOps DEF FlagsMeant
  <1>4. targets' = [b \in Addresses |->
                      IF b \in A THEN SetClientNotes(targets[b], c, ks)
                                 ELSE targets[b]]
    <2>1. targets \in [Addresses -> SUBSET Target]
      BY DEF NInv, TargetTypeOK
    <2>2. CASE HandleNoteFlags(c)
      <3>1. /\ cmd[c].op = "flags"
            /\ targets' = [targets EXCEPT ![cmd[c].addr] =
                              SetClientNotes(@, c, cmd[c].flags)]
        BY <2>2 DEF HandleNoteFlags, Takes
      <3> QED
        BY <1>0, <2>1, <3>1 DEF DevicesMeant, FlagsMeant
    <2>3. CASE HandleNoteClear(c)
      BY <1>0, <2>3 DEF HandleNoteClear, Takes, ClearClientNotes, DevicesMeant,
                        FlagsMeant
    <2> QED
      BY <2>2, <2>3
  <1>5. session' = session /\ conn' = conn /\ received' = received
    BY <1>2 DEF clientVars
  <1>6. /\ TargetTypeOK' /\ TargetsAlive'
        /\ \A b \in Addresses, d \in Clients :
             Registered(d, b)' = IF d = c /\ b \in A THEN ks ELSE Registered(d, b)
    <2>1. conn[c] /\ conn'[c] /\ \A d \in Clients : d # c => conn'[d] = conn[d]
      BY <1>2, <1>5
    <2>2. UNCHANGED <<session, received>>
      BY <1>5
    <2> QED
      BY ONLY NInv, c \in Clients, <1>3, <1>4, <2>1, <2>2, TargetsRewritten, ZenonT(40)
  <1> QED
    BY <1>0, <1>6

\* What was cached is what is now held.
LEMMA RegisterNInv ==
  ASSUME NInv, NEW c \in Clients, HandleNoteFlags(c) \/ HandleNoteClear(c)
  PROVE  NInv'
  <1> USE NotesAssumption
  <1>0. /\ TargetTypeOK' /\ TargetsAlive'
        /\ \A b \in Addresses, d \in Clients :
             Registered(d, b)' = IF d = c /\ b \in DevicesMeant(c)
                                   THEN FlagsMeant(c) ELSE Registered(d, b)
    BY RegisterTargets
  <1>1. PICK op \in {"flags", "clear"} : Takes(c, op)
    BY DEF HandleNoteFlags, HandleNoteClear
  <1>2. /\ conn[c] /\ cmd[c] \in Command /\ cmd[c].op \in {"flags", "clear"}
        /\ UNCHANGED <<clientVars, noteflags, call, received>>
        /\ ProgramTypeOK' /\ LiveCounted'
        /\ cmd'[c].op = "none"
        /\ \A d \in Clients : d # c => cmd'[d] = cmd[d]
        /\ \A d \in Clients : ~conn[d] => cmd'[d] = NoCommand
    BY <1>1, TakesFacts
  <1>3. WriteReply(c, Status("ok")) /\ UNCHANGED pollVars
    BY DEF HandleNoteFlags, HandleNoteClear
  <1>4. Status("ok") \in Reply
    BY DEF Status, Reply
  <1>5. PollTypeOK' /\ NoNoteOverlooked' /\ DeadForgotten'
    BY <1>2, <1>3, <1>4, OnlyReplies DEF clientVars
  <1>6. Cached'
    <2> SUFFICES ASSUME NEW d \in Clients, NEW b \in Present PROVE CachedFor(d, b)'
      BY DEF Cached
    <2>1. CachedFor(d, b) /\ b \in Addresses
      BY DEF NInv, Cached
    <2>2. CASE d # c
      BY <1>0, <1>2, <2>1, <2>2 DEF CachedFor
    <2>3. CASE d = c
      <3>1. noteflags[c][b] = IF b \in DevicesMeant(c) THEN FlagsMeant(c)
                                                      ELSE Registered(c, b)
        BY <1>2, <2>1, <2>3 DEF CachedFor, DevicesMeant, FlagsMeant
      <3> QED
        BY <1>0, <1>2, <2>1, <2>3, <3>1 DEF CachedFor
    <2> QED
      BY <2>2, <2>3
  <1> QED
    BY <1>0, <1>2, <1>5, <1>6 DEF NInv

\* handle_note_flags for an address without a device: sricd holds nothing of
\* it, and what libsric has cached is of no device on the bus.
LEMMA BadAddrNInv ==
  ASSUME NInv, NEW c \in Clients, HandleNoteFlagsBadAddr(c)
  PROVE  NInv'
  <1>1. /\ conn[c] /\ cmd[c].op = "flags" /\ cmd[c].addr \notin Present
        /\ UNCHANGED <<clientVars, noteflags, call, received>>
        /\ ProgramTypeOK' /\ LiveCounted'
        /\ cmd'[c].op = "none"
        /\ \A d \in Clients : d # c => cmd'[d] = cmd[d]
        /\ \A d \in Clients : ~conn[d] => cmd'[d] = NoCommand
    BY TakesFacts DEF HandleNoteFlagsBadAddr
  <1>2. Status("badaddr") \in Reply
    BY DEF Status, Reply
  <1>3. /\ WriteReply(c, Status("badaddr")) /\ UNCHANGED <<pollVars, targets>>
    BY DEF HandleNoteFlagsBadAddr
  <1>4. PollTypeOK' /\ NoNoteOverlooked' /\ DeadForgotten'
    BY <1>1, <1>2, <1>3, OnlyReplies DEF clientVars
  <1>5. TargetTypeOK' /\ TargetsAlive'
    BY <1>1, <1>3 DEF NInv, TargetTypeOK, TargetsAlive, clientVars
  <1>6. Cached'
    <2> SUFFICES ASSUME NEW d \in Clients, NEW b \in Present PROVE CachedFor(d, b)'
      BY DEF Cached
    <2>1. CachedFor(d, b) /\ Registered(d, b)' = Registered(d, b)
      BY <1>3 DEF NInv, Cached, Registered
    <2> QED
      BY <1>1, <2>1 DEF CachedFor
  <1> QED
    BY <1>1, <1>4, <1>5, <1>6 DEF NInv

\* handle_list_devices and handle_poll_note.
LEMMA ReadersNInv ==
  ASSUME NInv, NEW c \in Clients,
         \/ HandleListDevices(c) \/ HandlePollNoteNow(c) \/ HandlePollNoteZero(c)
         \/ HandlePollNoteForever(c) \/ HandlePollNoteTimed(c)
  PROVE  NInv'
  <1> USE NotesAssumption
  <1>1. PICK op \in {"list", "poll"} : Takes(c, op) /\ targets' = targets
    BY DEF HandleListDevices, HandlePollNoteNow, HandlePollNoteZero,
           HandlePollNoteForever, HandlePollNoteTimed
  <1>2. /\ conn[c] /\ cmd[c].op \in {"list", "poll"}
        /\ UNCHANGED <<clientVars, noteflags, call, received>>
        /\ ProgramTypeOK' /\ LiveCounted'
        /\ cmd'[c].op = "none"
        /\ \A d \in Clients : d # c => cmd'[d] = cmd[d]
        /\ \A d \in Clients : ~conn[d] => cmd'[d] = NoCommand
    BY <1>1, TakesFacts
  <1>3. TargetTypeOK' /\ TargetsAlive' /\ Cached'
    BY <1>1, <1>2, TargetsUntouched DEF clientVars
  <1>4. CASE HandleListDevices(c) \/ HandlePollNoteZero(c)
    <2>1. PICK r \in Reply : WriteReply(c, r) /\ UNCHANGED pollVars
      <3>1. /\ [kind |-> "devices", devices |-> Present] \in Reply
            /\ Status("timeout") \in Reply
        BY DEF Status, Reply
      <3> QED
        BY <1>4, <3>1 DEF HandleListDevices, HandlePollNoteZero
    <2>2. PollTypeOK' /\ NoNoteOverlooked' /\ DeadForgotten'
      BY <1>2, <2>1, OnlyReplies DEF clientVars
    <2> QED
      BY <1>2, <1>3, <2>2 DEF NInv
  <1>5. CASE HandlePollNoteNow(c)
    <2>1. /\ noteq[c] # <<>> /\ noteq' = [noteq EXCEPT ![c] = Tail(@)]
          /\ socket' = [socket EXCEPT ![c] = Append(@, NoteReply(Head(noteq[c])))]
          /\ UNCHANGED <<notePing, noteTimer, timers>>
      BY <1>5 DEF HandlePollNoteNow, WriteReply
    <2>2. /\ noteq \in [Clients -> Seq(NoteFrame)]
          /\ socket \in [Clients -> Seq(Reply)]
      BY DEF NInv, PollTypeOK
    <2>3. Head(noteq[c]) \in NoteFrame /\ Tail(noteq[c]) \in Seq(NoteFrame)
      BY <2>1, <2>2
    <2>4. NoteReply(Head(noteq[c])) \in Reply
      BY <2>3 DEF NoteReply, Reply
    <2>5. PollTypeOK'
      BY <2>1, <2>2, <2>3, <2>4 DEF NInv, PollTypeOK
    <2>6. NoNoteOverlooked' /\ DeadForgotten'
      BY <1>2, <2>1, <2>2 DEF NInv, NoNoteOverlooked, DeadForgotten, clientVars
    <2> QED
      BY <1>2, <1>3, <2>5, <2>6 DEF NInv
  <1>6. CASE HandlePollNoteForever(c) \/ HandlePollNoteTimed(c)
    <2>1. /\ noteq[c] = <<>> /\ noteq' = noteq /\ socket' = socket
          /\ notePing' = [notePing EXCEPT ![c] = TRUE]
      BY <1>6 DEF HandlePollNoteForever, HandlePollNoteTimed
    <2>2. /\ noteTimer' \in [Clients -> 0 .. MaxTimers] /\ timers' \subseteq Timer
          /\ \A d \in Clients : d # c => noteTimer'[d] = noteTimer[d]
      <3>1. CASE HandlePollNoteForever(c)
        BY <3>1 DEF HandlePollNoteForever, NInv, PollTypeOK
      <3>2. CASE HandlePollNoteTimed(c)
        <4>1. PICK i \in 1 .. MaxTimers :
                /\ noteTimer' = [noteTimer EXCEPT ![c] = i]
                /\ timers' = timers \cup
                     {[client |-> c, num |-> i, session |-> session[c]]}
          BY <3>2 DEF HandlePollNoteTimed
        <4>2. session[c] \in 1 .. MaxSessions
          BY <1>2 DEF NInv, ProgramTypeOK, LiveCounted
        <4>3. [client |-> c, num |-> i, session |-> session[c]] \in Timer
          BY <4>2 DEF Timer
        <4>4. noteTimer \in [Clients -> 0 .. MaxTimers] /\ timers \subseteq Timer
          BY DEF NInv, PollTypeOK
        <4>5. i \in 0 .. MaxTimers
          OBVIOUS
        <4> QED
          BY <4>1, <4>3, <4>4, <4>5
      <3> QED
        BY <1>6, <3>1, <3>2
    <2>3. PollTypeOK'
      BY <2>1, <2>2 DEF NInv, PollTypeOK
    <2>4. NoNoteOverlooked'
      BY <2>1 DEF NInv, PollTypeOK, NoNoteOverlooked
    <2>5. DeadForgotten'
      BY <1>2, <2>1, <2>2 DEF NInv, PollTypeOK, DeadForgotten, clientVars
    <2> QED
      BY <1>2, <1>3, <2>3, <2>4, <2>5 DEF NInv
  <1> QED
    BY <1>4, <1>5, <1>6

-----------------------------------------------------------------------------
(* Notes, timers and connections *)

\* client_push_note, for whoever is told of the note.  Where a poll is blocked
\* note_q is empty, so that what note_ping takes out is what came.
LEMMA PushNoteFacts ==
  ASSUME NInv, NEW hearers, NEW n \in NoteFrame, PushNote(hearers, n)
  PROVE  /\ socket' = [c \in Clients |->
              IF c \in hearers /\ notePing[c] THEN Append(socket[c], NoteReply(n))
                                             ELSE socket[c]]
         /\ noteq' = [c \in Clients |->
              IF c \in hearers /\ ~notePing[c] THEN Append(noteq[c], n)
                                              ELSE noteq[c]]
         /\ notePing' = [c \in Clients |-> notePing[c] /\ c \notin hearers]
         /\ noteTimer' = [c \in Clients |->
              IF c \in hearers /\ notePing[c] THEN 0 ELSE noteTimer[c]]
         /\ timers' = {t \in timers :
              t.client \in {c \in hearers : notePing[c]} => t.num # noteTimer[t.client]}
  <1> DEFINE with(c) == IF c \in hearers THEN Append(noteq[c], n) ELSE noteq[c]
             pinged == {c \in hearers : notePing[c]}
  <1>1. \A c \in Clients : notePing[c] => noteq[c] = <<>>
    BY DEF NInv, NoNoteOverlooked
  <1>2. Append(<<>>, n) = <<n>> /\ Head(<<n>>) = n /\ Tail(<<n>>) = <<>>
    OBVIOUS
  <1>3. \A c \in Clients : c \in pinged => /\ Head(with(c)) = n
                                          /\ Tail(with(c)) = <<>>
                                          /\ noteq[c] = <<>>
    BY <1>1, <1>2
  <1>4. /\ noteq' = [c \in Clients |->
             IF c \in pinged THEN Tail(with(c)) ELSE with(c)]
        /\ socket' = [c \in Clients |->
             IF c \in pinged THEN Append(socket[c], NoteReply(Head(with(c))))
                             ELSE socket[c]]
    BY DEF PushNote
  <1> HIDE DEF NInv
  <1>5. socket' = [c \in Clients |->
           IF c \in hearers /\ notePing[c] THEN Append(socket[c], NoteReply(n))
                                          ELSE socket[c]]
    BY <1>3, <1>4
  <1>6. noteq' = [c \in Clients |->
           IF c \in hearers /\ ~notePing[c] THEN Append(noteq[c], n)
                                           ELSE noteq[c]]
    <2>1. \A c \in Clients :
             (IF c \in pinged THEN Tail(with(c)) ELSE with(c)) =
             (IF c \in hearers /\ ~notePing[c] THEN Append(noteq[c], n)
                                             ELSE noteq[c])
      BY <1>3
    <2> HIDE DEF with, pinged
    <2> QED
      BY <1>4, <2>1
  <1>7. /\ notePing' = [c \in Clients |-> notePing[c] /\ c \notin pinged]
        /\ noteTimer' = [c \in Clients |-> IF c \in pinged THEN 0 ELSE noteTimer[c]]
        /\ timers' = {t \in timers : t.client \in pinged => t.num # noteTimer[t.client]}
    BY DEF PushNote
  <1>8. \A c \in Clients : (notePing[c] /\ c \notin pinged)
                           = (notePing[c] /\ c \notin hearers)
    OBVIOUS
  <1>9. notePing' = [c \in Clients |-> notePing[c] /\ c \notin hearers]
    BY <1>7, <1>8, Zenon
  <1>10. noteTimer' = [c \in Clients |->
           IF c \in hearers /\ notePing[c] THEN 0 ELSE noteTimer[c]]
    BY <1>7
  <1> QED
    BY <1>5, <1>6, <1>7, <1>9, <1>10

LEMMA DispatchNInv == NInv /\ Dispatch => NInv'
  <1> SUFFICES ASSUME NInv, NEW src \in Present, NEW kind, NEW bit,
                      DispatchNote(src, kind, bit)
               PROVE  NInv'
    BY DEF Dispatch
  <1> USE NotesAssumption
  <1>1. PICK hearers, n :
          n = [num |-> received + 1, src |-> src] /\ PushNote(hearers, n)
    BY DEF DispatchNote
  <1>2. /\ received < MaxNotes /\ received' = received + 1
        /\ UNCHANGED <<clientVars, callVars, targets>>
    BY DEF DispatchNote
  <1>3. received' \in 1 .. MaxNotes /\ n \in NoteFrame
    BY <1>1, <1>2 DEF NInv, TargetTypeOK, NoteFrame
  <1>4. NoteReply(n) \in Reply
    BY <1>3 DEF NoteReply, Reply
  <1>5. /\ socket' = [c \in Clients |->
             IF c \in hearers /\ notePing[c] THEN Append(socket[c], NoteReply(n))
                                            ELSE socket[c]]
        /\ noteq' = [c \in Clients |->
             IF c \in hearers /\ ~notePing[c] THEN Append(noteq[c], n)
                                             ELSE noteq[c]]
        /\ notePing' = [c \in Clients |-> notePing[c] /\ c \notin hearers]
        /\ noteTimer' = [c \in Clients |->
             IF c \in hearers /\ notePing[c] THEN 0 ELSE noteTimer[c]]
        /\ timers' \subseteq timers
    BY <1>1, <1>3, PushNoteFacts
  <1>6. PollTypeOK'
    <2>1. /\ socket \in [Clients -> Seq(Reply)] /\ noteq \in [Clients -> Seq(NoteFrame)]
          /\ noteTimer \in [Clients -> 0 .. MaxTimers] /\ timers \subseteq Timer
      BY DEF NInv, PollTypeOK
    <2>2. socket' \in [Clients -> Seq(Reply)]
      BY <1>4, <1>5, <2>1
    <2>3. noteq' \in [Clients -> Seq(NoteFrame)]
      BY <1>3, <1>5, <2>1
    <2>4. noteTimer' \in [Clients -> 0 .. MaxTimers]
      BY <1>5, <2>1
    <2>5. notePing' \in [Clients -> BOOLEAN]
      BY <1>5
    <2> QED
      BY <1>5, <2>1, <2>2, <2>3, <2>4, <2>5 DEF PollTypeOK
  <1>7. NoNoteOverlooked'
    BY <1>5 DEF NInv, NoNoteOverlooked
  <1>8. ProgramTypeOK' /\ LiveCounted'
    BY <1>2 DEF NInv, ProgramTypeOK, LiveCounted, clientVars, callVars
  <1>9. DeadForgotten'
    BY <1>2, <1>5 DEF NInv, DeadForgotten, clientVars, callVars
  <1>10. TargetTypeOK' /\ TargetsAlive'
    BY <1>2, <1>3 DEF NInv, TargetTypeOK, TargetsAlive, clientVars
  <1>11. Cached'
    <2>1. \A c, a : Registered(c, a)' = Registered(c, a)
      BY <1>2 DEF Registered
    <2> QED
      BY <1>2, <2>1 DEF NInv, Cached, CachedFor, callVars
  <1> QED
    BY <1>6, <1>7, <1>8, <1>9, <1>10, <1>11 DEF NInv

LEMMA TimeoutNInv ==
  ASSUME NInv, NEW t \in timers, NoteTimeout(t) \/ NoteTimeoutOfDead(t)
  PROVE  NInv'
  <1> USE NotesAssumption
  <1>1. t.client \in Clients /\ timers' = timers \ {t}
    BY DEF NInv, PollTypeOK, Timer, NoteTimeout, NoteTimeoutOfDead
  <1>2. UNCHANGED <<clientVars, callVars, noteq, notePing, targets, received>>
    BY DEF NoteTimeout, NoteTimeoutOfDead
  <1>3. Status("timeout") \in Reply
    BY DEF Status, Reply
  <1>4. noteTimer' \in [Clients -> 0 .. MaxTimers]
        /\ \A c \in Clients : noteTimer'[c] \in {0, noteTimer[c]}
    <2>1. noteTimer \in [Clients -> 0 .. MaxTimers] /\ 0 \in 0 .. MaxTimers
      BY DEF NInv, PollTypeOK
    <2> QED
      BY <1>1, <2>1 DEF NoteTimeout, NoteTimeoutOfDead
  <1>5. socket' \in [Clients -> Seq(Reply)]
    <2>1. ASSUME NEW d \in Clients, WriteReply(d, Status("timeout"))
          PROVE  socket' \in [Clients -> Seq(Reply)]
      BY <1>3, <2>1 DEF WriteReply, NInv, PollTypeOK
    <2>2. CASE NoteTimeout(t)
      BY <1>1, <2>1, <2>2 DEF NoteTimeout
    <2>3. CASE NoteTimeoutOfDead(t)
      BY <2>1, <2>3 DEF NoteTimeoutOfDead, NInv, PollTypeOK
    <2> QED
      BY <2>2, <2>3
  <1>6. PollTypeOK'
    BY <1>1, <1>2, <1>4, <1>5 DEF NInv, PollTypeOK
  <1>7. ProgramTypeOK'
    BY <1>2 DEF NInv, ProgramTypeOK, clientVars, callVars
  <1>8. DeadForgotten' /\ NoNoteOverlooked'
    BY <1>2, <1>4 DEF NInv, DeadForgotten, NoNoteOverlooked, clientVars, callVars
  <1>9. TargetTypeOK' /\ TargetsAlive' /\ Cached' /\ LiveCounted'
    BY <1>2, TargetsUntouched DEF clientVars, callVars
  <1> QED
    BY <1>6, <1>7, <1>8, <1>9 DEF NInv

LEMMA IpcNewNInv ==
  ASSUME NInv, NEW c \in Clients, IpcNew(c)
  PROVE  NInv'
  <1> USE NotesAssumption
  <1>1. PICK n \in 1 .. MaxSessions : session' = [session EXCEPT ![c] = n]
    BY DEF IpcNew
  <1>2. /\ ~conn[c] /\ conn' = [conn EXCEPT ![c] = TRUE]
        /\ UNCHANGED <<manners, callVars, socket, pollVars, targets, received>>
    BY DEF IpcNew
  <1>3. ProgramTypeOK' /\ LiveCounted'
    BY <1>1, <1>2 DEF NInv, ProgramTypeOK, LiveCounted, callVars
  <1>4. PollTypeOK' /\ NoNoteOverlooked'
    BY <1>2 DEF NInv, PollTypeOK, NoNoteOverlooked, pollVars
  <1>5. DeadForgotten'
    BY <1>2 DEF NInv, ProgramTypeOK, DeadForgotten, pollVars, callVars
  <1>6. TargetTypeOK'
    BY <1>2 DEF NInv, TargetTypeOK
  <1>7. TargetsAlive'
    BY <1>1, <1>2 DEF NInv, ProgramTypeOK, TargetsAlive
  <1>8. Cached'
    <2>1. \A d, a : Registered(d, a)' = Registered(d, a)
      BY <1>2 DEF Registered
    <2> QED
      BY <1>2, <2>1 DEF NInv, Cached, CachedFor, callVars
  <1> QED
    BY <1>3, <1>4, <1>5, <1>6, <1>7, <1>8 DEF NInv

\* What client_destroy does to the records.
LEMMA ClientDeathTargets ==
  ASSUME NInv, NEW c \in Clients, IpcClientDeath(c)
  PROVE  /\ TargetTypeOK' /\ TargetsAlive'
         /\ \A b \in Addresses, d \in Clients :
              Registered(d, b)' = IF d = c THEN {} ELSE Registered(d, b)
  <1>1. /\ conn[c] /\ conn' = [conn EXCEPT ![c] = FALSE]
        /\ UNCHANGED <<session, received>>
    BY DEF IpcClientDeath
  <1>2. PICK A, ks : A = Addresses /\ ks = {}
    OBVIOUS
  <1>3. targets' = [a \in Addresses |->
                      IF a \in A THEN SetClientNotes(targets[a], c, ks)
                                 ELSE targets[a]]
    BY <1>2 DEF IpcClientDeath, ClearClientNotes
  <1>4. conn[c] /\ \A d \in Clients : d # c => conn'[d] = conn[d]
    BY <1>1 DEF NInv, ProgramTypeOK
  <1>5. ks \in SUBSET Kinds /\ (conn'[c] \/ (ks = {} /\ Addresses \subseteq A))
    BY <1>2
  <1>6. UNCHANGED <<session, received>>
    BY <1>1
  <1>7. /\ TargetTypeOK' /\ TargetsAlive'
        /\ \A b \in Addresses, d \in Clients :
             Registered(d, b)' = IF d = c /\ b \in A THEN ks ELSE Registered(d, b)
    BY ONLY NInv, c \in Clients, <1>3, <1>4, <1>5, <1>6, TargetsRewritten, ZenonT(40)
  <1> QED
    BY <1>2, <1>7

LEMMA ClientDeathNInv ==
  ASSUME NInv, NEW c \in Clients, IpcClientDeath(c)
  PROVE  NInv'
  <1> USE NotesAssumption
  <1>1. /\ conn[c] /\ conn' = [conn EXCEPT ![c] = FALSE]
        /\ call' = [call EXCEPT ![c] = "idle"]
        /\ cmd' = [cmd EXCEPT ![c] = NoCommand]
        /\ noteflags' = [noteflags EXCEPT ![c] = [a \in Addresses |-> {}]]
        /\ socket' = [socket EXCEPT ![c] = <<>>]
        /\ noteq' = [noteq EXCEPT ![c] = <<>>]
        /\ notePing' = [notePing EXCEPT ![c] = FALSE]
        /\ noteTimer' = [noteTimer EXCEPT ![c] = 0]
        /\ UNCHANGED <<manners, session, timers, received>>
    BY DEF IpcClientDeath
  <1>2. ProgramTypeOK'
    BY <1>1, CommandOps DEF NInv, ProgramTypeOK
  <1>3. PollTypeOK'
    BY <1>1 DEF NInv, PollTypeOK
  <1>4. NoNoteOverlooked' /\ LiveCounted'
    BY <1>1 DEF NInv, ProgramTypeOK, PollTypeOK, NoNoteOverlooked, LiveCounted
  <1>5. DeadForgotten'
    BY <1>1 DEF NInv, ProgramTypeOK, PollTypeOK, DeadForgotten
  <1>6. /\ TargetTypeOK' /\ TargetsAlive'
        /\ \A b \in Addresses, d \in Clients :
             Registered(d, b)' = IF d = c THEN {} ELSE Registered(d, b)
    BY ClientDeathTargets
  <1>7. Cached'
    <2> SUFFICES ASSUME NEW d \in Clients, NEW b \in Present PROVE CachedFor(d, b)'
      BY DEF Cached
    <2>1. CachedFor(d, b) /\ b \in Addresses
      BY DEF NInv, Cached
    <2>2. CASE d # c
      BY <1>1, <1>6, <2>1, <2>2 DEF NInv, ProgramTypeOK, CachedFor
    <2>3. CASE d = c
      <3>1. cmd'[c] = NoCommand /\ noteflags'[c][b] = {}
        BY <1>1, <2>1 DEF NInv, ProgramTypeOK
      <3> QED
        BY <1>6, <2>1, <2>3, <3>1, CommandOps DEF CachedFor
    <2> QED
      BY <2>2, <2>3
  <1> QED
    BY <1>2, <1>3, <1>4, <1>5, <1>6, <1>7 DEF NInv

LEMMA NextNInv == NInv /\ [Next]_vars => NInv'
  <1> SUFFICES ASSUME NInv, [Next]_vars PROVE NInv'
    OBVIOUS
  <1>1. CASE UNCHANGED vars
    <2>1. \A c, a : Registered(c, a)' = Registered(c, a)
      BY <1>1 DEF vars, Registered
    <2>2. Cached'
      BY <1>1, <2>1 DEF vars, callVars, NInv, Cached, CachedFor
    <2> QED
      BY <1>1, <2>2 DEF vars, clientVars, callVars, pollVars, NInv, ProgramTypeOK,
           PollTypeOK, TargetTypeOK, DeadForgotten, LiveCounted, TargetsAlive,
           NoNoteOverlooked
  <1>2. ASSUME NEW c \in Clients, Handle(c) PROVE NInv'
    BY <1>2, RegisterNInv, BadAddrNInv, ReadersNInv DEF Handle
  <1> QED
    BY <1>1, <1>2, ProgramNInv, CallReturnsNInv, DispatchNInv, TimeoutNInv,
       IpcNewNInv, ClientDeathNInv DEF Next

LEMMA NotesInvariant == Spec => []NInv
  BY InitNInv, NextNInv, PTL DEF Spec

\* Every variable of the note service keeps to its type: in particular each
\* queued note is one that came, and note_timer the number of a source or 0.
THEOREM NotesTypeCorrect == Spec => []NotesTypeOK
  <1>1. NInv => NotesTypeOK
    BY DEF NInv, ProgramTypeOK, PollTypeOK, TargetTypeOK, NotesTypeOK
  <1> QED
    BY <1>1, NotesInvariant, PTL

\* device_dispatch_note never follows a record to a client that is freed, or to
\* the next client at the same address, and tells nobody twice of one note.
THEOREM TargetsStayAlive == Spec => []TargetsAlive
  <1>1. NInv => TargetsAlive
    BY DEF NInv
  <1> QED
    BY <1>1, NotesInvariant, PTL

\* For a device on the bus, what libsric has cached is what sricd holds, as
\* soon as no command that changes it is on its way.
THEOREM FlagsStayInAgreement == Spec => []FlagsAgree
  <1>1. NInv => FlagsAgree
    <2> SUFFICES ASSUME NInv, NEW c \in Clients, NEW a \in Present,
                        cmd[c].op \notin {"flags", "clear"}
                 PROVE  noteflags[c][a] = Registered(c, a)
      BY DEF FlagsAgree, CacheAgrees
    <2> QED
      BY DEF NInv, Cached, CachedFor
  <1> QED
    BY <1>1, NotesInvariant, PTL

\* Whatever the programs do, no note lies in note_q behind a blocked poll: the
\* assert(note) of note_ping holds and the note it pops is the new one.
THEOREM NotesNeverOverlooked == Spec => []NoNoteOverlooked
  <1>1. NInv => NoNoteOverlooked
    BY DEF NInv
  <1> QED
    BY <1>1, NotesInvariant, PTL

-----------------------------------------------------------------------------
(* Clean programs, those that close only between calls and always after a  *)
(* poll that timed out: no call of libsric takes the reply to another for  *)
(* its own.  The invariant says, of each program, in which of six phases   *)
(* its call is, what the socket holds then and whether a note timer may be *)
(* armed.                                                                  *)

Unarmed(c) == \A t \in timers : t.client # c

ArmedOnce(c) ==
  \A t \in timers : t.client = c => t.num = noteTimer[c] /\ t.session = session[c]

Resting(c) == /\ call[c] = "idle" /\ cmd[c] = NoCommand /\ socket[c] = <<>>
              /\ ~notePing[c] /\ Unarmed(c)
Calling(c) == /\ InCall(c) /\ cmd[c].op = call[c] /\ socket[c] = <<>>
              /\ ~notePing[c] /\ Unarmed(c)
Replied(c) == /\ InCall(c) /\ cmd[c] = NoCommand
              /\ \E r \in Reply : /\ socket[c] = <<r>>
                                  /\ AfterReply(call[c], r.kind) = "idle"
              /\ ~notePing[c] /\ Unarmed(c)
Blocked(c) == /\ call[c] = "poll" /\ cmd[c] = NoCommand /\ socket[c] = <<>>
              /\ notePing[c] /\ ArmedOnce(c)
TimedOut(c) == /\ call[c] = "poll" /\ cmd[c] = NoCommand /\ socket[c] # <<>>
               /\ Head(socket[c]).kind = "timeout"
               /\ Unarmed(c)
GivenUp(c) == call[c] = "failed" /\ cmd[c] = NoCommand /\ Unarmed(c)

InStep(c) ==
  /\ ~conn[c] => Resting(c)
  /\ \/ Resting(c) \/ Calling(c) \/ Replied(c)
     \/ Blocked(c) \/ TimedOut(c) \/ GivenUp(c)

StepInv == Clean => \A c \in Clients : InStep(c)

LEMMA InitStepInv == Init => StepInv
  BY DEF Init, StepInv, InStep, Resting, Unarmed

-----------------------------------------------------------------------------
(* A program that a step does not touch *)

Same(d) ==
  /\ call'[d] = call[d] /\ cmd'[d] = cmd[d] /\ socket'[d] = socket[d]
  /\ notePing'[d] = notePing[d] /\ noteTimer'[d] = noteTimer[d]
  /\ session'[d] = session[d]
  /\ \A t : t.client = d => (t \in timers' <=> t \in timers)
  /\ ~conn'[d] => ~conn[d]
  /\ manners' = manners

LEMMA SameInStep ==
  ASSUME NEW d, InStep(d), Same(d)
  PROVE  InStep(d)'
  <1>1. Unarmed(d) => Unarmed(d)'
    BY DEF Unarmed, Same
  <1>2. ArmedOnce(d) => ArmedOnce(d)'
    BY DEF ArmedOnce, Same
  <1>3. \A k, r : AfterReply(k, r)' = AfterReply(k, r)
    BY DEF AfterReply, Clean, Same
  <1>4. Resting(d) => Resting(d)'
    BY <1>1 DEF Resting, Same
  <1>5. Replied(d) => Replied(d)'
    BY <1>1, <1>3 DEF Replied, InCall, Same
  <1> QED
    BY <1>1, <1>2, <1>4, <1>5 DEF InStep, Calling, InCall, Blocked, TimedOut,
                                  GivenUp, Same

-----------------------------------------------------------------------------
(* One lemma per group of actions: the program concerned goes from phase   *)
(* to phase, the others stay where they are.                               *)

LEMMA CallsInStep ==
  ASSUME Clean, NInv, StepInv, NEW c \in Clients, Program(c) \/ CallReturns(c)
  PROVE  StepInv'
  <1> SUFFICES ASSUME NEW d \in Clients PROVE InStep(d)'
    BY DEF StepInv
  <1>1. /\ call \in [Clients -> {"idle", "flags", "clear", "list", "poll",
                                 "failed", "lost"}]
        /\ cmd \in [Clients -> Command] /\ socket \in [Clients -> Seq(Reply)]
    BY DEF NInv, ProgramTypeOK, PollTypeOK
  <1>2. InStep(c) /\ InStep(d)
    BY DEF StepInv
  <1>3. CASE Program(c)
    <2>1. PICK k : /\ Calls(c, k.op, k)
                   /\ k.op \in {"flags", "clear", "list", "poll"}
      <3>1. CASE \E a \in Addresses, ks \in FlagWords : SetFlags(c, a, ks)
        BY <3>1 DEF SetFlags, FlagsCommand
      <3>2. CASE UnregisterAll(c) \/ EnumerateDevices(c) \/ PollNote(c)
        BY <3>2 DEF UnregisterAll, EnumerateDevices, PollNote
      <3> QED
        BY <1>3, <3>1, <3>2 DEF Program
    <2>2. /\ conn[c] /\ call[c] = "idle"
          /\ call' = [call EXCEPT ![c] = k.op] /\ cmd' = [cmd EXCEPT ![c] = k]
          /\ UNCHANGED <<clientVars, socket, pollVars>>
      BY <2>1 DEF Calls
    <2>3. CASE d # c
      <3>1. Same(d)
        BY <1>1, <2>2, <2>3 DEF Same, clientVars, pollVars
      <3> QED
        BY <1>2, <3>1, SameInStep
    <2>4. CASE d = c
      <3>1. Resting(c)
        BY <1>2, <2>2 DEF InStep, Calling, InCall, Replied, Blocked, TimedOut,
                          GivenUp
      <3>2. Calling(c)' /\ conn'[c]
        BY <1>1, <2>1, <2>2, <3>1
           DEF Resting, Calling, InCall, Unarmed, clientVars, pollVars
      <3> QED
        BY <2>4, <3>2 DEF InStep
    <2> QED
      BY <2>3, <2>4
  <1>4. CASE CallReturns(c)
    <2> DEFINE r == Head(socket[c])
    <2>1. /\ conn[c] /\ InCall(c) /\ socket[c] # <<>>
          /\ call' = [call EXCEPT ![c] = AfterReply(call[c], r.kind)]
          /\ socket' = [socket EXCEPT ![c] = Tail(@)]
          /\ UNCHANGED <<clientVars, cmd, pollVars>>
      BY <1>4 DEF CallReturns
    <2>2. CASE d # c
      <3>1. Same(d)
        BY <1>1, <2>1, <2>2 DEF Same, clientVars, pollVars
      <3> QED
        BY <1>2, <3>1, SameInStep
    <2>3. CASE d = c
      <3>1. Replied(c) \/ TimedOut(c)
        BY <1>2, <2>1 DEF InStep, Resting, Calling, InCall, Blocked, GivenUp
      <3>2. CASE Replied(c)
        <4>1. PICK q \in Reply : /\ socket[c] = <<q>>
                                 /\ AfterReply(call[c], q.kind) = "idle"
          BY <3>2 DEF Replied
        <4>2. r = q /\ Tail(socket[c]) = <<>>
          BY <4>1
        <4>3. Resting(c)'
          BY <1>1, <2>1, <3>2, <4>1, <4>2
             DEF Replied, Resting, Unarmed, clientVars, pollVars
        <4> QED
          BY <2>3, <4>3 DEF InStep
      <3>3. CASE TimedOut(c)
        <4>1. AfterReply(call[c], r.kind) = "failed"
          BY <3>3, Clean DEF TimedOut, AfterReply
        <4>2. GivenUp(c)' /\ conn'[c]
          BY <1>1, <2>1, <3>3, <4>1
             DEF TimedOut, GivenUp, Unarmed, clientVars, pollVars
        <4> QED
          BY <2>3, <4>2 DEF InStep
      <3> QED
        BY <3>1, <3>2, <3>3
    <2> QED
      BY <2>2, <2>3
  <1> QED
    BY <1>3, <1>4

LEMMA HandleInStep ==
  ASSUME Clean, NInv, StepInv, NEW c \in Clients, Handle(c)
  PROVE  StepInv'
  <1> SUFFICES ASSUME NEW d \in Clients PROVE InStep(d)'
    BY DEF StepInv
  <1>1. /\ cmd \in [Clients -> Command] /\ socket \in [Clients -> Seq(Reply)]
        /\ noteq \in [Clients -> Seq(NoteFrame)]
        /\ notePing \in [Clients -> BOOLEAN]
        /\ noteTimer \in [Clients -> 0 .. MaxTimers]
    BY DEF NInv, ProgramTypeOK, PollTypeOK
  <1>2. InStep(c) /\ InStep(d)
    BY DEF StepInv
  <1>3. PICK op \in {"flags", "clear", "list", "poll"} :
          Takes(c, op) /\ (op = "poll" \/ \E r \in Reply :
                             /\ WriteReply(c, r) /\ UNCHANGED pollVars
                             /\ AfterReply(op, r.kind) = "idle")
    <2>1. /\ Status("ok") \in Reply /\ Status("badaddr") \in Reply
          /\ [kind |-> "devices", devices |-> Present] \in Reply
      BY NotesAssumption DEF Status, Reply
    <2>2. CASE HandleNoteFlags(c) \/ HandleNoteClear(c)
      BY <2>1, <2>2 DEF HandleNoteFlags, HandleNoteClear, AfterReply, Status
    <2>3. CASE HandleNoteFlagsBadAddr(c)
      BY <2>1, <2>3 DEF HandleNoteFlagsBadAddr, AfterReply, Status
    <2>4. CASE HandleListDevices(c)
      BY <2>1, <2>4 DEF HandleListDevices, AfterReply
    <2>5. CASE HandlePollNoteNow(c) \/ HandlePollNoteZero(c)
                 \/ HandlePollNoteForever(c) \/ HandlePollNoteTimed(c)
      BY <2>5 DEF HandlePollNoteNow, HandlePollNoteZero, HandlePollNoteForever,
                  HandlePollNoteTimed
    <2> QED
      BY <2>2, <2>3, <2>4, <2>5 DEF Handle
  <1>4. /\ conn[c] /\ cmd[c].op = op /\ cmd' = [cmd EXCEPT ![c] = NoCommand]
        /\ UNCHANGED <<clientVars, call>>
    BY <1>3 DEF Takes
  <1>5. CASE d # c
    <2>1. /\ socket'[d] = socket[d] /\ notePing'[d] = notePing[d]
          /\ noteTimer'[d] = noteTimer[d]
          /\ \A t : t.client = d => (t \in timers' <=> t \in timers)
      BY <1>1, <1>5 DEF Handle, HandleNoteFlags, HandleNoteFlagsBadAddr,
           HandleNoteClear, HandleListDevices, HandlePollNoteNow,
           HandlePollNoteZero, HandlePollNoteForever, HandlePollNoteTimed,
           WriteReply, pollVars
    <2>2. Same(d)
      BY <1>1, <1>4, <1>5, <2>1 DEF Same, clientVars
    <2> QED
      BY <1>2, <2>2, SameInStep
  <1>6. CASE d = c
    <2>1. Calling(c) /\ call[c] = op
      BY <1>2, <1>3, <1>4, CommandOps
         DEF InStep, Resting, Calling, Replied, Blocked, TimedOut, GivenUp
    <2>2. /\ ~notePing[c] /\ Unarmed(c) /\ InCall(c) /\ socket[c] = <<>>
          /\ cmd'[c] = NoCommand /\ call'[c] = op /\ conn'[c] /\ InCall(c)'
          /\ \A k, r : AfterReply(k, r)' = AfterReply(k, r)
      BY <1>1, <1>4, <2>1 DEF Calling, InCall, clientVars, AfterReply, Clean
    <2>3. ASSUME NEW r \in Reply, WriteReply(c, r)
          PROVE  socket'[c] = <<r>>
      BY <1>1, <2>2, <2>3 DEF WriteReply
    <2>4. ASSUME NEW r \in Reply, WriteReply(c, r), UNCHANGED <<notePing, timers>>,
                 AfterReply(op, r.kind) = "idle"
          PROVE  InStep(c)'
      <3>1. Replied(c)'
        BY <2>2, <2>3, <2>4 DEF Replied, Unarmed
      <3> QED
        BY <2>2, <3>1 DEF InStep
    <2>5. CASE op # "poll"
      BY <1>3, <1>6, <2>4, <2>5 DEF pollVars
    <2>6. CASE op = "poll"
      <3>1. CASE HandlePollNoteNow(c)
        <4>1. Head(noteq[c]) \in NoteFrame
          BY <1>1, <3>1 DEF HandlePollNoteNow
        <4>2. NoteReply(Head(noteq[c])) \in Reply
              /\ NoteReply(Head(noteq[c])).kind = "note"
          BY <4>1 DEF NoteReply, Reply
        <4>3. AfterReply(op, "note") = "idle"
          BY <2>6 DEF AfterReply
        <4> QED
          BY <1>6, <2>4, <3>1, <4>2, <4>3 DEF HandlePollNoteNow
      <3>2. CASE HandlePollNoteZero(c)
        <4>1. Status("timeout") \in Reply /\ Status("timeout").kind = "timeout"
          BY DEF Status, Reply
        <4>2. socket'[c] = <<Status("timeout")>> /\ timers' = timers
          BY <2>3, <3>2, <4>1 DEF HandlePollNoteZero, pollVars
        <4>3. TimedOut(c)'
          BY <2>2, <2>6, <4>1, <4>2 DEF TimedOut, Unarmed
        <4> QED
          BY <1>6, <2>2, <4>3 DEF InStep
      <3>3. CASE HandlePollNoteForever(c)
        <4>1. Blocked(c)'
          BY <1>1, <2>2, <2>6, <3>3
             DEF HandlePollNoteForever, Blocked, ArmedOnce, Unarmed
        <4> QED
          BY <1>6, <2>2, <4>1 DEF InStep
      <3>4. CASE HandlePollNoteTimed(c)
        <4>1. PICK i \in 1 .. MaxTimers :
                /\ noteTimer' = [noteTimer EXCEPT ![c] = i]
                /\ timers' = timers \cup
                     {[client |-> c, num |-> i, session |-> session[c]]}
          BY <3>4 DEF HandlePollNoteTimed
        <4>2. noteTimer'[c] = i /\ session' = session
          BY <1>1, <1>4, <4>1 DEF clientVars
        <4>3. ArmedOnce(c)'
          BY <2>2, <4>1, <4>2 DEF ArmedOnce, Unarmed
        <4>4. Blocked(c)'
          BY <1>1, <2>2, <2>6, <3>4, <4>3 DEF HandlePollNoteTimed, Blocked
        <4> QED
          BY <1>6, <2>2, <4>4 DEF InStep
      <3> QED
        BY <1>4, <2>6, <3>1, <3>2, <3>3, <3>4
           DEF Handle, HandleNoteFlags, HandleNoteFlagsBadAddr, HandleNoteClear,
               HandleListDevices, Takes
    <2> QED
      BY <2>5, <2>6
  <1> QED
    BY <1>5, <1>6

LEMMA DispatchInStep == Clean /\ NInv /\ StepInv /\ Dispatch => StepInv'
  <1> SUFFICES ASSUME Clean, NInv, StepInv, NEW d \in Clients,
                      NEW src \in Present, NEW kind, NEW bit,
                      DispatchNote(src, kind, bit)
               PROVE  InStep(d)'
    BY DEF Dispatch, StepInv
  <1> USE NotesAssumption
  <1>1. PICK hearers, n :
          n = [num |-> received + 1, src |-> src] /\ PushNote(hearers, n)
    BY DEF DispatchNote
  <1>2. received < MaxNotes /\ UNCHANGED <<clientVars, callVars, targets>>
    BY DEF DispatchNote
  <1>3. n \in NoteFrame
    BY <1>1, <1>2 DEF NInv, TargetTypeOK, NoteFrame
  <1>4. /\ socket' = [c \in Clients |->
             IF c \in hearers /\ notePing[c] THEN Append(socket[c], NoteReply(n))
                                            ELSE socket[c]]
        /\ notePing' = [c \in Clients |-> notePing[c] /\ c \notin hearers]
        /\ noteTimer' = [c \in Clients |->
             IF c \in hearers /\ notePing[c] THEN 0 ELSE noteTimer[c]]
        /\ timers' = {t \in timers :
             t.client \in {c \in hearers : notePing[c]} => t.num # noteTimer[t.client]}
    BY <1>1, <1>3, PushNoteFacts
  <1>5. InStep(d) /\ notePing[d] \in BOOLEAN /\ socket[d] \in Seq(Reply)
    BY DEF StepInv, NInv, PollTypeOK
  <1>6. CASE ~(d \in hearers /\ notePing[d])
    <2>1. Same(d)
      BY <1>2, <1>4, <1>5, <1>6 DEF Same, clientVars, callVars
    <2> QED
      BY <1>5, <2>1, SameInStep
  <1>7. CASE d \in hearers /\ notePing[d]
    <2>1. /\ socket'[d] = Append(socket[d], NoteReply(n)) /\ ~notePing'[d]
          /\ call' = call /\ cmd' = cmd /\ conn' = conn
          /\ \A t \in timers' : t \in timers
                 /\ (t.client = d => t.num # noteTimer[d])
      BY <1>2, <1>4, <1>7 DEF clientVars, callVars
    <2>2. conn[d] /\ (Blocked(d) \/ TimedOut(d) \/ GivenUp(d))
      BY <1>5, <1>7 DEF InStep, Resting, Calling, Replied
    <2>3. CASE Blocked(d)
      <3>1. NoteReply(n) \in Reply /\ NoteReply(n).kind = "note"
        BY <1>3 DEF NoteReply, Reply
      <3>2. socket'[d] = <<NoteReply(n)>>
        BY <2>1, <2>3 DEF Blocked
      <3>3. AfterReply(call[d], NoteReply(n).kind)' = "idle"
        BY <2>1, <2>3, <3>1 DEF Blocked, AfterReply
      <3>4. Unarmed(d)'
        BY <2>1, <2>3 DEF Blocked, ArmedOnce, Unarmed
      <3>5. \E r \in Reply : /\ socket'[d] = <<r>>
                              /\ AfterReply(call[d], r.kind)' = "idle"
        BY <3>1, <3>2, <3>3, <2>1 DEF AfterReply
      <3>6. Replied(d)'
        BY <2>1, <2>3, <3>4, <3>5 DEF Replied, Blocked, InCall
      <3> QED
        BY <2>1, <2>2, <3>6 DEF InStep
    <2>4. CASE TimedOut(d)
      <3>1. socket'[d] # <<>> /\ Head(socket'[d]) = Head(socket[d])
        BY <1>5, <2>1, <2>4 DEF TimedOut
      <3>2. TimedOut(d)'
        BY <2>1, <2>4, <3>1 DEF TimedOut, Unarmed
      <3> QED
        BY <2>1, <2>2, <3>2 DEF InStep
    <2>5. CASE GivenUp(d)
      <3>1. GivenUp(d)'
        BY <2>1, <2>5 DEF GivenUp, Unarmed
      <3> QED
        BY <2>1, <2>2, <3>1 DEF InStep
    <2> QED
      BY <2>2, <2>3, <2>4, <2>5
  <1> QED
    BY <1>6, <1>7

LEMMA TimeoutInStep ==
  ASSUME Clean, NInv, StepInv, NEW t \in timers,
         NoteTimeout(t) \/ NoteTimeoutOfDead(t)
  PROVE  StepInv'
  <1> SUFFICES ASSUME NEW d \in Clients PROVE InStep(d)'
    BY DEF StepInv
  <1> DEFINE c == t.client
  <1>1. c \in Clients /\ InStep(c) /\ InStep(d)
    BY DEF NInv, PollTypeOK, Timer, StepInv
  <1>2. Blocked(c) /\ conn[c]
    BY <1>1 DEF InStep, Resting, Calling, Replied, TimedOut, GivenUp, Unarmed,
                Blocked
  <1>3. /\ timers' = timers \ {t} /\ WriteReply(c, Status("timeout"))
        /\ noteTimer' = [noteTimer EXCEPT ![c] = 0]
        /\ UNCHANGED <<clientVars, callVars, notePing>>
    BY <1>2 DEF NoteTimeout, NoteTimeoutOfDead
  <1>4. /\ socket \in [Clients -> Seq(Reply)]
        /\ noteTimer \in [Clients -> 0 .. MaxTimers] /\ timers \subseteq Timer
    BY DEF NInv, PollTypeOK
  <1>5. CASE d # c
    <2>1. Same(d)
      BY <1>1, <1>3, <1>4, <1>5 DEF Same, WriteReply, clientVars, callVars
    <2> QED
      BY <1>1, <2>1, SameInStep
  <1>6. CASE d = c
    <2>1. \A u \in timers : u.client = c => u = t
      <3> SUFFICES ASSUME NEW u \in timers, u.client = c PROVE u = t
        OBVIOUS
      <3>1. u \in Timer /\ t \in Timer
        BY <1>4
      <3>2. u.num = t.num /\ u.session = t.session
        BY <1>2 DEF Blocked, ArmedOnce
      <3> QED
        BY <3>1, <3>2 DEF Timer
    <2>2. Unarmed(c)'
      BY <1>3, <2>1 DEF Unarmed
    <2>3. socket'[c] = <<Status("timeout")>>
      BY <1>1, <1>2, <1>3, <1>4 DEF WriteReply, Blocked
    <2>4. TimedOut(c)'
      BY <1>2, <1>3, <2>2, <2>3 DEF TimedOut, Blocked, Status, callVars
    <2> QED
      BY <1>2, <1>3, <1>6, <2>4 DEF InStep, clientVars
  <1> QED
    BY <1>5, <1>6

LEMMA ConnectionsInStep ==
  ASSUME Clean, NInv, StepInv, NEW c \in Clients, IpcNew(c) \/ IpcClientDeath(c)
  PROVE  StepInv'
  <1> SUFFICES ASSUME NEW d \in Clients PROVE InStep(d)'
    BY DEF StepInv
  <1>1. InStep(c) /\ InStep(d)
    BY DEF StepInv
  <1>2. /\ conn \in [Clients -> BOOLEAN]
        /\ session \in [Clients -> 0 .. MaxSessions]
        /\ call \in [Clients -> {"idle", "flags", "clear", "list", "poll",
                                 "failed", "lost"}]
        /\ cmd \in [Clients -> Command] /\ socket \in [Clients -> Seq(Reply)]
        /\ notePing \in [Clients -> BOOLEAN]
        /\ noteTimer \in [Clients -> 0 .. MaxTimers]
    BY DEF NInv, ProgramTypeOK, PollTypeOK
  <1>3. CASE d # c
    <2>1. Same(d)
      <3>1. CASE IpcNew(c)
        BY <1>2, <1>3, <3>1 DEF IpcNew, Same, callVars, pollVars
      <3>2. CASE IpcClientDeath(c)
        BY <1>2, <1>3, <3>2 DEF IpcClientDeath, Same
      <3> QED
        BY <3>1, <3>2
    <2> QED
      BY <1>1, <2>1, SameInStep
  <1>4. CASE d = c
    <2>1. CASE IpcNew(c)
      <3>1. Resting(c)
        BY <1>1, <2>1 DEF InStep, IpcNew
      <3>2. Resting(c)'
        BY <2>1, <3>1 DEF IpcNew, Resting, Unarmed, callVars, pollVars
      <3> QED
        BY <1>4, <3>2 DEF InStep
    <2>2. CASE IpcClientDeath(c)
      <3>1. call[c] \in {"idle", "failed"} /\ timers' = timers
        BY <2>2 DEF IpcClientDeath
      <3>2. Unarmed(c)
        BY <1>1, <3>1 DEF InStep, Resting, Calling, Replied, Blocked, TimedOut,
                          GivenUp, InCall
      <3>3. Resting(c)'
        BY <1>2, <2>2, <3>1, <3>2 DEF IpcClientDeath, Resting, Unarmed
      <3> QED
        BY <1>4, <3>3 DEF InStep
    <2> QED
      BY <2>1, <2>2
  <1> QED
    BY <1>3, <1>4

-----------------------------------------------------------------------------

LEMMA MannersStay == [Next]_vars => manners' = manners
  BY DEF Next, vars, clientVars, IpcNew, IpcClientDeath, Program, SetFlags,
         UnregisterAll, EnumerateDevices, PollNote, Calls, CallReturns, Handle,
         HandleNoteFlags, HandleNoteFlagsBadAddr, HandleNoteClear,
         HandleListDevices, HandlePollNoteNow, HandlePollNoteZero,
         HandlePollNoteForever, HandlePollNoteTimed, Takes, Dispatch,
         DispatchNote, NoteTimeout, NoteTimeoutOfDead

LEMMA NextStepInv == NInv /\ StepInv /\ [Next]_vars => StepInv'
  <1> SUFFICES ASSUME NInv, StepInv, [Next]_vars, Clean PROVE StepInv'
    BY MannersStay DEF StepInv, Clean
  <1>1. CASE UNCHANGED vars
    <2>1. \A d \in Clients : Same(d)
      BY <1>1 DEF vars, clientVars, callVars, pollVars, Same
    <2> QED
      BY <2>1, SameInStep DEF StepInv
  <1>2. CASE Next
    BY <1>2, CallsInStep, HandleInStep, DispatchInStep, TimeoutInStep,
       ConnectionsInStep DEF Next
  <1> QED
    BY <1>1, <1>2

\* No clean program ever takes the reply to one command, or a note that comes
\* too late, for the reply to another: sricd writes one reply to each command,
\* and a note behind it only once the poll that timed out has made the program
\* close.
THEOREM NoteRepliesStayInStep == Spec => []NoteRepliesInStep
  <1>1. NInv /\ StepInv => NoteRepliesInStep
    <2> SUFFICES ASSUME StepInv, Clean, NEW c \in Clients
                 PROVE  /\ call[c] # "lost"
                        /\ InCall(c) /\ socket[c] # <<>> =>
                             /\ cmd[c] = NoCommand
                             /\ AfterReply(call[c], Head(socket[c]).kind) # "lost"
      BY DEF NoteRepliesInStep
    <2>1. InStep(c)
      BY DEF StepInv
    <2>2. CASE Replied(c)
      BY <2>2 DEF Replied, InCall
    <2>3. CASE TimedOut(c)
      <3>1. AfterReply(call[c], Head(socket[c]).kind) = "failed"
        BY <2>3 DEF TimedOut, AfterReply
      <3> QED
        BY <2>3, <3>1 DEF TimedOut
    <2> QED
      BY <2>1, <2>2, <2>3 DEF InStep, Resting, Calling, Blocked, GivenUp, InCall
  <1>2. Init /\ [][Next]_vars /\ []NInv => []StepInv
    BY InitStepInv, NextStepInv, PTL
  <1> QED
    BY <1>1, <1>2, NotesInvariant, PTL DEF Spec

-----------------------------------------------------------------------------
(* The notes in a socket.  NotesOf is a recursion over the replies: what a *)
(* reply at the end, or the loss of the first one, does to it is shown by  *)
(* induction.                                                              *)

LEMMA AppendBehind ==
  ASSUME NEW S, NEW front \in Seq(S), NEW back \in Seq(S), NEW e \in S
  PROVE  front \o Append(back, e) = Append(front \o back, e)
  <1>1. /\ Append(back, e) \in Seq(S) /\ Len(Append(back, e)) = Len(back) + 1
        /\ front \o back \in Seq(S) /\ Len(front \o back) = Len(front) + Len(back)
    OBVIOUS
  <1>2. /\ front \o Append(back, e) \in Seq(S)
        /\ Append(front \o back, e) \in Seq(S)
        /\ Len(front \o Append(back, e)) = Len(Append(front \o back, e))
    BY <1>1
  <1>3. \A i \in 1 .. Len(front \o Append(back, e)) :
          (front \o Append(back, e))[i] = Append(front \o back, e)[i]
    BY <1>1
  <1> QED
    BY <1>2, <1>3, SeqEqual

LEMMA NotesWithType ==
  ASSUME NEW notes \in Seq(NoteFrame), NEW r \in Reply
  PROVE  NotesWith(notes, r) \in Seq(NoteFrame)
  <1>1. r.kind = "note" => r.note \in NoteFrame
    BY DEF Reply
  <1> QED
    BY <1>1 DEF NotesWith

LEMMA NotesWithBehind ==
  ASSUME NEW front \in Seq(NoteFrame), NEW notes \in Seq(NoteFrame), NEW r \in Reply
  PROVE  NotesWith(front \o notes, r) = front \o NotesWith(notes, r)
  <1>1. CASE r.kind = "note"
    <2>1. r.note \in NoteFrame
      BY <1>1 DEF Reply
    <2>2. front \o Append(notes, r.note) = Append(front \o notes, r.note)
      BY <2>1, AppendBehind
    <2> QED
      BY <1>1, <2>2 DEF NotesWith
  <1>2. CASE r.kind # "note"
    BY <1>2 DEF NotesWith
  <1> QED
    BY <1>1, <1>2

LEMMA NotesOfSteps ==
  ASSUME NEW s \in Seq(Reply)
  PROVE  \E u \in [0 .. Len(s) -> Seq(NoteFrame)] :
           /\ NotesOf(s) = u[Len(s)]
           /\ u[0] = <<>>
           /\ \A i \in 1 .. Len(s) : u[i] = NotesWith(u[i - 1], s[i])
  <1> DEFINE n == Len(s)
             V == Seq(NoteFrame)
             Next1(i, a) == NotesWith(a, s[i])
             Body(f) == [i \in 0 .. n |-> IF i = 0 THEN <<>> ELSE Next1(i, f[i - 1])]
             step == [i \in 1 .. n |-> [a \in V |-> Next1(i, a)]]
             u == CHOOSE f : f = Body(f)
  <1>1. n \in Nat /\ \A i \in 1 .. n : s[i] \in Reply
    OBVIOUS
  <1>2. <<>> \in V
    OBVIOUS
  <1>3. \A i \in 1 .. n, a \in V : Next1(i, a) \in V
    BY <1>1, NotesWithType
  <1>4. NotesOf(s) = u[n]
    BY DEF NotesOf
  <1> HIDE DEF Next1, V
  <1>5. \E f : f = Body(f)
    <2>1. step \in [1 .. n -> [V -> V]]
      BY <1>3
    <2>2. \A i \in 1 .. n, a \in V : step[i][a] = Next1(i, a)
      OBVIOUS
    <2> HIDE DEF step, n
    <2>3. PICK f : Solves(f, n, V, <<>>, step)
      <3> HIDE DEF Body, u
      <3> QED
        BY <1>1, <1>2, <2>1, Recursion
    <2>4. ASSUME NEW i \in 0 .. n
          PROVE  f[i] = IF i = 0 THEN <<>> ELSE Next1(i, f[i - 1])
      <3>1. CASE i = 0
        BY <2>3, <3>1 DEF Solves
      <3>2. CASE i # 0
        <4>1. i \in 1 .. n /\ i - 1 \in 0 .. n
          BY <1>1, <3>2
        <4>2. f[i - 1] \in V
          BY <2>3, <4>1 DEF Solves
        <4>3. f[i] = step[i][f[i - 1]]
          BY <2>3, <4>1 DEF Solves
        <4> QED
          BY <2>2, <3>2, <4>1, <4>2, <4>3
      <3> QED
        BY <3>1, <3>2
    <2>5. f = Body(f)
      BY <2>3, <2>4 DEF Solves
    <2> QED
      BY <2>5
  <1>6. u = Body(u)
    BY <1>5
  <1> HIDE DEF u
  <1>7. DOMAIN u = 0 .. n /\ u[0] = <<>>
    BY <1>1, <1>6
  <1>8. \A i \in 1 .. n : u[i] = Next1(i, u[i - 1])
    BY <1>1, <1>6
  <1>9. \A i \in 1 .. n : u[i - 1] \in V => u[i] \in V
    BY <1>3, <1>8
  <1>10. \A i \in 0 .. n : u[i] \in V
    <2> HIDE DEF n
    <2>1. n \in Nat /\ u[0] \in V
      BY <1>1, <1>2, <1>7
    <2> QED
      BY <1>9, <2>1, StaysIn, Zenon
  <1>11. u \in [0 .. n -> V]
    BY <1>6, <1>10
  <1> QED
    BY <1>4, <1>7, <1>8, <1>11 DEF Next1, V

LEMMA NotesOfType ==
  ASSUME NEW s \in Seq(Reply)
  PROVE  NotesOf(s) \in Seq(NoteFrame)
  <1>1. PICK u \in [0 .. Len(s) -> Seq(NoteFrame)] : NotesOf(s) = u[Len(s)]
    BY NotesOfSteps
  <1>2. Len(s) \in 0 .. Len(s)
    OBVIOUS
  <1> QED
    BY <1>1, <1>2

LEMMA NotesOfEmpty == NotesOf(<<>>) = <<>>
  <1>1. <<>> \in Seq(Reply) /\ Len(<<>>) = 0
    OBVIOUS
  <1>2. PICK u \in [0 .. Len(<<>>) -> Seq(NoteFrame)] :
          NotesOf(<<>>) = u[Len(<<>>)] /\ u[0] = <<>>
    BY <1>1, NotesOfSteps
  <1> QED
    BY <1>1, <1>2

\* A reply written to the socket.
LEMMA NotesOfAppend ==
  ASSUME NEW s \in Seq(Reply), NEW r \in Reply
  PROVE  NotesOf(Append(s, r)) = NotesWith(NotesOf(s), r)
  <1> DEFINE n == Len(s)
             long == Append(s, r)
  <1>1. /\ n \in Nat /\ long \in Seq(Reply) /\ Len(long) = n + 1
        /\ long[n + 1] = r
        /\ \A i \in 1 .. n : long[i] = s[i]
    OBVIOUS
  <1>2. PICK u \in [0 .. n -> Seq(NoteFrame)] :
          /\ NotesOf(s) = u[n]
          /\ u[0] = <<>>
          /\ \A i \in 1 .. n : u[i] = NotesWith(u[i - 1], s[i])
    BY NotesOfSteps
  <1> HIDE DEF long
  <1>3. PICK w \in [0 .. Len(long) -> Seq(NoteFrame)] :
          /\ NotesOf(long) = w[Len(long)]
          /\ w[0] = <<>>
          /\ \A i \in 1 .. Len(long) : w[i] = NotesWith(w[i - 1], long[i])
    BY <1>1, NotesOfSteps
  <1> HIDE DEF n
  <1> DEFINE same == {i \in 0 .. n : w[i] = u[i]}
  <1>4. 0 \in same
    BY <1>1, <1>2, <1>3
  <1>5. ASSUME NEW i \in 1 .. n, i - 1 \in same PROVE i \in same
    <2>1. i \in 0 .. n /\ i \in 1 .. Len(long) /\ w[i - 1] = u[i - 1]
      BY <1>1, <1>5
    <2>2. w[i] = NotesWith(w[i - 1], s[i]) /\ u[i] = NotesWith(u[i - 1], s[i])
      BY <1>1, <1>2, <1>3, <2>1
    <2> QED
      BY <2>1, <2>2
  <1>6. 0 .. n \subseteq same
    <2> HIDE DEF same
    <2> QED
      BY <1>1, <1>4, <1>5, NumbersUpTo
  <1>7. w[n] = u[n]
    <2>1. n \in 0 .. n
      BY <1>1
    <2> QED
      BY <1>6, <2>1
  <1>8. w[n + 1] = NotesWith(w[n], r)
    <2>1. n + 1 \in 1 .. Len(long) /\ (n + 1) - 1 = n
      BY <1>1
    <2>2. w[n + 1] = NotesWith(w[(n + 1) - 1], long[n + 1])
      BY <1>3, <2>1
    <2> QED
      BY <1>1, <2>1, <2>2
  <1> QED
    BY <1>1, <1>2, <1>3, <1>7, <1>8 DEF long

\* The first reply read from the socket.
LEMMA NotesOfTail ==
  ASSUME NEW s \in Seq(Reply), s # <<>>
  PROVE  NotesOf(s) = NotesWith(<<>>, Head(s)) \o NotesOf(Tail(s))
  <1> DEFINE n == Len(s)
             rest == Tail(s)
             first == NotesWith(<<>>, Head(s))
  <1>1. /\ n \in Nat \ {0} /\ Head(s) = s[1] /\ s[1] \in Reply
        /\ rest \in Seq(Reply) /\ Len(rest) = n - 1
        /\ \A i \in 1 .. n - 1 : rest[i] = s[i + 1] /\ rest[i] \in Reply
    OBVIOUS
  <1>2. first \in Seq(NoteFrame)
    <2>1. <<>> \in Seq(NoteFrame)
      OBVIOUS
    <2> QED
      BY <1>1, <2>1, NotesWithType
  <1>3. PICK u \in [0 .. n -> Seq(NoteFrame)] :
          /\ NotesOf(s) = u[n]
          /\ u[0] = <<>>
          /\ \A i \in 1 .. n : u[i] = NotesWith(u[i - 1], s[i])
    BY NotesOfSteps
  <1> HIDE DEF rest
  <1>4. PICK w \in [0 .. Len(rest) -> Seq(NoteFrame)] :
          /\ NotesOf(rest) = w[Len(rest)]
          /\ w[0] = <<>>
          /\ \A i \in 1 .. Len(rest) : w[i] = NotesWith(w[i - 1], rest[i])
    BY <1>1, NotesOfSteps
  <1>5. u[1] = first
    BY <1>1, <1>3
  <1> HIDE DEF n, first
  <1> DEFINE ahead == {i \in 0 .. n - 1 : u[i + 1] = first \o w[i]}
  <1>6. 0 \in ahead
    <2>1. first \o <<>> = first
      BY <1>2
    <2>2. 0 \in 0 .. n - 1 /\ 0 + 1 = 1
      BY <1>1
    <2> QED
      BY <1>4, <1>5, <2>1, <2>2
  <1>7. ASSUME NEW i \in 1 .. n - 1, i - 1 \in ahead PROVE i \in ahead
    <2>1. /\ i \in 0 .. n - 1 /\ i + 1 \in 1 .. n /\ (i + 1) - 1 = i
          /\ (i - 1) + 1 = i /\ i \in 1 .. Len(rest) /\ i - 1 \in 0 .. Len(rest)
      BY <1>1
    <2>2. u[i] = first \o w[i - 1] /\ w[i - 1] \in Seq(NoteFrame)
      BY <1>7, <2>1
    <2>3. u[i + 1] = NotesWith(u[i], s[i + 1])
      BY <1>3, <2>1
    <2>4. w[i] = NotesWith(w[i - 1], s[i + 1]) /\ s[i + 1] \in Reply
      BY <1>1, <1>4, <2>1
    <2>5. NotesWith(first \o w[i - 1], s[i + 1])
            = first \o NotesWith(w[i - 1], s[i + 1])
      BY <1>2, <2>2, <2>4, NotesWithBehind
    <2> QED
      BY <2>1, <2>2, <2>3, <2>4, <2>5
  <1>8. 0 .. n - 1 \subseteq ahead
    <2>1. n - 1 \in Nat
      BY <1>1
    <2> HIDE DEF ahead
    <2> QED
      BY <1>6, <1>7, <2>1, NumbersUpTo
  <1>9. u[n] = first \o w[n - 1]
    <2>1. n - 1 \in 0 .. n - 1 /\ (n - 1) + 1 = n
      BY <1>1
    <2> QED
      BY <1>8, <2>1
  <1> QED
    BY <1>1, <1>3, <1>4, <1>9 DEF rest, first

-----------------------------------------------------------------------------
(* Notes implements NoteService: every step of Next is one of a listener,  *)
(* a note that comes, or a stutter.                                        *)

Wants == [c \in Clients |-> [a \in Addresses |-> Registered(c, a)]]

Inbox(c) == NotesOf(socket[c]) \o noteq[c]

ServiceStep == [NS!SNext]_(NS!svars)

LEMMA RegisteredStays ==
  ASSUME UNCHANGED targets
  PROVE  \A c, a : Registered(c, a)' = Registered(c, a)
  BY DEF Registered

LEMMA NothingSeen ==
  ASSUME \A c \in Clients, a \in Addresses : Registered(c, a)' = Registered(c, a),
         \A c \in Clients : Inbox(c)' = Inbox(c)
  PROVE  ServiceStep
  BY DEF ServiceStep, NS!svars, Inbox

LEMMA InboxStays ==
  ASSUME NEW c \in Clients, socket'[c] = socket[c], noteq'[c] = noteq[c]
  PROVE  Inbox(c)' = Inbox(c)
  BY DEF Inbox

LEMMA SocketTypes ==
  ASSUME NInv, NEW c \in Clients
  PROVE  /\ socket[c] \in Seq(Reply) /\ noteq[c] \in Seq(NoteFrame)
         /\ NotesOf(socket[c]) \in Seq(NoteFrame)
  <1>1. socket[c] \in Seq(Reply) /\ noteq[c] \in Seq(NoteFrame)
    BY DEF NInv, PollTypeOK
  <1> QED
    BY <1>1, NotesOfType

\* A reply that carries no note puts nothing in an inbox.
LEMMA OtherReply ==
  ASSUME NInv, NEW c \in Clients, NEW r \in Reply, r.kind # "note",
         WriteReply(c, r), UNCHANGED noteq
  PROVE  \A d \in Clients : Inbox(d)' = Inbox(d)
  <1> SUFFICES ASSUME NEW d \in Clients PROVE Inbox(d)' = Inbox(d)
    OBVIOUS
  <1>1. socket \in [Clients -> Seq(Reply)]
    BY DEF NInv, PollTypeOK
  <1>2. CASE d # c
    BY <1>1, <1>2, InboxStays DEF WriteReply
  <1>3. CASE d = c
    <2>1. socket'[c] = Append(socket[c], r)
      BY <1>1 DEF WriteReply
    <2>2. NotesOf(socket'[c]) = NotesOf(socket[c])
      BY <1>1, <2>1, NotesOfAppend DEF NotesWith
    <2> QED
      BY <1>3, <2>2 DEF Inbox
  <1> QED
    BY <1>2, <1>3

\* The first note taken out of an inbox.
LEMMA TailOfInbox ==
  ASSUME NEW S, NEW e \in S, NEW s \in Seq(S), NEW t \in Seq(S)
  PROVE  /\ (<<e>> \o s) \o t # <<>>
         /\ Tail((<<e>> \o s) \o t) = s \o t
  <1>1. <<e>> \in Seq(S) /\ s \o t \in Seq(S)
    OBVIOUS
  <1>2. (<<e>> \o s) \o t = <<e>> \o (s \o t)
    BY <1>1, ConcatAssociative
  <1> DEFINE u == s \o t
             v == <<e>> \o u
  <1> HIDE DEF u
  <1>3. u \in Seq(S) /\ v \in Seq(S) /\ Len(v) = Len(u) + 1 /\ v # <<>>
    BY <1>1 DEF u
  <1>4. /\ Tail(v) \in Seq(S) /\ Len(Tail(v)) = Len(u)
        /\ \A i \in 1 .. Len(u) : Tail(v)[i] = u[i]
    BY <1>3
  <1>5. Tail(v) = u
    BY <1>3, <1>4, SeqEqual
  <1> QED
    BY <1>2, <1>3, <1>5 DEF u

\* The first of the notes that wait becomes the last of those written.
LEMMA MoveFirst ==
  ASSUME NEW S, NEW q \in Seq(S), NEW t \in Seq(S), t # <<>>
  PROVE  Append(q, Head(t)) \o Tail(t) = q \o t
  <1> DEFINE left == Append(q, Head(t)) \o Tail(t)
             right == q \o t
  <1>1. /\ Head(t) \in S /\ Head(t) = t[1] /\ Tail(t) \in Seq(S)
        /\ Len(t) \in Nat \ {0} /\ Len(Tail(t)) = Len(t) - 1
        /\ \A i \in 1 .. Len(t) - 1 : Tail(t)[i] = t[i + 1]
    OBVIOUS
  <1>2. /\ Append(q, Head(t)) \in Seq(S) /\ Len(q) \in Nat
        /\ Len(Append(q, Head(t))) = Len(q) + 1
        /\ Append(q, Head(t))[Len(q) + 1] = t[1]
        /\ \A i \in 1 .. Len(q) : Append(q, Head(t))[i] = q[i]
    BY <1>1
  <1>3. left \in Seq(S) /\ right \in Seq(S) /\ Len(left) = Len(right)
    BY <1>1, <1>2
  <1>4. \A i \in 1 .. Len(left) : left[i] = right[i]
    BY <1>1, <1>2
  <1> QED
    BY <1>3, <1>4, SeqEqual

\* What one program wants of one device becomes ks.
LEMMA WantsChange ==
  ASSUME NEW c \in Clients, NEW a \in Addresses, NEW ks,
         \A b \in Addresses, d \in Clients :
           Registered(d, b)' = IF d = c /\ b = a THEN ks ELSE Registered(d, b)
  PROVE  Wants' = [Wants EXCEPT ![c][a] = ks]
  <1>1. Wants' = [d \in Clients |-> [b \in Addresses |->
                    IF d = c /\ b = a THEN ks ELSE Registered(d, b)]]
    BY DEF Wants
  <1> QED
    BY <1>1 DEF Wants

\* One program wants nothing any more.
LEMMA WantsNothing ==
  ASSUME NEW c \in Clients,
         \A b \in Addresses, d \in Clients :
           Registered(d, b)' = IF d = c THEN {} ELSE Registered(d, b)
  PROVE  Wants' = [Wants EXCEPT ![c] = [a \in Addresses |-> {}]]
  <1>1. Wants' = [d \in Clients |-> [b \in Addresses |->
                    IF d = c THEN {} ELSE Registered(d, b)]]
    BY DEF Wants
  <1> QED
    BY <1>1 DEF Wants

-----------------------------------------------------------------------------
(* The steps *)

LEMMA ProgramService ==
  ASSUME NEW c \in Clients, Program(c)
  PROVE  ServiceStep
  <1>1. UNCHANGED <<socket, noteq, targets>>
    BY DEF Program, SetFlags, UnregisterAll, EnumerateDevices, PollNote, Calls,
           pollVars
  <1> QED
    BY <1>1, RegisteredStays, InboxStays, NothingSeen

\* A program that reads a note takes it out of its inbox.
LEMMA CallReturnsService ==
  ASSUME NInv, NEW c \in Clients, CallReturns(c)
  PROVE  ServiceStep
  <1>1. /\ socket[c] # <<>> /\ socket' = [socket EXCEPT ![c] = Tail(@)]
        /\ UNCHANGED <<noteq, targets>>
    BY DEF CallReturns, pollVars
  <1>2. socket \in [Clients -> Seq(Reply)]
    BY DEF NInv, PollTypeOK
  <1> DEFINE r == Head(socket[c])
  <1>3. r \in Reply /\ Tail(socket[c]) \in Seq(Reply)
    BY <1>1, <1>2
  <1>4. NotesOf(socket[c]) = NotesWith(<<>>, r) \o NotesOf(socket'[c])
    BY <1>1, <1>2, NotesOfTail
  <1>5. \A d \in Clients : d # c => Inbox(d)' = Inbox(d)
    BY <1>1, <1>2, InboxStays
  <1>6. NotesOf(socket'[c]) \in Seq(NoteFrame) /\ noteq[c] \in Seq(NoteFrame)
    BY <1>1, <1>2, <1>3, SocketTypes, NotesOfType
  <1> HIDE DEF r
  <1>7. CASE r.kind # "note"
    <2>1. NotesOf(socket[c]) = NotesOf(socket'[c])
      BY <1>4, <1>6, <1>7 DEF NotesWith
    <2>2. Inbox(c)' = Inbox(c)
      BY <1>1, <2>1 DEF Inbox
    <2> QED
      BY <1>1, <1>5, <2>2, RegisteredStays, NothingSeen
  <1>8. CASE r.kind = "note"
    <2>1. r.note \in NoteFrame /\ NotesWith(<<>>, r) = <<r.note>>
      BY <1>3, <1>8 DEF Reply, NotesWith
    <2>2. NotesOf(socket[c]) = <<r.note>> \o NotesOf(socket'[c])
      BY <1>4, <2>1
    <2>3. Inbox(c) # <<>> /\ Inbox(c)' = Tail(Inbox(c))
      <3>1. /\ Inbox(c) = (<<r.note>> \o NotesOf(socket'[c])) \o noteq[c]
            /\ Inbox(c)' = NotesOf(socket'[c]) \o noteq[c]
        BY <1>1, <2>2 DEF Inbox
      <3>2. /\ (<<r.note>> \o NotesOf(socket'[c])) \o noteq[c] # <<>>
            /\ Tail((<<r.note>> \o NotesOf(socket'[c])) \o noteq[c])
                 = NotesOf(socket'[c]) \o noteq[c]
        <4>1. \A e \in NoteFrame, q, t \in Seq(NoteFrame) :
                 /\ (<<e>> \o q) \o t # <<>>
                 /\ Tail((<<e>> \o q) \o t) = q \o t
          BY TailOfInbox
        <4> QED
          BY <1>6, <2>1, <4>1, Zenon
      <3> QED
        BY <3>1, <3>2
    <2>4. NS!Take(c)
      BY <1>1, <1>5, <2>3, RegisteredStays DEF NS!Take, Inbox
    <2> QED
      BY <2>4 DEF ServiceStep, NS!SNext
  <1> QED
    BY <1>7, <1>8

\* A command that sets flags is a program changing its mind; a poll that finds
\* a note moves it within the inbox; the others are not seen.
LEMMA HandleService ==
  ASSUME NInv, NEW c \in Clients, Handle(c)
  PROVE  ServiceStep
  <1>1. CASE HandleNoteFlags(c) \/ HandleNoteClear(c)
    <2>1. \A b \in Addresses, d \in Clients :
            Registered(d, b)' = IF d = c /\ b \in DevicesMeant(c)
                                  THEN FlagsMeant(c) ELSE Registered(d, b)
      BY <1>1, RegisterTargets
    <2>2. WriteReply(c, Status("ok")) /\ UNCHANGED noteq
      BY <1>1 DEF HandleNoteFlags, HandleNoteClear, pollVars
    <2>3. Status("ok") \in Reply /\ Status("ok").kind # "note"
      BY DEF Status, Reply
    <2>4. \A d \in Clients : Inbox(d)' = Inbox(d)
      BY <2>2, <2>3, OtherReply
    <2>5. CASE HandleNoteFlags(c)
      <3>1. cmd[c].op = "flags" /\ cmd[c] \in Command
        BY <2>5 DEF HandleNoteFlags, Takes, NInv, ProgramTypeOK
      <3>2. PICK a, ks : a = cmd[c].addr /\ ks = cmd[c].flags
        OBVIOUS
      <3>3. /\ a \in Addresses /\ ks \in SUBSET Kinds
            /\ DevicesMeant(c) = {a} /\ FlagsMeant(c) = ks
        BY <3>1, <3>2, CommandOps DEF DevicesMeant, FlagsMeant
      <3>4. Wants' = [Wants EXCEPT ![c][a] = ks]
        <4>1. \A b \in Addresses, d \in Clients :
                Registered(d, b)' = IF d = c /\ b = a THEN ks ELSE Registered(d, b)
          BY <2>1, <3>3
        <4> QED
          BY <3>3, <4>1, WantsChange
      <3>5. NS!Ask(c, a, ks)
        BY <2>4, <3>4 DEF NS!Ask, Wants, Inbox
      <3> QED
        BY <3>3, <3>5 DEF ServiceStep, NS!SNext, NS!Kinds, Kinds
    <2>6. CASE HandleNoteClear(c)
      <3>1. cmd[c].op = "clear"
        BY <2>6 DEF HandleNoteClear, Takes
      <3>2. \A b \in Addresses, d \in Clients :
              Registered(d, b)' = IF d = c THEN {} ELSE Registered(d, b)
        BY <2>1, <3>1 DEF DevicesMeant, FlagsMeant
      <3>3. Wants' = [Wants EXCEPT ![c] = [a \in Addresses |-> {}]]
        BY <3>2, WantsNothing
      <3>4. NS!AskNothing(c)
        BY <2>4, <3>3 DEF NS!AskNothing, Wants, Inbox
      <3> QED
        BY <3>4 DEF ServiceStep, NS!SNext
    <2> QED
      BY <1>1, <2>5, <2>6
  <1>2. CASE \/ HandleNoteFlagsBadAddr(c) \/ HandleListDevices(c)
             \/ HandlePollNoteZero(c)
    <2>1. PICK r \in Reply :
            r.kind # "note" /\ WriteReply(c, r) /\ UNCHANGED <<noteq, targets>>
      <3>1. /\ [kind |-> "devices", devices |-> Present] \in Reply
            /\ Status("timeout") \in Reply /\ Status("timeout").kind # "note"
            /\ Status("badaddr") \in Reply /\ Status("badaddr").kind # "note"
        BY NotesAssumption DEF Status, Reply
      <3> QED
        BY <1>2, <3>1 DEF HandleNoteFlagsBadAddr, HandleListDevices,
                          HandlePollNoteZero, pollVars
    <2> QED
      BY <2>1, OtherReply, RegisteredStays, NothingSeen
  <1>3. CASE HandlePollNoteNow(c)
    <2>1. /\ noteq[c] # <<>> /\ noteq' = [noteq EXCEPT ![c] = Tail(@)]
          /\ socket' = [socket EXCEPT ![c] = Append(@, NoteReply(Head(noteq[c])))]
          /\ UNCHANGED targets
      BY <1>3 DEF HandlePollNoteNow, WriteReply
    <2>2. /\ socket \in [Clients -> Seq(Reply)] /\ noteq \in [Clients -> Seq(NoteFrame)]
      BY DEF NInv, PollTypeOK
    <2>3. PICK n : n = Head(noteq[c])
      OBVIOUS
    <2>4. /\ n \in NoteFrame /\ NoteReply(n) \in Reply
          /\ NoteReply(n).kind = "note" /\ NoteReply(n).note = n
      <3>1. n \in NoteFrame
        BY <2>1, <2>2, <2>3
      <3> QED
        BY <3>1 DEF NoteReply, Reply
    <2>5. NotesOf(socket'[c]) = Append(NotesOf(socket[c]), n)
      <3>1. socket'[c] = Append(socket[c], NoteReply(n)) /\ socket[c] \in Seq(Reply)
        BY <2>1, <2>2, <2>3
      <3> QED
        BY <2>4, <3>1, NotesOfAppend DEF NotesWith
    <2>6. Inbox(c)' = Inbox(c)
      <3>1. \A q, t \in Seq(NoteFrame) :
               t # <<>> => Append(q, Head(t)) \o Tail(t) = q \o t
        BY MoveFirst
      <3>2. noteq'[c] = Tail(noteq[c])
        BY <2>1, <2>2
      <3>3. Inbox(c)' = Append(NotesOf(socket[c]), Head(noteq[c])) \o Tail(noteq[c])
        BY <2>3, <2>5, <3>2 DEF Inbox
      <3>4. NotesOf(socket[c]) \in Seq(NoteFrame) /\ noteq[c] \in Seq(NoteFrame)
        BY SocketTypes
      <3>5. Append(NotesOf(socket[c]), Head(noteq[c])) \o Tail(noteq[c])
              = NotesOf(socket[c]) \o noteq[c]
        BY <2>1, <3>1, <3>4, Zenon
      <3> QED
        BY <3>3, <3>5 DEF Inbox
    <2>7. \A d \in Clients : d # c => Inbox(d)' = Inbox(d)
      BY <2>1, <2>2, InboxStays
    <2> QED
      BY <2>1, <2>6, <2>7, RegisteredStays, NothingSeen
  <1>4. CASE HandlePollNoteForever(c) \/ HandlePollNoteTimed(c)
    <2>1. UNCHANGED <<socket, noteq, targets>>
      BY <1>4 DEF HandlePollNoteForever, HandlePollNoteTimed
    <2> QED
      BY <2>1, RegisteredStays, InboxStays, NothingSeen
  <1> QED
    BY <1>1, <1>2, <1>3, <1>4 DEF Handle

\* A note goes into the inbox of those who want it, by whichever way.
LEMMA DispatchService ==
  ASSUME NInv, Dispatch
  PROVE  ServiceStep
  <1>1. PICK src \in Present, kind \in 0 .. NumFlags, bit \in 0 .. NumFlags :
          DispatchNote(src, kind, bit)
    BY DEF Dispatch
  <1>2. PICK n : n = [num |-> received + 1, src |-> src]
    OBVIOUS
  <1>3. /\ received < MaxNotes /\ bit \in BitsTested(kind)
        /\ PushNote(Told(src, bit), n) /\ UNCHANGED targets
    BY <1>1, <1>2 DEF DispatchNote
  <1>4. n \in NoteFrame /\ n.src = src /\ src \in Addresses
    BY <1>2, <1>3, NotesAssumption DEF NInv, TargetTypeOK, NoteFrame
  <1>5. /\ NoteReply(n) \in Reply /\ NoteReply(n).kind = "note"
        /\ NoteReply(n).note = n
    BY <1>4 DEF NoteReply, Reply
  <1>6. \A c \in Clients : c \in Told(src, bit) <=> bit \in Registered(c, src)
    BY DEF Told, Registered
  <1>7. ASSUME NEW c \in Clients
        PROVE  Inbox(c)' = IF bit \in Registered(c, src)
                             THEN Append(Inbox(c), n) ELSE Inbox(c)
    <2>1. /\ socket'[c] = IF c \in Told(src, bit) /\ notePing[c]
                            THEN Append(socket[c], NoteReply(n)) ELSE socket[c]
          /\ noteq'[c] = IF c \in Told(src, bit) /\ ~notePing[c]
                           THEN Append(noteq[c], n) ELSE noteq[c]
      <3>1. PICK hearers : hearers = Told(src, bit)
        OBVIOUS
      <3>2. PushNote(hearers, n)
        BY <1>3, <3>1
      <3>3. /\ socket' = [d \in Clients |->
                 IF d \in hearers /\ notePing[d] THEN Append(socket[d], NoteReply(n))
                                                ELSE socket[d]]
            /\ noteq' = [d \in Clients |->
                 IF d \in hearers /\ ~notePing[d] THEN Append(noteq[d], n)
                                                 ELSE noteq[d]]
        BY <1>4, <3>2, PushNoteFacts
      <3> QED
        BY <3>1, <3>3
    <2>2. /\ socket[c] \in Seq(Reply) /\ noteq[c] \in Seq(NoteFrame)
          /\ NotesOf(socket[c]) \in Seq(NoteFrame)
      BY SocketTypes
    <2>3. CASE c \notin Told(src, bit)
      BY <1>6, <2>1, <2>3 DEF Inbox
    <2>4. CASE c \in Told(src, bit) /\ ~notePing[c]
      <3>1. Inbox(c)' = NotesOf(socket[c]) \o Append(noteq[c], n)
        BY <2>1, <2>4 DEF Inbox
      <3>2. NotesOf(socket[c]) \o Append(noteq[c], n)
              = Append(NotesOf(socket[c]) \o noteq[c], n)
        <4>1. \A q, t \in Seq(NoteFrame), e \in NoteFrame :
                q \o Append(t, e) = Append(q \o t, e)
          BY AppendBehind
        <4> QED
          BY <1>4, <2>2, <4>1, Zenon
      <3> QED
        BY <1>6, <2>4, <3>1, <3>2 DEF Inbox
    <2>5. CASE c \in Told(src, bit) /\ notePing[c]
      <3>1. noteq[c] = <<>>
        BY <2>5 DEF NInv, NoNoteOverlooked
      <3>2. NotesOf(socket'[c]) = Append(NotesOf(socket[c]), n)
        BY <1>5, <2>1, <2>2, <2>5, NotesOfAppend DEF NotesWith
      <3>3. noteq'[c] = <<>>
        BY <2>1, <2>5, <3>1
      <3>4. \A q \in Seq(NoteFrame) : q \o <<>> = q
        BY ConcatEmptySeq
      <3>5. Append(NotesOf(socket[c]), n) \in Seq(NoteFrame)
        BY <1>4, <2>2
      <3>6. /\ Inbox(c)' = Append(NotesOf(socket[c]), n)
            /\ Inbox(c) = NotesOf(socket[c])
        BY <2>2, <3>1, <3>2, <3>3, <3>4, <3>5 DEF Inbox
      <3> QED
        BY <1>6, <2>5, <3>6
    <2> QED
      BY <2>3, <2>4, <2>5
  <1>8. kind \in Kinds => bit = kind
    BY <1>3 DEF BitsTested
  <1>9. NS!Publish(n, kind, bit)
    <2>1. UNCHANGED Wants
      BY <1>3, RegisteredStays DEF Wants
    <2>2. \A c \in Clients : Wants[c][n.src] = Registered(c, src)
      BY <1>4 DEF Wants
    <2> QED
      BY <1>7, <1>8, <2>1, <2>2 DEF NS!Publish, Wants, Inbox, NS!Kinds, Kinds
  <1> QED
    BY <1>4, <1>9 DEF ServiceStep, NS!SNext, NS!NoteFrame, NoteFrame

LEMMA TimeoutService ==
  ASSUME NInv, NEW t \in timers, NoteTimeout(t) \/ NoteTimeoutOfDead(t)
  PROVE  ServiceStep
  <1>1. Status("timeout") \in Reply /\ Status("timeout").kind # "note"
    BY DEF Status, Reply
  <1>2. t.client \in Clients
    BY DEF NInv, PollTypeOK, Timer
  <1>3. UNCHANGED <<noteq, targets>>
    BY DEF NoteTimeout, NoteTimeoutOfDead
  <1>4. UNCHANGED socket \/ \E d \in Clients : WriteReply(d, Status("timeout"))
    BY <1>2 DEF NoteTimeout, NoteTimeoutOfDead
  <1>5. \A d \in Clients : Inbox(d)' = Inbox(d)
    <2>1. CASE UNCHANGED socket
      BY <1>3, <2>1, InboxStays
    <2>2. CASE \E d \in Clients : WriteReply(d, Status("timeout"))
      BY <1>1, <1>3, <2>2, OtherReply
    <2> QED
      BY <1>4, <2>1, <2>2
  <1> QED
    BY <1>3, <1>5, RegisteredStays, NothingSeen

LEMMA ConnectionsService ==
  ASSUME NInv, NEW c \in Clients, IpcNew(c) \/ IpcClientDeath(c)
  PROVE  ServiceStep
  <1>1. CASE IpcNew(c)
    <2>1. UNCHANGED <<socket, noteq, targets>>
      BY <1>1 DEF IpcNew, pollVars
    <2> QED
      BY <2>1, RegisteredStays, InboxStays, NothingSeen
  <1>2. CASE IpcClientDeath(c)
    <2>1. /\ socket' = [socket EXCEPT ![c] = <<>>]
          /\ noteq' = [noteq EXCEPT ![c] = <<>>]
      BY <1>2 DEF IpcClientDeath
    <2>2. socket \in [Clients -> Seq(Reply)] /\ noteq \in [Clients -> Seq(NoteFrame)]
      BY DEF NInv, PollTypeOK
    <2>3. \A d \in Clients : d # c => Inbox(d)' = Inbox(d)
      BY <2>1, <2>2, InboxStays
    <2>4. Inbox(c)' = <<>>
      <3>1. socket'[c] = <<>> /\ noteq'[c] = <<>> /\ <<>> \o <<>> = <<>>
        BY <2>1, <2>2
      <3> QED
        BY <3>1, NotesOfEmpty DEF Inbox
    <2>5. Wants' = [Wants EXCEPT ![c] = [a \in Addresses |-> {}]]
      BY <1>2, ClientDeathTargets, WantsNothing
    <2>6. NS!Leave(c)
      BY <2>3, <2>4, <2>5 DEF NS!Leave, Wants, Inbox
    <2> QED
      BY <2>6 DEF ServiceStep, NS!SNext
  <1> QED
    BY <1>1, <1>2

LEMMA NextService == NInv /\ [Next]_vars => ServiceStep
  <1> SUFFICES ASSUME NInv, [Next]_vars PROVE ServiceStep
    OBVIOUS
  <1>1. ASSUME NEW c \in Clients,
               \/ IpcNew(c) \/ IpcClientDeath(c) \/ Program(c)
               \/ CallReturns(c) \/ Handle(c)
        PROVE  ServiceStep
    BY <1>1, ConnectionsService, ProgramService, CallReturnsService, HandleService
  <1>2. CASE Dispatch
    BY <1>2, DispatchService
  <1>3. ASSUME NEW t \in timers, NoteTimeout(t) \/ NoteTimeoutOfDead(t)
        PROVE  ServiceStep
    BY <1>3, TimeoutService
  <1>4. CASE UNCHANGED vars
    <2>1. UNCHANGED <<socket, noteq, targets>>
      BY <1>4 DEF vars, pollVars
    <2> QED
      BY <2>1, RegisteredStays, InboxStays, NothingSeen
  <1> QED
    BY <1>1, <1>2, <1>3, <1>4 DEF Next

\* sricd implements NoteService, for clean programs and rough ones: a note goes
\* into the inbox of exactly those who asked for it when it came, behind what
\* is there, once, and stays there through polls, timeouts and other programs'
\* deaths until it is read or its reader is gone (device_dispatch_note,
\* client_push_note, handle_poll_note, note_ping, client_destroy).
THEOREM NotesImplementService == Spec => NoteServiceSpec
  <1>1. Init => NS!SInit
    <2> SUFFICES ASSUME Init PROVE NS!SInit
      OBVIOUS
    <2>1. ASSUME NEW c \in Clients, NEW a \in Addresses PROVE Registered(c, a) = {}
      BY DEF Init, Registered
    <2>2. ASSUME NEW c \in Clients PROVE NotesOf(socket[c]) \o noteq[c] = <<>>
      <3>1. socket[c] = <<>> /\ noteq[c] = <<>> /\ <<>> \o <<>> = <<>>
        BY DEF Init
      <3> QED
        BY <3>1, NotesOfEmpty
    <2> QED
      BY <2>1, <2>2 DEF NS!SInit
  <1>2. NInv /\ [Next]_vars => [NS!SNext]_(NS!svars)
    BY NextService DEF ServiceStep
  <1> QED
    BY <1>1, <1>2, NotesInvariant, PTL DEF Spec, NoteServiceSpec, NS!SSpec
=============================================================================
