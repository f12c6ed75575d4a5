------------------------------- MODULE Notes --------------------------------
(***************************************************************************)
(* Notes, from the device that sends one to the program that asked for it: *)
(* the targets of sricd/device.c, the note commands, the poll timer and    *)
(* the ping of sricd/ipc.c, the note queue of sricd/client.c, and the      *)
(* calls of libsric that use them, with the note flags it caches.          *)
(*                                                                         *)
(* Enumeration is over: the device table is fixed.  libsric refuses every  *)
(* address outside 2 .. 127 before it writes anything (check_address).     *)
(* The stream to sricd carries whole replies, as in Ipc; a program that    *)
(* takes a reply to one command for the reply to another is `lost' and is  *)
(* followed no further.  Acknowledging notes is part of SricIf.            *)
(***************************************************************************)
EXTENDS Naturals, Sequences, FiniteSets

CONSTANTS Clients,       \* the addresses malloc can give a struct _client
          Addresses,     \* bus addresses programs ask about
          Present,       \* those of a device in device_types
          NumFlags,      \* bits in a word of flags (64)
          FlagWords,     \* the words programs set
          PollTimeouts,  \* the timeouts they poll with, as in Ipc
          MaxLive,       \* bound: clients connected at a time; a function of how
                         \* programs behave, all "clean" or all "rough"
          MaxNotes,      \* bound: notes that reach sricd
          MaxSessions,   \* bound: connections ever made
          MaxTimers      \* bound: note timers armed for one client address

Kinds == 0 .. NumFlags - 1

ASSUME NotesAssumption ==
  /\ Present \subseteq Addresses
  /\ NumFlags \in Nat
  /\ FlagWords \subseteq SUBSET Kinds
  /\ PollTimeouts \subseteq {"zero", "finite", "never"}
  /\ DOMAIN MaxLive \subseteq {"clean", "rough"}
  /\ MaxNotes \in Nat
  /\ MaxSessions \in Nat
  /\ MaxTimers \in Nat

VARIABLES
  manners,     \* "clean": programs close between calls only, and always after
               \* a poll that timed out; "rough": at any moment (not in the code)
  conn,        \* conn[c]: a live client is allocated at c
  session,     \* session[c]: number of the last client allocated at c
  noteflags,   \* noteflags[c][a]: libsric's ctx->noteflags
  call,        \* call[c]: the call of libsric the program is in
  cmd,         \* cmd[c]: the command written and not yet read by sricd
  socket,      \* socket[c]: replies written by sricd and not yet read
  noteq,       \* c->note_q, oldest first
  notePing,    \* c->note_ping # NULL
  noteTimer,   \* c->note_timer: a number of `timers', or 0
  timers,      \* the note timers glib holds
  targets,     \* targets[a]: who is told of a's notes
  received     \* notes that have reached sricd (not in the code)

callVars   == <<noteflags, call, cmd>>
pollVars   == <<noteq, notePing, noteTimer, timers>>
clientVars == <<manners, conn, session>>
vars == <<clientVars, callVars, socket, pollVars, targets, received>>

\* A note frame.  `num', the order in which they came, stands for its payload:
\* nobody looks at that once device_dispatch_note has.
NoteFrame == [num : 1 .. MaxNotes, src : Addresses]

NoCommand == [op |-> "none"]
FlagsCommand(a, ks) == [op |-> "flags", addr |-> a, flags |-> ks]

Command == {NoCommand} \cup [op : {"clear", "list", "poll"}]
             \cup [op : {"flags"}, addr : Addresses, flags : SUBSET Kinds]

Reply == [kind : {"ok", "badaddr", "timeout"}]
           \cup [kind : {"devices"}, devices : SUBSET Addresses]
           \cup [kind : {"note"}, note : NoteFrame]

Status(k) == [kind |-> k]
NoteReply(n) == [kind |-> "note", note |-> n]

\* device_note_target.  `session' says which of the clients at that address
\* the record was made for (not in the code).
Target == [client : Clients, session : 1 .. MaxSessions, flags : SUBSET Kinds]

\* g_timeout_add(timeout, note_timeout_callback, c), as in Ipc.
Timer == [client : Clients, num : 1 .. MaxTimers, session : 1 .. MaxSessions]

Clean == manners = "clean"

-----------------------------------------------------------------------------
(* libsric *)

\* The command before has been read.  It always has, except for a program that
\* took a stale reply for its own: that one is held up until then (a bound).
Calls(c, what, command) ==
  /\ conn[c]
  /\ call[c] = "idle"
  /\ cmd[c] = NoCommand
  /\ call' = [call EXCEPT ![c] = what]
  /\ cmd' = [cmd EXCEPT ![c] = command]
  /\ UNCHANGED <<clientVars, socket, pollVars, targets, received>>

\* sric_note_set_flags: the cache is written first.  When it already holds
\* these flags the call returns success and changes nothing at all.
SetFlags(c, a, ks) ==
  /\ noteflags[c][a] # ks
  /\ noteflags' = [noteflags EXCEPT ![c][a] = ks]
  /\ Calls(c, "flags", FlagsCommand(a, ks))

\* Mutant of UnregisterAll: the cache is left as it was.
UnregisterAllKeepsCache(c) ==
  /\ Calls(c, "clear", [op |-> "clear"])
  /\ UNCHANGED noteflags

\* sric_note_unregister_all.
UnregisterAll(c) ==
  /\ noteflags' = [noteflags EXCEPT ![c] = [a \in Addresses |-> {}]]
  /\ Calls(c, "clear", [op |-> "clear"])

\* sric_enumerate_devices from the start: sric_refresh_devices.
EnumerateDevices(c) ==
  /\ Calls(c, "list", [op |-> "list"])
  /\ UNCHANGED noteflags

\* sric_poll_note.
PollNote(c) ==
  /\ Calls(c, "poll", [op |-> "poll"])
  /\ UNCHANGED noteflags

\* Where a program in call `what' is once it has read a reply of kind k.
AfterReply(what, k) ==
  CASE what = "flags" /\ k \in {"ok", "badaddr"} -> "idle"
    [] what = "clear" /\ k = "ok"                -> "idle"
    [] what = "list" /\ k = "devices"            -> "idle"
    [] what = "poll" /\ k = "note"               -> "idle"
    [] what = "poll" /\ k = "timeout"            -> IF Clean THEN "failed" ELSE "idle"
    [] OTHER                                     -> "lost"

InCall(c) == call[c] \in {"flags", "clear", "list", "poll"}

CallReturns(c) ==
  /\ conn[c]
  /\ InCall(c)
  /\ socket[c] # <<>>
  /\ call' = [call EXCEPT ![c] = AfterReply(call[c], Head(socket[c]).kind)]
  /\ socket' = [socket EXCEPT ![c] = Tail(@)]
  /\ UNCHANGED <<clientVars, noteflags, cmd, pollVars, targets, received>>

-----------------------------------------------------------------------------
(* device.c *)

\* device_set_client_notes on a list of targets: c's record is dropped, given
\* the new flags, or made.  The order of the list decides nothing.
SetClientNotes(old, c, ks) ==
  LET mine == {t \in old : t.client = c}
  IN  (old \ mine) \cup
      CASE ks = {}                 -> {}
        [] ks # {} /\ mine # {}    -> {[t EXCEPT !.flags = ks] : t \in mine}
        [] ks # {} /\ mine = {}    ->
             {[client |-> c, session |-> session[c], flags |-> ks]}

\* device_clear_client_notes.
ClearClientNotes(c) ==
  targets' = [a \in Addresses |-> SetClientNotes(targets[a], c, {})]

\* The flags sricd holds for c and a.
Registered(c, a) == UNION {t.flags : t \in {u \in targets[a] : u.client = c}}

\* The bits device_dispatch_note may test for a note of kind k.  It shifts a
\* 64-bit word by k: from 64 on that is undefined, and any bit or none.
BitsTested(k) == IF k \in Kinds THEN {k} ELSE 0 .. NumFlags

Told(src, bit) == {t.client : t \in {u \in targets[src] : bit \in u.flags}}

\* Mutant of PushNote: note_q is drained from the end it is filled at.
PushNoteNewest(hearers, n) ==
  LET pinged == {c \in hearers : notePing[c]}
  IN  /\ noteq' = [c \in Clients |->
           IF c \in hearers \ pinged THEN <<n>> \o noteq[c] ELSE noteq[c]]
      /\ socket' = [c \in Clients |->
           IF c \in pinged THEN Append(socket[c], NoteReply(n)) ELSE socket[c]]
      /\ notePing' = [c \in Clients |-> notePing[c] /\ c \notin pinged]
      /\ noteTimer' = [c \in Clients |-> IF c \in pinged THEN 0 ELSE noteTimer[c]]
      /\ timers' = {t \in timers : t.client \in pinged => t.num # noteTimer[t.client]}

\* Mutant of PushNote: note_ping leaves the poll's timer running.
PushNoteTimerStays(hearers, n) ==
  LET pinged == {c \in hearers : notePing[c]}
      with(c) == IF c \in hearers THEN Append(noteq[c], n) ELSE noteq[c]
  IN  /\ noteq' = [c \in Clients |->
           IF c \in pinged THEN Tail(with(c)) ELSE with(c)]
      /\ socket' = [c \in Clients |->
           IF c \in pinged THEN Append(socket[c], NoteReply(Head(with(c))))
                           ELSE socket[c]]
      /\ notePing' = [c \in Clients |-> notePing[c] /\ c \notin pinged]
      /\ noteTimer' = [c \in Clients |-> IF c \in pinged THEN 0 ELSE noteTimer[c]]
      /\ UNCHANGED timers

\* Mutant of PushNote: note_ping is called before the note is in note_q.
PushNotePingEarly(hearers, n) ==
  LET pinged == {c \in hearers : notePing[c]}
  IN  /\ noteq' = [c \in Clients |->
           IF c \in hearers THEN Append(noteq[c], n) ELSE noteq[c]]
      /\ socket' = [c \in Clients |->
           IF c \in pinged THEN Append(socket[c], Status("note")) ELSE socket[c]]
      /\ notePing' = [c \in Clients |-> notePing[c] /\ c \notin pinged]
      /\ noteTimer' = [c \in Clients |-> IF c \in pinged THEN 0 ELSE noteTimer[c]]
      /\ timers' = {t \in timers : t.client \in pinged => t.num # noteTimer[t.client]}

\* client_push_note for each of the hearers: the note joins note_q, and where
\* a poll is blocked note_ping answers it with the oldest note there.
PushNote(hearers, n) ==
  LET pinged == {c \in hearers : notePing[c]}
      with(c) == IF c \in hearers THEN Append(noteq[c], n) ELSE noteq[c]
  IN  /\ noteq' = [c \in Clients |->
           IF c \in pinged THEN Tail(with(c)) ELSE with(c)]
      /\ socket' = [c \in Clients |->
           IF c \in pinged THEN Append(socket[c], NoteReply(Head(with(c))))
                           ELSE socket[c]]
      /\ notePing' = [c \in Clients |-> notePing[c] /\ c \notin pinged]
      /\ noteTimer' = [c \in Clients |-> IF c \in pinged THEN 0 ELSE noteTimer[c]]
      /\ timers' = {t \in timers : t.client \in pinged => t.num # noteTimer[t.client]}

\* device_dispatch_note, from proc_rx_frame.  A note whose ACK the device did
\* not hear comes a second time and is one more here.
DispatchNote(src, kind, bit) ==
  /\ bit \in BitsTested(kind)
  /\ received < MaxNotes
  /\ received' = received + 1
  /\ PushNote(Told(src, bit), [num |-> received + 1, src |-> src])
  /\ UNCHANGED <<clientVars, callVars, targets>>

-----------------------------------------------------------------------------
(* ipc.c and client.c: connections *)

\* ipc_new, client_create, and sric_init on the other side.
IpcNew(c) ==
  /\ ~conn[c]
  /\ Cardinality({d \in Clients : conn[d]}) < MaxLive[manners]
  /\ \E n \in 1 .. MaxSessions :
       /\ \A d \in Clients : session[d] < n
       /\ n > 1 => \E d \in Clients : session[d] = n - 1
       /\ session' = [session EXCEPT ![c] = n]
  /\ conn' = [conn EXCEPT ![c] = TRUE]
  /\ UNCHANGED <<manners, callVars, socket, pollVars, targets, received>>

\* Mutant of IpcClientDeath: client_destroy does not clear the notes.
IpcClientDeathKeepsNotes(c) ==
  /\ conn[c]
  /\ Clean => call[c] \in {"idle", "failed"}
  /\ conn' = [conn EXCEPT ![c] = FALSE]
  /\ call' = [call EXCEPT ![c] = "idle"]
  /\ cmd' = [cmd EXCEPT ![c] = NoCommand]
  /\ noteflags' = [noteflags EXCEPT ![c] = [a \in Addresses |-> {}]]
  /\ socket' = [socket EXCEPT ![c] = <<>>]
  /\ noteq' = [noteq EXCEPT ![c] = <<>>]
  /\ notePing' = [notePing EXCEPT ![c] = FALSE]
  /\ noteTimer' = [noteTimer EXCEPT ![c] = 0]
  /\ UNCHANGED <<manners, session, timers, targets, received>>

\* ipc_client_death, client_destroy: targets and queue go, a timer does not.
\* Nothing is left of the program either (sric_quit).
IpcClientDeath(c) ==
  /\ conn[c]
  /\ Clean => call[c] \in {"idle", "failed"}
  /\ conn' = [conn EXCEPT ![c] = FALSE]
  /\ call' = [call EXCEPT ![c] = "idle"]
  /\ cmd' = [cmd EXCEPT ![c] = NoCommand]
  /\ noteflags' = [noteflags EXCEPT ![c] = [a \in Addresses |-> {}]]
  /\ socket' = [socket EXCEPT ![c] = <<>>]
  /\ ClearClientNotes(c)
  /\ noteq' = [noteq EXCEPT ![c] = <<>>]
  /\ notePing' = [notePing EXCEPT ![c] = FALSE]
  /\ noteTimer' = [noteTimer EXCEPT ![c] = 0]
  /\ UNCHANGED <<manners, session, timers, received>>

-----------------------------------------------------------------------------
(* ipc.c: the commands *)

Takes(c, op) ==
  /\ conn[c]
  /\ cmd[c].op = op
  /\ cmd' = [cmd EXCEPT ![c] = NoCommand]
  /\ UNCHANGED <<clientVars, noteflags, call, received>>

WriteReply(c, r) == socket' = [socket EXCEPT ![c] = Append(@, r)]

\* handle_note_flags, the device exists.
HandleNoteFlags(c) ==
  /\ Takes(c, "flags")
  /\ LET a == cmd[c].addr
     IN  /\ a \in Present
         /\ targets' = [targets EXCEPT ![a] =
                          SetClientNotes(@, c, cmd[c].flags)]
  /\ WriteReply(c, Status("ok"))
  /\ UNCHANGED pollVars

\* handle_note_flags, the device does not exist.
HandleNoteFlagsBadAddr(c) ==
  /\ Takes(c, "flags")
  /\ cmd[c].addr \notin Present
  /\ WriteReply(c, Status("badaddr"))
  /\ UNCHANGED <<pollVars, targets>>

HandleNoteClear(c) ==
  /\ Takes(c, "clear")
  /\ ClearClientNotes(c)
  /\ WriteReply(c, Status("ok"))
  /\ UNCHANGED pollVars

\* handle_list_devices.  sricd's own address and the broadcast address are
\* listed too, always and first.
HandleListDevices(c) ==
  /\ Takes(c, "list")
  /\ WriteReply(c, [kind |-> "devices", devices |-> Present])
  /\ UNCHANGED <<pollVars, targets>>

\* handle_poll_note, a note is there.
HandlePollNoteNow(c) ==
  /\ Takes(c, "poll")
  /\ noteq[c] # <<>>
  /\ WriteReply(c, NoteReply(Head(noteq[c])))
  /\ noteq' = [noteq EXCEPT ![c] = Tail(@)]
  /\ UNCHANGED <<notePing, noteTimer, timers, targets>>

\* handle_poll_note, timeout 0.
HandlePollNoteZero(c) ==
  /\ "zero" \in PollTimeouts
  /\ Takes(c, "poll")
  /\ noteq[c] = <<>>
  /\ WriteReply(c, Status("timeout"))
  /\ UNCHANGED <<pollVars, targets>>

\* Mutant of HandlePollNoteForever: c->note_ping is not set.
HandlePollNoteForgotten(c) ==
  /\ "never" \in PollTimeouts
  /\ Takes(c, "poll")
  /\ noteq[c] = <<>>
  /\ UNCHANGED <<socket, pollVars, targets>>

\* handle_poll_note, timeout -1.
HandlePollNoteForever(c) ==
  /\ "never" \in PollTimeouts
  /\ Takes(c, "poll")
  /\ noteq[c] = <<>>
  /\ notePing' = [notePing EXCEPT ![c] = TRUE]
  /\ UNCHANGED <<socket, noteq, noteTimer, timers, targets>>

\* Mutant of HandlePollNoteTimed: note_q is not looked at first.
HandlePollNoteBlind(c) ==
  /\ "finite" \in PollTimeouts
  /\ Takes(c, "poll")
  /\ notePing' = [notePing EXCEPT ![c] = TRUE]
  /\ \E i \in 1 .. MaxTimers :
       /\ \A t \in timers : t.client = c => t.num # i
       /\ noteTimer' = [noteTimer EXCEPT ![c] = i]
       /\ timers' = timers \cup
            {[client |-> c, num |-> i, session |-> session[c]]}
  /\ UNCHANGED <<socket, noteq, targets>>

\* handle_poll_note, any other timeout: c->note_timer is overwritten.
HandlePollNoteTimed(c) ==
  /\ "finite" \in PollTimeouts
  /\ Takes(c, "poll")
  /\ noteq[c] = <<>>
  /\ notePing' = [notePing EXCEPT ![c] = TRUE]
  /\ \E i \in 1 .. MaxTimers :
       /\ \A t \in timers : t.client = c => t.num # i
       /\ noteTimer' = [noteTimer EXCEPT ![c] = i]
       /\ timers' = timers \cup
            {[client |-> c, num |-> i, session |-> session[c]]}
  /\ UNCHANGED <<socket, noteq, targets>>

\* note_timeout_callback, its client still there or another one at its
\* address.  Unlike the timeout of an RX poll it cancels no frames; note_ping
\* stays set.
NoteTimeout(t) ==
  /\ conn[t.client]
  /\ timers' = timers \ {t}
  /\ WriteReply(t.client, Status("timeout"))
  /\ noteTimer' = [noteTimer EXCEPT ![t.client] = 0]
  /\ UNCHANGED <<clientVars, callVars, noteq, notePing, targets, received>>

\* note_timeout_callback with a pointer to freed memory: the status byte goes
\* nowhere or to a client whose fd has that number.
NoteTimeoutOfDead(t) ==
  /\ ~conn[t.client]
  /\ timers' = timers \ {t}
  /\ \/ UNCHANGED socket
     \/ \E d \in Clients : conn[d] /\ WriteReply(d, Status("timeout"))
  /\ UNCHANGED <<clientVars, callVars, noteq, notePing, noteTimer, targets,
                 received>>

-----------------------------------------------------------------------------

Init ==
  /\ manners \in DOMAIN MaxLive
  /\ conn = [c \in Clients |-> FALSE]
  /\ session = [c \in Clients |-> 0]
  /\ noteflags = [c \in Clients |-> [a \in Addresses |-> {}]]
  /\ call = [c \in Clients |-> "idle"]
  /\ cmd = [c \in Clients |-> NoCommand]
  /\ socket = [c \in Clients |-> <<>>]
  /\ noteq = [c \in Clients |-> <<>>]
  /\ notePing = [c \in Clients |-> FALSE]
  /\ noteTimer = [c \in Clients |-> 0]
  /\ timers = {}
  /\ targets = [a \in Addresses |-> {}]
  /\ received = 0

Handle(c) ==
  \/ HandleNoteFlags(c)
  \/ HandleNoteFlagsBadAddr(c)
  \/ HandleNoteClear(c)
  \/ HandleListDevices(c)
  \/ HandlePollNoteNow(c)
  \/ HandlePollNoteZero(c)
  \/ HandlePollNoteForever(c)
  \/ HandlePollNoteTimed(c)

Program(c) ==
  \/ \E a \in Addresses, ks \in FlagWords : SetFlags(c, a, ks)
  \/ UnregisterAll(c)
  \/ EnumerateDevices(c)
  \/ PollNote(c)

Dispatch ==
  \E src \in Present, kind \in 0 .. NumFlags, bit \in 0 .. NumFlags :
    DispatchNote(src, kind, bit)

Next ==
  \/ \E c \in Clients : \/ IpcNew(c)
                        \/ IpcClientDeath(c)
                        \/ Program(c)
                        \/ CallReturns(c)
                        \/ Handle(c)
  \/ Dispatch
  \/ \E t \in timers : NoteTimeout(t) \/ NoteTimeoutOfDead(t)

Spec == Init /\ [][Next]_vars

\* glib dispatches readable sockets, and a program goes on reading.
Fairness == \A c \in Clients : WF_vars(Handle(c)) /\ WF_vars(CallReturns(c))

FairSpec == Spec /\ Fairness

-----------------------------------------------------------------------------
(* Properties *)

NotesTypeOK ==
  /\ manners \in {"clean", "rough"}
  /\ conn \in [Clients -> BOOLEAN]
  /\ session \in [Clients -> 0 .. MaxSessions]
  /\ noteflags \in [Clients -> [Addresses -> SUBSET Kinds]]
  /\ call \in [Clients -> {"idle", "flags", "clear", "list", "poll", "failed", "lost"}]
  /\ cmd \in [Clients -> Command]
  /\ socket \in [Clients -> Seq(Reply)]
  /\ noteq \in [Clients -> Seq(NoteFrame)]
  /\ notePing \in [Clients -> BOOLEAN]
  /\ noteTimer \in [Clients -> 0 .. MaxTimers]
  /\ timers \subseteq Timer
  /\ targets \in [Addresses -> SUBSET Target]
  /\ received \in 0 .. MaxNotes

\* No use after free: every target of every device is a client that is alive,
\* the one that asked and not its successor at the same address, and has one
\* record there.
TargetsAlive ==
  \A a \in Addresses : \A t \in targets[a] :
    /\ conn[t.client] /\ session[t.client] = t.session
    /\ \A u \in targets[a] : u.client = t.client => u = t

\* The flags libsric has cached are those sricd holds, except while the
\* command that sets them is on its way.
CacheAgrees(c, a) ==
  conn[c] /\ cmd[c].op \notin {"flags", "clear"}
    => noteflags[c][a] = Registered(c, a)

\* The flags libsric has cached for a device on the bus are those sricd holds
\* once the call is over: registering, clearing, dying and coming back at the
\* same address never leave the two apart, or no later call would mend it.
FlagsAgree == \A c \in Clients, a \in Present : CacheAgrees(c, a)

\* sric.h: sric_note_get_flags returns the note flags on that device, and
\* sric_note_set_flags whether it was successful.
FlagsOnDevice ==
  \A c \in Clients, a \in Addresses : call[c] = "idle" => CacheAgrees(c, a)

\* A note never waits in note_q while a poll is blocked: note_ping's
\* assert(note) holds and it hands over the note just pushed.
NoNoteOverlooked == \A c \in Clients : notePing[c] => noteq[c] = <<>>

\* What a clean program reads is the reply to its own command.  Behind it there
\* may be a note: sricd writes one to whoever's poll has just timed out.
NoteRepliesInStep ==
  Clean => \A c \in Clients :
    /\ call[c] # "lost"
    /\ InCall(c) /\ socket[c] # <<>> =>
         /\ cmd[c] = NoCommand
         /\ AfterReply(call[c], Head(socket[c]).kind) # "lost"

\* The inbox of a program is what sricd has written to it and what waits.  Of
\* the replies in its socket those of one kind are notes.
NotesWith(notes, r) == IF r.kind = "note" THEN Append(notes, r.note) ELSE notes

NotesOf(s) ==
  LET upTo[i \in 0 .. Len(s)] ==
        IF i = 0 THEN <<>> ELSE NotesWith(upTo[i - 1], s[i])
  IN  upTo[Len(s)]

NS == INSTANCE NoteService WITH
        wants <- [c \in Clients |-> [a \in Addresses |-> Registered(c, a)]],
        inbox <- [c \in Clients |-> NotesOf(socket[c]) \o noteq[c]]

\* sricd implements NoteService: whatever polls, timeouts and deaths come
\* between, each note reaches those who wanted it when it came, once, in
\* order, and is in the inbox until it is read or its reader is gone.
NoteServiceSpec == NS!SSpec

\* A program that polls and has a note waiting gets an answer.
NotePollReturns ==
  \A c \in Clients :
    call[c] = "poll" /\ (noteq[c] # <<>> \/ socket[c] # <<>>) ~> call[c] # "poll"
=============================================================================
