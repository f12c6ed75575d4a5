# sricd in TLA+

sricd is a daemon that shares a serial bus of devices (SRIC) between programs.
It is one thread around a glib main loop: callbacks run one after the other,
each to its end, and everything that interleaves does so between callbacks.
This directory models that daemon, the library its clients use, the bus
emulator it is tested with and the relay that damages what passes between them,
checks the models with TLC and proves most of what is said of the daemon's core
with TLAPS.

## The system

| Part | State it keeps | Operations |
|---|---|---|
| Transmit side, `sricd/sric-if.c` | `tx_frame`, `txbuf`/`txpos`, the write watch, the retransmission timer, `frame_cancelled` | `if_tx`, `next_tx`, `tx_timeout`, `proc_rx_frame` (ACKs), `sric_if_cancel`, `sric_if_tx_ready` |
| Receive side, `sricd/sric-if.c` | `rxbuf`, `unesc_rx` | `read_incoming`, `advance_rx`, `rx` |
| Transmit queue, `sricd/output-queue.c` | two FIFO queues, priority 0 (ACKs, enumeration) and 1 (clients) | `txq_push`, `txq_next`, `txq_empty`, `txq_cancel` |
| Escaping, `sricd/escape.c` | none | `escape_frame`, `unescape`, `unescape_frame` (unused) |
| Clients, `sricd/ipc.c`, `client.c` | per client: socket, `rx_q`, `note_q`, a ping and a timer for each | accept, the six commands, the timeouts, pings, death |
| Enumeration, `sricd/sric-enum.c` | the state machine, the next address, `device_classes`, two timers | `sric_enum_start`, `sric_enum_fsm`, `sric_enum_rx` |
| Devices and notes, `sricd/device.c` | device types, note targets | add, set/clear notes, dispatch |
| libsric, `libsric/` | a socket, cached note flags | `sric_tx`, `sric_poll_rx`, `sric_txrx`, notes, listing |
| ostric, `ostric/` | a ring of devices, who has the token, the gateway's flags, `pty_buf` | bus and gateway commands, `advance_token`, `process_command` |
| trumpets, `trumpets/` | per direction: a buffer and a write watch | a relay between a terminal and a pty that flips random bits |
| CRC, `crc16/` | none | `crc16` |
| Logging, start-up, `pysric` | | not modelled (see below) |

How they interact. Client commands reach `ipc.c` by socket and become frames in
the queue, tagged with the client's pointer. `txq_push` registers the write
watch; `if_tx` takes a frame, writes it in as many pieces as the port allows,
arms a 50 ms timer and unregisters the watch. An ACK retires the current frame
and is pushed to the client its tag names, whose blocked poll is then answered.
A device's note is acknowledged with a frame of priority 0. A poll's timeout and
a client's death cancel frames by tag. Before any client is accepted, the same
transmit side carries the enumeration. A note that arrives goes to the clients
that set flags for its device: into `note_q`, or straight to a blocked poll.

What is hard: the order of callbacks (an ACK against the timer, the watch, a
cancel, a client's death); pointers kept by queues and timers beyond their
client's life; answers lost, late or duplicated; a token whose place decides
who gets an address; byte streams cut anywhere. `PROJECT.json` lists each of
these at its line under "hazards".

## The modules

| Module | Models | Proofs |
|---|---|---|
| `SricIf` | transmit side, queue, the client events that reach them | `SricIfProofs` |
| `TxService` | what the transmit side promises: no bus, buffer or timer | `SricIfProofs` |
| `Ipc` | TX and POLL_RX from libsric to the bus and back; extends `SricIf` | `IpcProofs`, `IpcCleanProofs` |
| `CallService` | what a program that calls `sric_txrx` is promised: no socket, queue, timer or bus | `IpcCleanProofs` |
| `Notes` | note targets, the note and listing commands, note polls, libsric's calls and flag cache | `NotesProofs` |
| `NoteService` | what a program that listens for notes is promised | `NotesProofs` |
| `Ostric` | the bus: devices, token, gateway | `EnumerationProofs` |
| `Enumeration` | the state machine and its link to the bus; extends `Ostric` | `EnumerationProofs` |
| `Frames` | `crc16`, escaping, the layout of a frame | `LineProofs` |
| `Framing` | sricd's receiver, byte by byte | `LineProofs`, `CleanLineProofs` |
| `OstricRx` | ostric's receiver, byte by byte | `LineProofs`, `CleanLineProofs` |
| `Trumpets` | one direction of the relay | `LineProofs`, `CleanLineProofs` |
| `SerialLine` | composes the last three: a line, and who listens at its end | `LineProofs`, `CleanLineProofs` |
| `Induction` | nothing of the code: induction for functions defined by recursion | |
| `MC*` | instances for TLC | |

An action is one callback, from dispatch to return, with every call it makes;
`if_tx` is one action per way it can end, and one `write()` per action because
each takes as many bytes as it likes. `Ipc` conjoins `SricIf`'s actions with the
client state they touch. `Notes` stands alone: a note meets the transmit side
only in the ACK sent for it, which is `RxNote` of `SricIf`. In `Enumeration`,
sending a frame and the turn of ostric's main loop that reads it are one step:
ostric is a process of its own, but nothing of sricd's state is looked at between
them; the ACKs travel on `wire` and are read later, in any interleaving.
`SerialLine` has one step per `read()` and per turn of `rx`'s loop, per turn of
ostric's main loop, and per callback of trumpets.

Variables keep the source's names where they can. Some are not in the code and
say so: `session` (which of the clients that lived at an address), `asked`,
`heap`, `sent`, `errors`, `received`, `manners`, `lostFrames`, `lostAnswers`.
Frames are numbered in the order they are allocated, which makes a FIFO queue a
set.

Programs come in two manners. `clean` ones (`CleanClients` in `Ipc`) close only
between calls, and always after a call that timed out; `rough` ones go on after
a timeout and may die at any moment; in `Ipc` they also send several frames
before they poll (the case of the comment at `ipc.c:152`), and poll as often as
they like once they have sent something. Much holds for clean programs only, and
the runs on rough ones say what is left. Nothing in libsric's documentation asks
a program to be clean: that is what the code needs.

Programs may broadcast. libsric lets a frame for address 0 through
(`check_frame` at `sric.c:95`), `handle_tx` finds that address to exist
(`device.c:42`), and `if_tx` waits for an answer as to any frame of a client. But
several devices may answer a broadcast: ostric acknowledges TOK_ADVANCE and
ADDR_INFO once for each device that gets them. `Destinations` says where programs
send and `Responders` how many answers a broadcast gets (`AnswersTo`). Much of
what is said of the answers holds only if no program broadcasts (`NoBroadcasts`):
see "Timeliness and broadcasts".

Abstractions. Payloads are absent from `SricIf` and `Ipc`, and of an address
there is only what makes a difference: an ACK, a broadcast, or a frame for one
device. In `Ipc` and `Notes` a reply is one item; libsric's partial reads are
not modelled. A word of 64 note flags is a set of at most `NumFlags` kinds, and
a shift by 64 or more (`device_dispatch_note`) any kind or none.
`retxmit_timeout_id` keeps a stale number after the timer fired, and an ACK
before the resend removes a source of that number: glib numbers sources upwards
and only warns, so the model has only "armed". A `write()` or `read()` that
fails, `EAGAIN` too, ends the process and is not an action. `device_types` is a
plain `char` array compared with -1: the models assume a signed `char`, as on
the platforms the Makefile builds for.

A caller that took a stale reply for its own may write a command before the one
before it was read. `Ipc` and `Notes` hold such a caller up until it was (the
guard on `cmd`): a bound, which clean programs never meet.

External parts, modelled from how sricd uses them: the bus losing or delaying
frames, the devices' answers, and the part of the gateway that takes the last
address. ostric's gateway never answers ADDR_ASSIGN, so against ostric alone
sricd does not get past it; the answer `sric-enum.c` waits for is supplied.

### The abstract specifications

* `TxService`: requests are submitted, completed in the order of their class,
  once, or withdrawn by their owner. `SricIf` implements it with `pending` the
  frames queued or in transmission and not cancelled.
* `CallService`: a call is refused, or accepted with a turn behind all those
  accepted before; requests are answered in turn, each once; a call returns its
  own answer, or gives up before it came and never after; nothing a program does
  changes the stage or the turn of another. `Ipc` implements it for clean
  programs that do not broadcast: `Stage` reads the stage off the call, the
  command and the socket, the turn is the number of the caller's frame while that
  is live, and the answer is what `rx_q` or the socket holds (`Held`).
* `NoteService`: a note goes into the inbox of exactly those who want it when it
  comes, is taken from there in order, and nothing else adds, removes or
  reorders one. `Notes` implements it for all programs, with the inbox the notes
  written to the socket and those in `note_q`.

## What the runs check

Runs that pass:

* `link` - two clients that connect, send to a device or broadcast, time out,
  die and return at the same address, notes, answers lost, late and several to
  one frame. Types; no lost wakeup (`NoLostWakeup`); the timer armed exactly
  while an answer is awaited (`RetransmitTimerArmed`); no frame serves a dead
  client or a successor of it (`NoDanglingTag`); no double ownership
  (`FramesOwnedOnce`); `ServiceSpec`, the refinement of `TxService`; and
  `EveryFrameFinishes` under fairness. Three frames let one be in transmission
  and one wait in each queue, or two compete in one; two bytes per frame are
  enough to have one half written; two sessions let one address be used again;
  two answers in flight make a duplicate, of a broadcast or of a frame sent
  twice.
* `ipc_txrx` - two callers of `sric_txrx` on a timely bus, which do not
  broadcast, with all three kinds of timeout, closing after a call that timed
  out. Replies keep step with commands (`RepliesInStep`), no poll is forgotten
  (`PollsAreServed`), timers belong to blocked polls (`TimersTracked`), a call
  gets its own answer (`TxRxCorresponds`), every poll returns (`PollReturns`),
  and the whole implements `CallService`. As the bus is timely and each frame
  has one answer, answers reach only the frame they answer (`CorrespondingRx`),
  frames are never cut (`WholeFrames`) and the assertion of `client_push_rx`
  holds (`NeverAborts`). Three frames let a second call of one program follow a
  first that was answered, cancelled or given up while the other program's is
  queued.
* `ipc_rough` - callers that broadcast, send twice before they poll, poll with
  nothing due, go on after a timeout and die at any moment; two timers per
  address, so that one of a dead client's is still armed; two answers to a
  broadcast, so that one is taken for the next frame's. What still holds:
  `NoAnswerOverlooked` (the `assert(rx)` of `rx_ping`) and `TimerIdsValid`.
* `enum` - three devices and the gateway, from a fresh bus or one an earlier
  sricd left enumerated with the token anywhere, up to four frames and two ACKs
  lost. Four is one less than the five resets sricd sends: with all of them lost
  the devices do not keep the token, and enumeration ends without them.
  Addresses are unique, everybody gets one, the device table is what is on the
  bus, all classes were told, nothing of enumeration is left over when ACKs
  start going to clients, and enumeration ends unless an ACK is lost.
* `line` - the serial line, byte by byte, with the real checksum. To sricd: up
  to two frames with empty, plain and all-escaped payloads, of both start bytes,
  after no noise, a stray byte, a lone framing byte, a truncated frame or one
  with a length no buffer holds. Through trumpets, to sricd or to ostric: two
  frames, with a wrong bit in any byte; for ostric also a frame whose length its
  mask cuts, and one that just fills `pty_buf` (11 bytes on the wire) before one
  that does not fit (12). The bytes are cut into reads in every possible way.
  Whoever listens acts on nothing but frames that were sent, unchanged, in
  order, once (`FramesInOrder`); sricd as soon as it has read them
  (`NothingHeldBack`, but for two framing bytes in a row); ostric, once its
  turns change nothing, on all but those damaged or too big for it, unless one
  of these blocks it, and without an error on every frame before the first that
  is too big, the one that just fits included (`OstricHears`); buffers never
  fill and trumpets forgets no byte (`AlwaysRoomToRead`, `FramingTypeOK`,
  `NoByteForgotten`); an escaped frame of the greatest length fits `txbuf`
  (`EscapeFits`). Sizes are scaled down together: `PayloadMax` is 4 for 64,
  `PtyBufSize` 11 for 128, `LenModulus` 4 for 64, trumpets' buffer 3 for 256;
  only their order matters to the code, and that a payload of `PayloadMax` bytes
  has a length `LenModulus` makes 0 of. Bits 0 and 5 are hit. Bit 5 tells an
  escaped byte from what it stands for: flipped, it makes and unmakes framing
  and escape bytes, and moves a length by more than a buffer; bit 0 moves it by
  one. One error is enough to damage a length, a framing byte, an escape byte, a
  payload or a checksum.
* `notes` - two clean programs, or one rough one at a time, two connections in
  all, at one address or two; a device that exists and one that does not; two
  notes, of a kind wanted, unwanted or beyond 63; all three kinds of timeout.
  Note targets live exactly as long as their clients (`TargetsAlive`), libsric's
  cache and sricd agree on devices that exist (`FlagsAgree`), no note waits
  behind a blocked poll (`NoNoteOverlooked`), a clean program never reads the
  reply to another call (`NoteRepliesInStep`), `NoteService` is implemented, and
  a poll that has a note returns (`NotePollReturns`). Two connections let an
  address be used again while a timer of the first is armed; two notes let one
  come before a poll and one while it is blocked.

Runs that find the code and its documentation apart (details under "findings"):

* `second_answer` - although no answer is late, the second answer to a broadcast
  is handed to the next frame's client and retires its frame; if that frame is
  half written it is cut off, and if it is an ACK of sricd's own the daemon
  aborts.
* `cancelled_resent` - a cancel between the timeout and the resend is missed.
* `stale_ping` - `timeout_callback` leaves `rx_ping` set.
* `orphan_timer` - a dead client's poll timer fires on its successor.
* `enum_late` - a late ADDR_INFO reply lets enumeration end with a class missing.
* `note_flags` - libsric keeps note flags that sricd refused and says so.

Seen while modelling, without a run of their own: a frame that wants no answer
is dropped at `sric-if.c:471` without `free` (stated as `NoLeak` in `SricIf`); a
frame that is complete in `rxbuf` waits for another byte when two framing bytes
come in a row (`HeldBack`, the exception in `NothingHeldBack`); a partial frame
followed by a framing byte blocks ostric's parser for ever (`Blocked`, the
exception in `OstricHears`).

Every property of a passing run has a mutant, defined next to the definition it
changes and named in `PROJECT.json`: a bug the property is there to catch.

Deadlock is not checked: the bounds on frames, sessions and losses let every
behaviour come to rest, and so does a daemon with nothing to do.

### Fairness

`FairSpec` and `IpcFairSpec` assume weak fairness of `if_tx`, of the timers'
callbacks and of the handlers of readable sockets: glib dispatches a source that
stays ready. `RxAnswer` has strong fairness: a device that is sent a frame over
and over is heard in the end, although every single answer may be lost; without
it a dead device blocks the bus for ever, which is what the code does.
`PollReturns` needs no more of a caller than that it reads its replies.
`FairSpec` of `Notes` is weakly fair to the handlers and to programs reading
replies, and to nothing else: devices need not send notes, and note timers need
not fire. `SerialLine` claims no liveness: its properties speak of states in
which every byte has been handed over. `EnumFairSpec` is weakly fair to every
action of sricd; the losses are bounded. Frames being bounded, ACKs of priority
0 cannot starve priority 1 in these runs; a bus that never stops sending notes
could do so in the code.

### Timeliness and broadcasts

`TimelyNext` forbids the retransmission timer to fire while an answer is on its
way. That is what RETXMIT_TIMEOUT is chosen for, and nothing in the code checks
it. `Ipc` builds it in, so that its properties speak of `ipc.c`. It does not by
itself give each frame one answer: the others to a broadcast may come after the
first, when the next frame is current. Nothing in the code tells them apart
(`proc_rx_frame` looks at no source), so that of a program that broadcasts, or on
a bus where answers are late, the following is not claimed, and not true:

* `CorrespondingRx` and `TxRxCorresponds`: the next caller gets the answer;
* `WholeFrames`: the next frame may be half written when it comes, and is cut;
* `NeverAborts`, and so `PollReturns`: half written may be an ACK of sricd's own,
  with no tag;
* `CallServiceSpec`: a request answered so gives its own answer to the one after
  it, and so on.

The run `second_answer` shows the first of these. The run `ipc_txrx` has neither
broadcasts nor late answers, and the theorems about these properties say
`NoBroadcasts`. All that `link` and `ipc_rough` check holds with broadcasts, and
so do, by their proofs, `RepliesInStep`, `PollsAreServed` and `TimersTracked`: a
frame is answered once, if perhaps by the wrong device.

`Settled` in `Enumeration` says of the 100 ms and 50 ms timers that no exchange
is under way when one fires. That leaves out slow buses, and also a fast one on
which a frame was lost: its retransmission comes after 50 ms, as does the next
reset (`sric-enum.c:200`), and either may be first. On a slower bus the extra
ACKs of a broadcast can shift every later exchange by one and enumeration hangs;
the run `enum_late` is about ACKs that are late.

## What is proved

For every set of clients, every number of devices, every size of a buffer, every
bound and every kind of timeout, with the assumptions on the constants only
(`ConstantsAssumption`, `IpcAssumption`, `NotesAssumption`, `OstricAssumption`,
`EnumerationAssumption`, `FramingAssumption`, `LineAssumption`: `NoTag` is no
client, `NoFrame` no frame, `NoAddr` no address, the bounds are numbers, buffers
and frames have at least one byte, a payload has at most `PAYLOAD_MAX`, whose
length fits a byte, the addresses suffice for the devices):

* `SricIfProofs`: `TypeOK`, `NoLostWakeup`, `RetransmitTimerArmed`,
  `NoDanglingTag` and `FramesOwnedOnce` hold in all behaviours of `Spec`. The
  invariant is `IInv`, those five and four more, because they are not inductive
  alone: `Numbered` (frames have distinct numbers, none beyond `allocs`, so that
  freeing one frees no other), `Classified` (queue 0 holds sricd's ACKs, queue 1
  the clients' requests), `AwaitsResponse` (only a frame that wants an answer is
  waited for, so that the timer and the wait begin and end together) and
  `Ordered` (the frame in transmission is older than those of its class in the
  queue). `Invariant` is proved with one lemma per action.
* `SricIfProofs`, on a timely bus and assuming `NoBroadcasts`: `NeverAborts`,
  `CorrespondingRx` and `WholeFrames` for `TimelySpec`, from `IInv` and `TInv`:
  an answer is on its way only while its own frame is current, entirely sent and
  awaiting it, and then only one.
* `SricIfProofs`, last part: that `SricIf` implements `TxService`. The proof has
  one step per action: a push is `Submit`; the end of a frame, by its last byte
  or its answer, is `Complete`; a cancel is `Withdraw`; all others stutter.
* `IpcProofs`: every behaviour of `IpcSpec` is one of `TimelySpec`
  (`ImplementsTimely`), so that all of the above holds of the request path, the
  last three assuming `NoBroadcasts`. Then `IpcTypeOK`, `NoAnswerOverlooked` and
  `TimerIdsValid`, whatever programs do. The invariant `IpcInv` adds that a
  client that is gone left neither ping nor `rx_timer` (a callback for a dead
  client writes to its address, and would otherwise disturb the next one there).
* `IpcCleanProofs`: `RepliesInStep`, `PollsAreServed` and `TimersTracked`,
  assuming `CleanClients`, and `TxRxCorresponds`, assuming `NoBroadcasts` as
  well. The invariant `CleanInv` says in which of ten phases each call is and,
  for each phase, what the socket holds, whether a timer may be armed, and
  whether a frame or its answer can still be about. `TInv` is needed for the one
  step that matters in `TxRxCorresponds`: the answer delivered is that of the
  current frame, and so of the call that waits.
* `IpcCleanProofs`, last part: that `Ipc` implements `CallService`, assuming
  `CleanClients` and `NoBroadcasts`. Each phase of `CleanInv` has one stage; the
  order of turns is `Ordered` of `IInv` (the frame whose answer arrives is the
  oldest of all clients'), and that no other call moves is read off the exact
  effect of each step on the live frames. It takes one more invariant,
  `CurrentClassified`: `if_tx` must not drop a client's frame for an ACK.
* `NotesProofs`: `NotesTypeOK`, `TargetsAlive`, `FlagsAgree` and
  `NoNoteOverlooked`, whatever programs do. `FlagsAgree` is silent while a
  command is on its way; `Cached` says what the cache holds then. For clean
  programs `NoteRepliesInStep`, from `StepInv`, which says in which of six
  phases a program is. Last, that `Notes` implements `NoteService`, whatever
  programs do: `handle_note_flags` is `Ask`, `handle_note_clear` `AskNothing`,
  the dispatch of a note `Publish`, the reading of a note `Take`, the death of a
  client `Leave`, and all else stutters. The step that needs the invariant is
  the dispatch to a blocked poll: the note goes straight to the socket, ahead of
  `note_q`, which is in order only because `note_q` is empty
  (`NoNoteOverlooked`); and `TargetsAlive` is why one client's flags are one
  record. `NotesOf`, which picks the notes out of a socket, is a recursion;
  `NotesOfAppend` and `NotesOfTail` say what a reply written and a reply read do
  to it.
* `EnumerationProofs`: `UniqueAddresses`, `QuietWhenEnumerated`,
  `CaughtAllAcks`, `EveryoneAddressed` and `BusKnown`, assuming a bus whose ACKs
  are not late (`~LateAnswers`) and less than five lost frames. These are facts
  about the end of a run and say nothing of how one gets there; the invariant
  `IInv` says it state by state of `sric_enum_fsm`. `InPhase` has one part per
  state: which frames are still to be sent and which one or which ACK is under
  way (an exchange has exactly one of them, so that an ACK can only move the
  machine on from the state that waits for it), which device has the token, that
  those before it in the ring have the addresses 2, 3, ... in order and those
  after it none, and, while classes are fetched, that what is known so far is
  the class of the device with that address. The places of the token are what
  makes addresses unique: ADDR_ASSIGN is obeyed by a device that has the token
  and no address, and there is one such. Both hypotheses are needed. If five
  frames are lost they may be the five resets, devices keep the addresses of an
  earlier run, and enumeration ends without them. On a late bus `CaughtAllAcks`
  fails (run `enum_late`). On any bus, with ACKs late and double: `EnumTypeOK`
  (`EnumTypeCorrect`), from `TInv`, which adds that no frame under way asks for
  an address beyond those `sric-enum.c` stops at.
* `LineProofs`: of `SerialLine`, `FramingTypeOK`, `AlwaysRoomToRead`,
  `NoByteForgotten` and `EscapeFits`, for whatever payloads, noise and errors.
  `LineInv` adds that `rxbuf[0]` is the head of `rxbuf` when that is not empty
  (`advance_rx` looks at `rxbuf[0]` before it looks at `rxpos`), that the pty
  buffer and the buffer of the relay keep their sizes, and that frames sent have
  at most `UnescSize` bytes. `AlwaysRoomToRead` comes from what `unescape` does
  when it makes nothing (`UnescapeBounded`): then it has used nothing and its
  source is empty, a lone escape byte, or begins with a framing byte, and in the
  last case `advance_rx` has begun a frame and taken a byte out of `rxbuf`.
  `EscapeFits` comes from the length of what `escape_frame` makes (`EscapeType`).
  Two theorems are about the algorithms alone: `EscapedHasNoFramingByte` (so that
  a framing byte on the wire is the start of a frame) and `UnescapeUndoesEscape`.
* `CleanLineProofs`: `FramesInOrder`, `NothingHeldBack` and `OstricHears`, for
  frames of any number, order and contents and any cut into reads. The
  hypotheses: at first the line carries frames with quiet bytes, neither framing
  nor escape bytes, before each (`QuietLine`: every line behind trumpets, and
  one with quiet noise, lemma `LinesAreQuiet`); and the properties are claimed
  as long as `CleanLine` holds: trumpets has hit no bit, and ostric's length
  mask holds the length of every frame sent to it. All three are needed: see
  "Only model-checked", and a length the mask cuts makes ostric check the wrong
  bytes. The invariant `CleanLineInv` says of every state that the bytes in the
  listener's buffer and on their way are what follows the frames already
  processed and the bytes already unescaped. That is `Ahead`: there is a set of
  triples (bytes left, frames done, bytes done of the next) that has this one
  and with each of its triples the one that comes when a quiet byte, a start
  byte, a plain byte or an escaped pair is taken from the front. It is a
  definition without recursion; `AheadBegins` and `AheadFrom` make it the fixed
  point it stands for. `UnescapeAhead` says what one call of `unescape` makes of
  it: it stops within a frame only with nothing left or a lone escape byte,
  which is why neither receiver waits for a byte it does not need; and the bytes
  it has used are just what stands on the wire for those it made (`Spent`),
  which is why a full `pty_buf` that blocks ostric holds less than the frame in
  it (`CleanBlocked`); `WholeWhenAllThere` and `OstricGot` say that a buffer
  that agrees with a frame is taken for whole just when it has all of it.
  `FrameAhead` and `StreamAhead` say that what `OnWire` makes of the frames sent
  is ahead at first.
* `Induction`: that a set of numbers with 0 and the successor of each of its
  members has them all, and that a recursion over `0 .. n` has a solution. The
  library's induction theorems take an operator, which none of the provers can
  instantiate; these take the set of the numbers that have a property, and the
  steps of a recursion as a function. With them a recursive function of the
  models (`InOrder`, `Crc16`, `Unescape`, `FlattenSeq`, `NotesOf`) is what its
  equations say.

Only model-checked:

* the liveness properties: liveness under fairness is out of the provers' reach;
* `FramesInOrder`, `NothingHeldBack` and `OstricHears` outside the hypotheses of
  `CleanLineProofs`. They are not true there for all values of the constants:
  noise may hold a frame with the right checksum, an escape byte before a frame
  eats its start, and more than one error may cancel out in a checksum of 16
  bits. The run `line` says that the noise and the errors in it are not of that
  kind.

## Not modelled

* Logging, options, signals and files of the daemon; `main` only hands over to
  glib's loop, which is the interleaving of the modules.
* `pysric`: bindings that forward each call to libsric.
* Of `ipc.c`: commands read in part and commands that do not exist, which libsric
  never writes, and the restart of the listening socket after an error.
* Of libsric: its error codes, the checks of arguments that return before a
  command is written, and a connection that breaks.
* Of trumpets: opening and setting up the terminal. Its two directions are the
  same code on other variables, and one is modelled.
* Functions without a caller: `unescape_frame`, `device_del`.
* `device_note_data`, which is written and never read.

## Plan

1. The transmit side, its abstract service, its proofs: done (`SricIf`,
   `TxService`, `SricIfProofs`).
2. The request path end to end, its service and its proofs: done (`Ipc`,
   `CallService`, `IpcProofs`, `IpcCleanProofs`).
3. Enumeration over the emulated bus, and its proofs: done (`Ostric`,
   `Enumeration`, `EnumerationProofs`).
4. Bytes and frames: done for both receivers and the relay between them
   (`Frames`, `Framing`, `OstricRx`, `Trumpets`, `SerialLine`), with proofs of
   what holds whatever the bytes are (`LineProofs`) and of what holds on a clean
   line (`CleanLineProofs`).
5. Notes, their service and its proofs: done (`Notes`, `NoteService`,
   `NotesProofs`).
6. Open: an abstract specification of enumeration (a set of devices
   gets a bijection to addresses) that `Enumeration` implements; a client that
   speaks the protocol of `ipc.c` itself, with short writes and polls on top of
   polls.
