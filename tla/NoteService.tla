---------------------------- MODULE NoteService -----------------------------
(***************************************************************************)
(* What sricd promises the programs that listen for notes, with no socket, *)
(* no poll, no timer and no list of targets: a program says which notes of *)
(* which device it wants; a note goes into the inbox of exactly those that *)
(* want it then, behind what is there; a program takes its notes out in    *)
(* that order; nothing else adds, removes or reorders a note.  Notes       *)
(* implements it.                                                          *)
(***************************************************************************)
EXTENDS Naturals, Sequences

CONSTANTS Clients,    \* the programs
          Addresses,  \* the devices they may ask about
          NumFlags,   \* kinds of note a program can ask for
          MaxNotes    \* bound: notes ever sent

Kinds == 0 .. NumFlags - 1

\* A note: its place among all notes sent, and its device.
NoteFrame == [num : 1 .. MaxNotes, src : Addresses]

VARIABLES wants,      \* wants[c][a]: the kinds of a's notes that c wants
          inbox       \* inbox[c]: the notes for c that it has not taken

svars == <<wants, inbox>>

\* c changes its mind about one device.
Ask(c, a, ks) ==
  /\ wants' = [wants EXCEPT ![c][a] = ks]
  /\ UNCHANGED inbox

\* c wants nothing any more.
AskNothing(c) ==
  /\ wants' = [wants EXCEPT ![c] = [a \in Addresses |-> {}]]
  /\ UNCHANGED inbox

\* A note goes to those who want kind k of its device.  That is its own kind;
\* for one of a kind nobody can ask for, NumFlags, it is any kind or none.
Publish(n, kind, k) ==
  /\ kind \in Kinds => k = kind
  /\ inbox' = [c \in Clients |-> IF k \in wants[c][n.src]
                                   THEN Append(inbox[c], n) ELSE inbox[c]]
  /\ UNCHANGED wants

Take(c) ==
  /\ inbox[c] # <<>>
  /\ inbox' = [inbox EXCEPT ![c] = Tail(@)]
  /\ UNCHANGED wants

\* c is gone, and what it wanted and had not taken with it.
Leave(c) ==
  /\ wants' = [wants EXCEPT ![c] = [a \in Addresses |-> {}]]
  /\ inbox' = [inbox EXCEPT ![c] = <<>>]

SInit ==
  /\ wants = [c \in Clients |-> [a \in Addresses |-> {}]]
  /\ inbox = [c \in Clients |-> <<>>]

SNext ==
  \/ \E c \in Clients : \/ \E a \in Addresses, ks \in SUBSET Kinds : Ask(c, a, ks)
                        \/ AskNothing(c)
                        \/ Take(c)
                        \/ Leave(c)
  \/ \E n \in NoteFrame, kind, k \in 0 .. NumFlags : Publish(n, kind, k)

SSpec == SInit /\ [][SNext]_svars
=============================================================================
