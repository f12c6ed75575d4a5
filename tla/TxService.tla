----------------------------- MODULE TxService ------------------------------
(***************************************************************************)
(* What the transmit side of sricd promises the rest of the daemon, with   *)
(* no bus, no buffer and no timer: a frame submitted stays pending until   *)
(* it is completed or withdrawn by its owner; frames of one class, sricd's *)
(* ACKs or the clients' requests, complete in the order they were          *)
(* submitted; a withdrawal takes all that its owner has pending and        *)
(* nothing of anybody else's.  SricIf implements it.                       *)
(***************************************************************************)
EXTENDS Naturals

CONSTANTS Clients,      \* the owners that can withdraw
          NoTag,        \* the owner of sricd's own ACKs
          MaxFrames     \* bound: frames ever submitted

Request == [id : 1 .. MaxFrames, tag : Clients \cup {NoTag}]

VARIABLES pending,      \* the frames submitted and neither done nor withdrawn
          last          \* the number of the last frame submitted

svars == <<pending, last>>

SameClass(r, s) == r.tag = NoTag <=> s.tag = NoTag

Submit(tag) ==
  /\ last < MaxFrames
  /\ last' = last + 1
  /\ pending' = pending \cup {[id |-> last + 1, tag |-> tag]}

Complete(r) ==
  /\ r \in pending
  /\ \A s \in pending : SameClass(r, s) => r.id <= s.id
  /\ pending' = pending \ {r}
  /\ UNCHANGED last

Withdraw(tag) ==
  /\ pending' = {r \in pending : r.tag # tag}
  /\ UNCHANGED last

SInit == pending = {} /\ last = 0

SNext ==
  \/ \E tag \in Clients \cup {NoTag} : Submit(tag)
  \/ \E r \in pending : Complete(r)
  \/ \E tag \in Clients : Withdraw(tag)

SSpec == SInit /\ [][SNext]_svars
=============================================================================
