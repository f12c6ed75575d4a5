------------------------------- MODULE Ostric -------------------------------
(***************************************************************************)
(* The bus as ostric emulates it: a gateway and a ring of generic devices  *)
(* around which a token travels, one hop per turn of ostric's main loop    *)
(* (ostric/ostric.c, cmds.c, generic.c, token.c).  A device that was reset *)
(* keeps the token when it arrives, and whoever holds the token takes the  *)
(* next address assigned.                                                  *)
(*                                                                         *)
(* ostric's gateway leaves ADDR_ASSIGN unanswered, so that sricd never     *)
(* gets past it there; the gateway sric-enum.c expects takes the address   *)
(* when it holds the token, and later tells its class like a device.  That *)
(* part of the gateway is external.                                        *)
(***************************************************************************)
EXTENDS Naturals, Sequences

CONSTANTS NumDevices,   \* devices on the ring
          HighAddress,  \* DEVICE_HIGH_ADDRESS
          NoAddr,       \* a device's address while it has none (-1)
          NoData        \* the payload of an ACK without one

Devices   == 1 .. NumDevices
Addresses == 2 .. HighAddress - 1

ASSUME OstricAssumption ==
  /\ NumDevices \in Nat
  /\ HighAddress \in Nat /\ HighAddress > 2
  /\ NoAddr \notin Nat
  /\ NoData \notin Nat

\* What device d, or the gateway, says its class is in reply to ADDR_INFO.
\* ostric's devices all say 0; with a class each, mistaken ones show.
Class(d) == d
GatewayClass == NumDevices + 1

VARIABLES dev,     \* dev[d]: address, has_token and keep_token of device d
          gwHas,   \* gw_has_token
          gwKeep,  \* gw_keep_token
          gwAddr,  \* the gateway's own bus address (external)
          wire     \* ACKs ostric has written and sricd has not read, in order

busVars == <<dev, gwHas, gwKeep, gwAddr, wire>>

\* A frame from sricd: its command, destination and address argument.
Command == [cmd : {"RESET", "TOK_ADVANCE", "ADDR_ASSIGN", "ADDR_INFO",
                   "USE_TOKEN", "REQ_TOKEN", "HAVE_TOKEN", "GEN_TOKEN"},
            to : 0 .. HighAddress, arg : 0 .. HighAddress]

\* An ACK to sricd: the sender, and the byte it carries if any.
Answer(src, data) == [src |-> src, data |-> data]

\* emit_ack puts the low seven bits of the address on the wire: 127 for -1.
Source(a) == IF a = NoAddr THEN HighAddress - 1 ELSE a

Emit(answers) == wire' = wire \o answers

\* The devices of a set in the order bus_command goes through them.
InOrder(S) ==
  LET upTo[i \in 0 .. NumDevices] ==
        IF i = 0 THEN <<>>
        ELSE IF i \in S THEN Append(upTo[i - 1], i) ELSE upTo[i - 1]
  IN  upTo[NumDevices]

-----------------------------------------------------------------------------
(* token.c *)

\* What leaves device i, and what reaches it, in one call of advance_token.
Passes(ds, i)       == ds[i].has /\ ~ds[i].keep
Receives(ds, gw, i) == IF i = 1 THEN gw ELSE Passes(ds, i - 1)

\* advance_token on a ring ds and a gateway with has_token = gw and
\* keep_token = keep: the ring afterwards.  A device that keeps the token it
\* has swallows one that arrives.
RingAfter(ds, gw, keep) ==
  IF gw /\ keep
    THEN ds
    ELSE [i \in Devices |-> [ds[i] EXCEPT
            !.has = IF ds[i].has /\ ds[i].keep THEN TRUE
                                               ELSE Receives(ds, gw, i)]]

GatewayAfter(ds, gw, keep) ==
  IF (gw /\ keep) \/ NumDevices = 0 THEN gw ELSE Passes(ds, NumDevices)

\* One turn of ostric's main loop: what the frame read did to the ring and the
\* gateway, then advance_token.
Turn(ds, gw, keep) ==
  /\ dev' = RingAfter(ds, gw, keep)
  /\ gwHas' = GatewayAfter(ds, gw, keep)
  /\ gwKeep' = keep

\* A turn on which nothing was read.
AdvanceToken ==
  /\ Turn(dev, gwHas, gwKeep)
  /\ UNCHANGED <<gwAddr, wire>>

-----------------------------------------------------------------------------
(* generic.c, through bus_command *)

Addressed(c, d) == c.to = 0 \/ c.to = dev[d].address

\* generic_msg: every device addressed forgets its address and its token.
RxReset(c) ==
  /\ c.cmd = "RESET"
  /\ Turn([d \in Devices |->
             IF Addressed(c, d)
               THEN [address |-> NoAddr, has |-> FALSE, keep |-> TRUE]
               ELSE dev[d]], gwHas, gwKeep)
  /\ gwAddr' = NoAddr
  /\ UNCHANGED wire

\* generic_msg: every device addressed lets go of the token, and says so.
RxTokAdvance(c) ==
  /\ c.cmd = "TOK_ADVANCE"
  /\ Turn([d \in Devices |-> IF Addressed(c, d)
                               THEN [dev[d] EXCEPT !.keep = FALSE]
                               ELSE dev[d]], gwHas, gwKeep)
  /\ LET heard == InOrder({d \in Devices : Addressed(c, d)})
     IN  Emit([i \in DOMAIN heard |->
                 Answer(Source(dev[heard[i]].address), NoData)])
  /\ UNCHANGED gwAddr

\* generic_msg: a reset device that has the token takes the address, and ACKs
\* from the address taken.  The gateway does the same (external).
RxAddrAssign(c) ==
  LET takers  == {d \in Devices : dev[d].address = NoAddr /\ dev[d].has}
      gwTakes == gwHas /\ gwAddr = NoAddr
  IN  /\ c.cmd = "ADDR_ASSIGN"
      /\ Turn([d \in Devices |-> IF d \in takers
                                   THEN [dev[d] EXCEPT !.address = c.arg]
                                   ELSE dev[d]], gwHas, gwKeep)
      /\ gwAddr' = IF gwTakes THEN c.arg ELSE gwAddr
      /\ Emit([i \in DOMAIN InOrder(takers) |-> Answer(c.arg, NoData)] \o
              (IF gwTakes THEN <<Answer(c.arg, NoData)>> ELSE <<>>))

\* generic_msg: the device tells its class.  The gateway does too (external).
RxAddrInfo(c) ==
  LET heard == InOrder({d \in Devices : Addressed(c, d)})
  IN  /\ c.cmd = "ADDR_INFO"
      /\ Turn(dev, gwHas, gwKeep)
      /\ Emit([i \in DOMAIN heard |->
                 Answer(Source(dev[heard[i]].address), Class(heard[i]))] \o
              (IF gwAddr = c.to THEN <<Answer(c.to, GatewayClass)>> ELSE <<>>))
      /\ UNCHANGED gwAddr

-----------------------------------------------------------------------------
(* cmds.c: gateway_command.  USE_TOKEN's flag changes nothing but messages. *)

\* An ACK from the gateway, at address 1 for sricd.
GatewayAck(data) == Emit(<<Answer(1, data)>>) /\ UNCHANGED gwAddr

RxUseToken(c) ==
  /\ c.cmd = "USE_TOKEN"
  /\ Turn(dev, gwHas, gwKeep)
  /\ GatewayAck(NoData)

\* Mutant of RxGenToken: the token is made and held.
RxGenTokenHeld(c) ==
  /\ c.cmd = "GEN_TOKEN"
  /\ Turn(dev, TRUE, gwKeep)
  /\ GatewayAck(NoData)

\* A token is made, whether there is one already or not.
RxGenToken(c) ==
  /\ c.cmd = "GEN_TOKEN"
  /\ Turn(dev, TRUE, FALSE)
  /\ GatewayAck(NoData)

RxReqToken(c) ==
  /\ c.cmd = "REQ_TOKEN"
  /\ Turn(dev, gwHas, TRUE)
  /\ GatewayAck(NoData)

RxHaveToken(c) ==
  /\ c.cmd = "HAVE_TOKEN"
  /\ Turn(dev, gwHas, gwKeep)
  /\ GatewayAck(IF gwHas THEN 1 ELSE 0)

\* process_command: the bus takes command c.
Process(c) ==
  \/ RxReset(c)
  \/ RxTokAdvance(c)
  \/ RxAddrAssign(c)
  \/ RxAddrInfo(c)
  \/ RxUseToken(c)
  \/ RxGenToken(c)
  \/ RxReqToken(c)
  \/ RxHaveToken(c)

-----------------------------------------------------------------------------

\* ostric just started, or a bus that an earlier sricd left enumerated, with
\* the token anywhere.
BusInit ==
  /\ gwKeep = FALSE
  /\ wire = <<>>
  /\ \/ /\ dev = [d \in Devices |->
                    [address |-> NoAddr, has |-> FALSE, keep |-> FALSE]]
        /\ gwHas = FALSE
        /\ gwAddr = NoAddr
     \/ \E h \in 0 .. NumDevices :
          /\ NumDevices + 2 \in Addresses
          /\ dev = [d \in Devices |->
                      [address |-> d + 1, has |-> d = h, keep |-> FALSE]]
          /\ gwHas = (h = 0)
          /\ gwAddr = NumDevices + 2

BusTypeOK ==
  /\ dev \in [Devices -> [address : Addresses \cup {NoAddr},
                          has : BOOLEAN, keep : BOOLEAN]]
  /\ gwHas \in BOOLEAN
  /\ gwKeep \in BOOLEAN
  /\ gwAddr \in Addresses \cup {NoAddr}
  /\ wire \in Seq([src : 0 .. HighAddress - 1,
                   data : {NoData} \cup 0 .. GatewayClass])

\* Nobody on the bus shares an address with anybody else.
UniqueAddresses ==
  /\ \A d, e \in Devices :
       dev[d].address = dev[e].address /\ dev[d].address # NoAddr => d = e
  /\ \A d \in Devices : gwAddr # NoAddr => dev[d].address # gwAddr
=============================================================================
