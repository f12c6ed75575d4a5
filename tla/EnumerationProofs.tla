-------------------------- MODULE EnumerationProofs --------------------------
(***************************************************************************)
(* Proofs about Enumeration on a timely bus, for any number of devices and *)
(* of addresses: whatever frames and ACKs are lost, every device has an    *)
(* address of its own, and when enumeration ends sricd knows them all.     *)
(*                                                                         *)
(* The invariant says, of each state of the machine, which frames are      *)
(* still to be sent, which ACK may be on its way, and where the token is.  *)
(*                                                                         *)
(* The last part is about any bus, where ACKs may come late and twice: the *)
(* types of the machine and of the bus, and so the ranges of addresses.    *)
(***************************************************************************)
EXTENDS Enumeration, Induction

-----------------------------------------------------------------------------
(* Where the bus is *)

\* As it was when sricd started, but for the token.
Untouched ==
  \/ gwAddr = NoAddr /\ \A d \in Devices : dev[d].address = NoAddr
  \/ /\ NumDevices + 2 \in Addresses
     /\ gwAddr = NumDevices + 2
     /\ \A d \in Devices : dev[d].address = d + 1

\* A reset was heard: the first device keeps the token as soon as it comes.
WasReset ==
  /\ gwAddr = NoAddr
  /\ \A d \in Devices : dev[d].address = NoAddr /\ dev[d].keep
  /\ \A d \in Devices : dev[d].has => d = 1

\* The first k devices have their addresses, and the token is at the next one
\* or, behind the last, at the gateway.
Reached(k) ==
  /\ gwAddr = NoAddr
  /\ gwHas <=> k = NumDevices
  /\ \A d \in Devices : /\ dev[d].address = IF d <= k THEN d + 1 ELSE NoAddr
                        /\ dev[d].has <=> d = k + 1
                        /\ dev[d].keep <=> d > k

\* The gateway keeps the token when it comes.
Stops(k) == Reached(k) /\ gwKeep

\* The device after the first k has taken its address and has still the token.
Taken(k) ==
  /\ gwAddr = NoAddr
  /\ ~gwHas
  /\ gwKeep
  /\ \A d \in Devices : /\ dev[d].address = IF d <= k + 1 THEN d + 1 ELSE NoAddr
                        /\ dev[d].has <=> d = k + 1
                        /\ dev[d].keep <=> d > k

\* Everybody has an address.
Complete ==
  /\ gwAddr = NumDevices + 2
  /\ \A d \in Devices : dev[d].address = d + 1

-----------------------------------------------------------------------------
(* What sricd and the bus say to each other *)

Gen  == Gateway("GEN_TOKEN")
Req  == Gateway("REQ_TOKEN")
Have == Gateway("HAVE_TOKEN")
Use  == Gateway("USE_TOKEN")

\* Frame c goes next, and then `rest'.
Heads(c, rest) == queue # <<>> /\ Head(queue) = c /\ Tail(queue) = rest

\* Frame c is to be sent, is on its way or was lost, or its ACK a is on its
\* way or was lost, and then `rest' is to be sent.  `before' and `after' hold
\* of the bus that has not and that has taken c.
Exchange(c, a, rest, before, after) ==
  \/ /\ txFrame = NoCommand /\ Heads(c, rest)
     /\ wire = <<>>
     /\ before
  \/ /\ txFrame = c /\ queue = rest
     /\ \/ wire = <<>> /\ (before \/ after)
        \/ wire = <<a>> /\ after

\* Nothing is to be sent or answered.
Still == txFrame = NoCommand /\ queue = <<>> /\ wire = <<>>

GatewayAnswer == Answer(1, NoData)

\* The token is at the gateway when everybody else has an address.
TokenAnswer(k) == Answer(1, IF k = NumDevices THEN 1 ELSE 0)

-----------------------------------------------------------------------------
(* The states of the machine *)

Idle ==
  /\ Still
  /\ Untouched
  /\ resetCount = 0

KillingToken ==
  /\ \/ txFrame = NoCommand
        /\ queue \in {<<TokAdvance(0), TokAdvance(0), Req>>,
                      <<TokAdvance(0), Req>>, <<Req>>, <<>>}
     \/ txFrame = TokAdvance(0) /\ queue \in {<<TokAdvance(0), Req>>, <<Req>>}
     \/ txFrame = Req /\ queue = <<>>
  /\ Untouched
  /\ resetCount = 0

\* No reset was heard only if each of those sent was lost.
Resetting ==
  \/ /\ Exchange(Use, GatewayAnswer, <<>>, Untouched, Untouched)
     /\ resetCount = 0
  \/ /\ Still
     /\ WasReset \/ (Untouched /\ lostFrames >= resetCount)
  \/ /\ txFrame = NoCommand /\ queue = <<Reset>> /\ wire = <<>>
     /\ WasReset \/ (Untouched /\ lostFrames >= resetCount - 1)

Enumerating ==
  \/ /\ Exchange(Gen, GatewayAnswer, <<Req, Have>>, WasReset, Reached(0))
     /\ next = 2
  \/ /\ Exchange(Req, GatewayAnswer, <<Have>>, Reached(0), Stops(0))
     /\ next = 2
  \/ \E k \in 0 .. NumDevices :
       /\ next = k + 2
       /\ Exchange(Have, TokenAnswer(k), <<>>, Stops(k), Stops(k))

SettingAddr(k) ==
  /\ next = k + 2 /\ next < HighAddress
  /\ k < NumDevices
  /\ Exchange(Address(next), Answer(next, NoData), <<>>, Stops(k), Taken(k))

AdvancingToken(k) ==
  /\ next = k + 2 /\ next < HighAddress
  /\ k < NumDevices
  /\ Exchange(TokAdvance(next), Answer(next, NoData), <<>>,
              Taken(k), Stops(k + 1))

SettingGwAddr ==
  /\ next = NumDevices + 2 /\ next < HighAddress
  /\ Exchange(Address(next), Answer(next, NoData), <<>>,
              Stops(NumDevices), Complete)

\* The classes of the addresses below a are known.
ClassesBelow(a) ==
  /\ 2 .. a - 1 \subseteq replied
  /\ \A b \in 2 .. a - 1 : classes[b] = b - 1

FetchingClasses ==
  /\ next = NumDevices + 3
  /\ known = [a \in 0 .. HighAddress - 1 |-> NoData]
  /\ \/ /\ infoAddr = 3
        /\ \/ Exchange(Use, GatewayAnswer, <<Gen, AddrInfo(2)>>, Complete, Complete)
           \/ Exchange(Gen, GatewayAnswer, <<AddrInfo(2)>>, Complete, Complete)
     \/ /\ infoAddr \in 3 .. next
        /\ ClassesBelow(infoAddr - 1)
        /\ Exchange(AddrInfo(infoAddr - 1), Answer(infoAddr - 1, infoAddr - 2),
                    <<>>, Complete, Complete)

Enumerated ==
  /\ Still
  /\ Complete
  /\ next = NumDevices + 3
  /\ 2 .. next - 1 \subseteq replied
  /\ known = [a \in 0 .. HighAddress - 1 |->
                IF a \in 2 .. next - 1 THEN a - 1 ELSE NoData]

Exited ==
  /\ Still
  /\ \E k \in 0 .. NumDevices : next = k + 2 /\ Stops(k)

InPhase ==
  \/ state = "IDLE" /\ Idle
  \/ state = "KILLING_TOKEN" /\ KillingToken
  \/ state = "RESETTING" /\ Resetting
  \/ state = "ENUMERATING" /\ Enumerating
  \/ \E k \in 0 .. NumDevices :
       \/ state = "SETTING_ADDR" /\ SettingAddr(k)
       \/ state = "ADVANCING_TOKEN" /\ AdvancingToken(k)
  \/ state = "SETTING_GW_ADDR" /\ SettingGwAddr
  \/ state = "FETCHING_CLASSES" /\ FetchingClasses
  \/ state = "ENUMERATED" /\ Enumerated
  \/ state = "exited" /\ Exited

Beginning == {"IDLE", "KILLING_TOKEN", "RESETTING"}

IInv ==
  /\ EnumTypeOK
  /\ killTimer = (state = "KILLING_TOKEN")
  /\ resetTimer = (state = "RESETTING")
  /\ state \in Beginning => next = 2
  /\ state \notin {"FETCHING_CLASSES", "ENUMERATED"} =>
       known = [a \in 0 .. HighAddress - 1 |-> NoData]
  /\ resetCount <= 5 \/ state \notin Beginning
  /\ InPhase

-----------------------------------------------------------------------------
LEMMA InOrderSteps ==
  ASSUME NEW S
  PROVE  \E u \in [0 .. NumDevices -> Seq(Devices)] :
           /\ InOrder(S) = u[NumDevices]
           /\ u[0] = <<>>
           /\ \A i \in 1 .. NumDevices :
                u[i] = IF i \in S THEN Append(u[i - 1], i) ELSE u[i - 1]
  <1> DEFINE Next(i, s) == IF i \in S THEN Append(s, i) ELSE s
             Body(f) == [i \in 0 .. NumDevices |->
                           IF i = 0 THEN <<>> ELSE Next(i, f[i - 1])]
             step == [i \in 1 .. NumDevices |-> [s \in Seq(Devices) |-> Next(i, s)]]
  <1>1. NumDevices \in Nat
    BY OstricAssumption
  <1>2. \A i \in 1 .. NumDevices, s \in Seq(Devices) : Next(i, s) \in Seq(Devices)
    <2> TAKE i \in 1 .. NumDevices, s \in Seq(Devices)
    <2>1. i \in Devices
      BY DEF Devices
    <2> QED
      BY <2>1
  <1>3. \E f : f = Body(f)
    <2> HIDE DEF Next
    <2>1. step \in [1 .. NumDevices -> [Seq(Devices) -> Seq(Devices)]]
      BY <1>2
    <2>2. \A i \in 1 .. NumDevices, s \in Seq(Devices) : step[i][s] = Next(i, s)
      OBVIOUS
    <2> HIDE DEF step
    <2>3. PICK f : Solves(f, NumDevices, Seq(Devices), <<>>, step)
      <3>1. <<>> \in Seq(Devices)
        OBVIOUS
      <3> HIDE DEF Body
      <3> QED
        BY <1>1, <2>1, <3>1, Recursion
    <2>4. ASSUME NEW i \in 0 .. NumDevices
          PROVE  f[i] = IF i = 0 THEN <<>> ELSE Next(i, f[i - 1])
      <3>1. CASE i = 0
        BY <2>3, <3>1 DEF Solves
      <3>2. CASE i # 0
        <4>1. i \in 1 .. NumDevices /\ i - 1 \in 0 .. NumDevices
          BY <1>1, <3>2
        <4> QED
          BY <2>2, <2>3, <3>2, <4>1 DEF Solves
      <3> QED
        BY <3>1, <3>2
    <2>5. f = Body(f)
      BY <2>3, <2>4 DEF Solves
    <2> QED
      BY <2>5
  <1> DEFINE u == CHOOSE f : f = Body(f)
  <1>4. InOrder(S) = u[NumDevices]
    BY DEF InOrder
  <1> HIDE DEF Next
  <1>5. u = Body(u)
    BY <1>3
  <1> HIDE DEF u
  <1>6. DOMAIN u = 0 .. NumDevices /\ u[0] = <<>>
    BY <1>1, <1>5
  <1>7. \A i \in 1 .. NumDevices : u[i] = Next(i, u[i - 1])
    BY <1>1, <1>5
  <1>8. 0 .. NumDevices \subseteq {i \in 0 .. NumDevices : u[i] \in Seq(Devices)}
    <2> DEFINE T == {i \in 0 .. NumDevices : u[i] \in Seq(Devices)}
    <2>1. 0 \in T
      BY <1>1, <1>6
    <2>2. ASSUME NEW i \in 1 .. NumDevices, i - 1 \in T PROVE i \in T
      BY <1>1, <1>2, <1>7, <2>2
    <2> HIDE DEF T
    <2>3. 0 .. NumDevices \subseteq T
      BY <1>1, <2>1, <2>2, NumbersUpTo
    <2> QED
      BY <2>3 DEF T
  <1>9. u \in [0 .. NumDevices -> Seq(Devices)]
    BY <1>5, <1>8
  <1> QED
    BY <1>4, <1>6, <1>7, <1>9 DEF Next

LEMMA InOrderIsDevices == \A S : InOrder(S) \in Seq(Devices)
  <1> TAKE S
  <1>1. PICK u \in [0 .. NumDevices -> Seq(Devices)] : InOrder(S) = u[NumDevices]
    BY InOrderSteps
  <1>2. NumDevices \in 0 .. NumDevices
    BY OstricAssumption
  <1> QED
    BY <1>1, <1>2

LEMMA InOrderOfNone == InOrder({}) = <<>>
  <1>1. PICK u \in [0 .. NumDevices -> Seq(Devices)] :
          /\ InOrder({}) = u[NumDevices]
          /\ u[0] = <<>>
          /\ \A i \in 1 .. NumDevices : u[i] = u[i - 1]
    BY InOrderSteps
  <1> DEFINE T == {i \in 0 .. NumDevices : u[i] = <<>>}
  <1>2. 0 \in T /\ \A i \in 1 .. NumDevices : i - 1 \in T => i \in T
    BY <1>1, OstricAssumption
  <1> HIDE DEF T
  <1>3. NumDevices \in T
    <2>1. 0 .. NumDevices \subseteq T
      BY <1>2, OstricAssumption, NumbersUpTo
    <2> QED
      BY <2>1, OstricAssumption
  <1> QED
    BY <1>1, <1>3 DEF T

LEMMA InOrderOfOne ==
  ASSUME NEW d \in Devices
  PROVE  InOrder({d}) = <<d>>
  <1>1. PICK u \in [0 .. NumDevices -> Seq(Devices)] :
          /\ InOrder({d}) = u[NumDevices]
          /\ u[0] = <<>>
          /\ \A i \in 1 .. NumDevices :
               u[i] = IF i \in {d} THEN Append(u[i - 1], i) ELSE u[i - 1]
    BY InOrderSteps
  <1> DEFINE T == {i \in 0 .. NumDevices : u[i] = IF i < d THEN <<>> ELSE <<d>>}
  <1>2. 0 \in T
    BY <1>1, OstricAssumption DEF Devices
  <1>3. ASSUME NEW i \in 1 .. NumDevices, i - 1 \in T PROVE i \in T
    <2>1. u[i - 1] = IF i - 1 < d THEN <<>> ELSE <<d>>
      BY <1>3
    <2>2. u[i] = IF i < d THEN <<>> ELSE <<d>>
      <3>1. Append(<<>>, d) = <<d>>
        OBVIOUS
      <3> HIDE DEF T
      <3>2. i = d => i - 1 < d
        BY DEF Devices
      <3>3. i < d => i - 1 < d /\ i # d
        BY DEF Devices
      <3>4. ~(i < d) /\ i # d => ~(i - 1 < d)
        BY OstricAssumption DEF Devices
      <3>5. u[i] = IF i = d THEN Append(u[i - 1], i) ELSE u[i - 1]
        BY <1>1
      <3> QED
        BY <2>1, <3>1, <3>2, <3>3, <3>4, <3>5
    <2> QED
      BY <2>2, OstricAssumption
  <1> HIDE DEF T
  <1>4. NumDevices \in T
    <2>1. 0 .. NumDevices \subseteq T
      BY <1>2, <1>3, OstricAssumption, NumbersUpTo
    <2> QED
      BY <2>1, OstricAssumption
  <1> QED
    BY <1>1, <1>4 DEF T, Devices

-----------------------------------------------------------------------------
(* What a turn of ostric does to the bus *)

Device == [address : Addresses \cup {NoAddr}, has : BOOLEAN, keep : BOOLEAN]

Ring == [Devices -> Device]

\* The ACKs of the bus.
Acks == [src : 0 .. HighAddress - 1, data : {NoData} \cup 0 .. GatewayClass]

\* Tokens move, and nothing else.
LEMMA RingAfterAt ==
  ASSUME NEW ds \in Ring, NEW gw \in BOOLEAN, NEW keep \in BOOLEAN
  PROVE  /\ RingAfter(ds, gw, keep) \in Ring
         /\ \A d \in Devices :
              LET r == RingAfter(ds, gw, keep)[d]
              IN  /\ r.address = ds[d].address
                  /\ r.keep = ds[d].keep
                  /\ r.has <=> IF gw /\ keep THEN ds[d].has
                               ELSE \/ ds[d].has /\ ds[d].keep
                                    \/ Receives(ds, gw, d)
  <1> SUFFICES ASSUME ~(gw /\ keep)
               PROVE  /\ RingAfter(ds, gw, keep) \in Ring
                      /\ \A d \in Devices :
                           LET r == RingAfter(ds, gw, keep)[d]
                           IN  /\ r.address = ds[d].address
                               /\ r.keep = ds[d].keep
                               /\ r.has <=> \/ ds[d].has /\ ds[d].keep
                                            \/ Receives(ds, gw, d)
    BY DEF RingAfter, Ring
  <1> DEFINE Has(i) == IF ds[i].has /\ ds[i].keep THEN TRUE ELSE Receives(ds, gw, i)
  <1>1. \A i \in Devices : Has(i) \in BOOLEAN
    <2> TAKE i \in Devices
    <2>1. i # 1 => i - 1 \in Devices
      BY OstricAssumption DEF Devices
    <2> QED
      BY <2>1 DEF Receives, Passes, Ring, Device
  <1> HIDE DEF Has
  <1>2. RingAfter(ds, gw, keep) = [i \in Devices |-> [ds[i] EXCEPT !.has = Has(i)]]
    BY DEF RingAfter, Has
  <1>3. ASSUME NEW i \in Devices
        PROVE  [ds[i] EXCEPT !.has = Has(i)]
                 = [address |-> ds[i].address, has |-> Has(i), keep |-> ds[i].keep]
    BY DEF Ring, Device
  <1>4. RingAfter(ds, gw, keep) \in Ring
    BY <1>1, <1>2, <1>3 DEF Ring, Device
  <1>5. ASSUME NEW d \in Devices
        PROVE  LET r == RingAfter(ds, gw, keep)[d]
               IN  r.address = ds[d].address /\ r.has = Has(d) /\ r.keep = ds[d].keep
    <2>1. RingAfter(ds, gw, keep)[d]
            = [address |-> ds[d].address, has |-> Has(d), keep |-> ds[d].keep]
      BY <1>2, <1>3
    <2> QED
      BY <2>1
  <1>6. \A d \in Devices : Has(d) <=> \/ ds[d].has /\ ds[d].keep
                                      \/ Receives(ds, gw, d)
    BY Zenon DEF Has
  <1> QED
    BY <1>4, <1>5, <1>6

\* One turn from a ring ds and a gateway with has_token = gw.
LEMMA TurnAt ==
  ASSUME NEW ds \in Ring, NEW gw \in BOOLEAN, NEW keep \in BOOLEAN,
         Turn(ds, gw, keep)
  PROVE  /\ dev' \in Ring /\ gwHas' \in BOOLEAN /\ gwKeep' = keep
         /\ \A d \in Devices :
              /\ dev'[d].address = ds[d].address
              /\ dev'[d].keep = ds[d].keep
              /\ dev'[d].has <=> IF gw /\ keep THEN ds[d].has
                                 ELSE \/ ds[d].has /\ ds[d].keep
                                      \/ Receives(ds, gw, d)
         /\ gwHas' <=> IF (gw /\ keep) \/ NumDevices = 0
                         THEN gw ELSE Passes(ds, NumDevices)
  <1>1. dev' = RingAfter(ds, gw, keep) /\ gwKeep' = keep
    BY DEF Turn
  <1>2. gwHas' \in BOOLEAN /\ (gwHas' <=> IF (gw /\ keep) \/ NumDevices = 0
                                            THEN gw ELSE Passes(ds, NumDevices))
    <2>1. NumDevices # 0 => NumDevices \in Devices
      BY OstricAssumption DEF Devices
    <2>2. NumDevices # 0 => Passes(ds, NumDevices) \in BOOLEAN
      BY <2>1 DEF Ring, Device, Passes
    <2>3. gwHas' = IF (gw /\ keep) \/ NumDevices = 0 THEN gw
                                                     ELSE Passes(ds, NumDevices)
      BY DEF Turn, GatewayAfter
    <2> QED
      BY <2>2, <2>3
  <1>3. dev' \in Ring
    BY <1>1, RingAfterAt
  <1>4. ASSUME NEW d \in Devices
        PROVE  /\ dev'[d].address = ds[d].address
               /\ dev'[d].keep = ds[d].keep
               /\ dev'[d].has <=> IF gw /\ keep THEN ds[d].has
                                  ELSE \/ ds[d].has /\ ds[d].keep
                                       \/ Receives(ds, gw, d)
    <2> DEFINE R == RingAfter(ds, gw, keep)
    <2>1. /\ R[d].address = ds[d].address
          /\ R[d].keep = ds[d].keep
          /\ R[d].has <=> IF gw /\ keep THEN ds[d].has
                          ELSE (ds[d].has /\ ds[d].keep) \/ Receives(ds, gw, d)
      BY RingAfterAt
    <2> QED
      BY <1>1, <2>1, Zenon
  <1> QED
    BY <1>1, <1>2, <1>3, <1>4

\* The token stays where it is kept: at the first device that keeps it, or, if
\* there is none, at a gateway that does or that is alone.
LEMMA TurnKeeps ==
  ASSUME NEW ds \in Ring, NEW gw \in BOOLEAN, NEW keep \in BOOLEAN,
         NEW k \in 0 .. NumDevices,
         gw <=> k = NumDevices,
         k = NumDevices => keep \/ NumDevices = 0,
         \A d \in Devices : (ds[d].has <=> d = k + 1) /\ (ds[d].keep <=> d > k),
         Turn(ds, gw, keep)
  PROVE  /\ gwHas' <=> gw
         /\ \A d \in Devices : dev'[d].has <=> ds[d].has
  <1> USE OstricAssumption DEF Devices
  <1>1. \A d \in Devices : ~Passes(ds, d)
    BY DEF Passes
  <1>2. CASE gw /\ keep
    BY <1>2, TurnAt
  <1>3. CASE ~(gw /\ keep)
    <2>1. NumDevices = 0 \/ ~gw
      BY <1>3
    <2>2. \A d \in Devices : ~Receives(ds, gw, d)
      <3> TAKE d \in Devices
      <3>1. d # 1 => d - 1 \in Devices
        OBVIOUS
      <3> QED
        BY <1>1, <2>1, <3>1 DEF Receives
    <2>3. ASSUME NEW d \in Devices PROVE dev'[d].has <=> ds[d].has
      <3>1. dev'[d].has <=> ds[d].has /\ ds[d].keep
        BY <1>3, <2>2, TurnAt
      <3>2. ds[d].has => ds[d].keep
        OBVIOUS
      <3> QED
        BY <3>1, <3>2 DEF Ring, Device
    <2>4. gwHas' <=> gw
      <3>1. CASE NumDevices = 0
        BY <1>3, <3>1, TurnAt
      <3>2. CASE NumDevices # 0
        <4>1. NumDevices \in Devices
          BY <3>2
        <4>2. ~Passes(ds, NumDevices)
          BY <1>1, <4>1
        <4>3. gwHas' <=> Passes(ds, NumDevices)
          BY <1>3, <3>2, TurnAt
        <4> QED
          BY <2>1, <3>2, <4>2, <4>3
      <3> QED
        BY <3>1, <3>2
    <2> QED
      BY <2>3, <2>4
  <1> QED
    BY <1>2, <1>3

\* A device that lets the token go passes it to the next one, or the gateway.
LEMMA TurnPasses ==
  ASSUME NEW ds \in Ring, NEW keep \in BOOLEAN, NEW k \in 0 .. NumDevices - 1,
         \A d \in Devices : (ds[d].has <=> d = k + 1) /\ (ds[d].keep <=> d > k + 1),
         Turn(ds, FALSE, keep)
  PROVE  /\ gwHas' <=> k + 1 = NumDevices
         /\ \A d \in Devices : dev'[d].has <=> d = k + 2
  <1> USE OstricAssumption DEF Devices
  <1>1. \A d \in Devices : Passes(ds, d) <=> d = k + 1
    BY DEF Passes
  <1>2. ASSUME NEW d \in Devices PROVE dev'[d].has <=> d = k + 2
    <2>1. ~(ds[d].has /\ ds[d].keep)
      OBVIOUS
    <2>2. dev'[d].has <=> Receives(ds, FALSE, d)
      BY <2>1, TurnAt
    <2>3. CASE d = 1
      BY <2>2, <2>3 DEF Receives
    <2>4. CASE d # 1
      <3>1. d - 1 \in Devices
        BY <2>4
      <3>2. Receives(ds, FALSE, d) <=> d - 1 = k + 1
        BY <1>1, <2>4, <3>1 DEF Receives
      <3>3. d - 1 = k + 1 <=> d = k + 2
        OBVIOUS
      <3> QED
        BY <2>2, <3>2, <3>3, Zenon
    <2> QED
      BY <2>3, <2>4
  <1>3. gwHas' <=> Passes(ds, NumDevices)
    <2>1. FALSE \in BOOLEAN /\ NumDevices # 0
      OBVIOUS
    <2>2. gwHas' <=> IF (FALSE /\ keep) \/ NumDevices = 0
                       THEN FALSE ELSE Passes(ds, NumDevices)
      BY <2>1, TurnAt
    <2> QED
      BY <2>1, <2>2, Zenon
  <1>4. NumDevices \in Devices
    OBVIOUS
  <1> QED
    BY <1>1, <1>2, <1>3, <1>4

LEMMA BusTypes ==
  BusTypeOK <=> /\ dev \in Ring
                /\ gwHas \in BOOLEAN /\ gwKeep \in BOOLEAN
                /\ gwAddr \in Addresses \cup {NoAddr}
                /\ wire \in Seq(Acks)
  BY DEF BusTypeOK, Ring, Device, Acks

LEMMA BusTypesNext ==
  BusTypeOK' <=> /\ dev' \in Ring
                 /\ gwHas' \in BOOLEAN /\ gwKeep' \in BOOLEAN
                 /\ gwAddr' \in Addresses \cup {NoAddr}
                 /\ wire' \in Seq(Acks)
  BY DEF BusTypeOK, Ring, Device, Acks

\* What a device says of itself.
LEMMA AnswerTypes ==
  ASSUME BusTypeOK, NEW d \in Devices
  PROVE  /\ Answer(Source(dev[d].address), NoData) \in Acks
         /\ Answer(Source(dev[d].address), Class(d)) \in Acks
  <1>1. dev[d].address \in Addresses \cup {NoAddr}
    BY BusTypes DEF Ring, Device
  <1>2. Source(dev[d].address) \in 0 .. HighAddress - 1
    BY <1>1, OstricAssumption DEF Source, Addresses
  <1>3. Class(d) \in 0 .. GatewayClass
    BY OstricAssumption DEF Class, GatewayClass, Devices
  <1> QED
    BY <1>2, <1>3 DEF Acks, Answer

LEMMA GatewayAnswerTypes ==
  /\ Answer(1, NoData) \in Acks
  /\ Answer(1, 0) \in Acks /\ Answer(1, 1) \in Acks
  /\ \A a \in Addresses : /\ Answer(a, NoData) \in Acks
                          /\ Answer(a, GatewayClass) \in Acks
  <1>1. {0, 1, GatewayClass} \subseteq 0 .. GatewayClass
    BY OstricAssumption DEF GatewayClass
  <1>2. 1 \in 0 .. HighAddress - 1 /\ Addresses \subseteq 0 .. HighAddress - 1
    BY OstricAssumption DEF Addresses
  <1> QED
    BY <1>1, <1>2 DEF Acks, Answer

\* The command decides which handler runs.
LEMMA Dispatch ==
  ASSUME NEW c, Process(c)
  PROVE  /\ c.cmd = "RESET" => RxReset(c)
         /\ c.cmd = "TOK_ADVANCE" => RxTokAdvance(c)
         /\ c.cmd = "ADDR_ASSIGN" => RxAddrAssign(c)
         /\ c.cmd = "ADDR_INFO" => RxAddrInfo(c)
         /\ c.cmd = "USE_TOKEN" => RxUseToken(c)
         /\ c.cmd = "GEN_TOKEN" => RxGenToken(c)
         /\ c.cmd = "REQ_TOKEN" => RxReqToken(c)
         /\ c.cmd = "HAVE_TOKEN" => RxHaveToken(c)
  BY DEF Process, RxReset, RxTokAdvance, RxAddrAssign, RxAddrInfo, RxUseToken,
         RxGenToken, RxReqToken, RxHaveToken

\* The rings that the handlers leave to advance_token are rings.
LEMMA RingTypes ==
  ASSUME BusTypeOK, NEW c
  PROVE  /\ [d \in Devices |->
               IF Addressed(c, d)
                 THEN [address |-> NoAddr, has |-> FALSE, keep |-> TRUE]
                 ELSE dev[d]] \in Ring
         /\ [d \in Devices |-> IF Addressed(c, d)
                                 THEN [dev[d] EXCEPT !.keep = FALSE]
                                 ELSE dev[d]] \in Ring
         /\ \A S : c.arg \in Addresses =>
              [d \in Devices |-> IF d \in S THEN [dev[d] EXCEPT !.address = c.arg]
                                            ELSE dev[d]] \in Ring
  <1>1. dev \in Ring
    BY BusTypes
  <1>2. ASSUME NEW r \in Device, NEW v
        PROVE  /\ [r EXCEPT !.keep = v]
                    = [address |-> r.address, has |-> r.has, keep |-> v]
               /\ [r EXCEPT !.address = v]
                    = [address |-> v, has |-> r.has, keep |-> r.keep]
    BY DEF Device
  <1>3. ASSUME NEW d \in Devices
        PROVE  /\ dev[d] \in Device
               /\ [address |-> NoAddr, has |-> FALSE, keep |-> TRUE] \in Device
               /\ [dev[d] EXCEPT !.keep = FALSE] \in Device
               /\ c.arg \in Addresses => [dev[d] EXCEPT !.address = c.arg] \in Device
    <2>1. dev[d] \in Device
      BY <1>1 DEF Ring
    <2> QED
      BY <1>2, <2>1 DEF Device
  <1> QED
    BY <1>3 DEF Ring, Device

\* The bus keeps to its types, and to its addresses.
LEMMA ProcessTypes ==
  ASSUME BusTypeOK, NEW c \in Command, Process(c),
         c.cmd = "ADDR_ASSIGN" => c.arg \in Addresses
  PROVE  BusTypeOK'
  <1> USE BusTypes, Dispatch, RingTypes, TurnAt DEF Emit
  <1>1. TRUE \in BOOLEAN /\ FALSE \in BOOLEAN
    OBVIOUS
  <1>2. dev \in Ring /\ gwHas \in BOOLEAN /\ gwKeep \in BOOLEAN
        /\ gwAddr \in Addresses \cup {NoAddr} /\ wire \in Seq(Acks)
    OBVIOUS
  <1>3. CASE c.cmd = "RESET"
    <2>1. dev' \in Ring /\ gwHas' \in BOOLEAN /\ gwKeep' = gwKeep
      BY <1>2, <1>3 DEF RxReset
    <2> QED
      BY <1>2, <1>3, <2>1, BusTypesNext DEF RxReset
  <1>4. CASE c.cmd = "TOK_ADVANCE"
    <2> DEFINE heard == InOrder({d \in Devices : Addressed(c, d)})
               acks == [i \in DOMAIN heard |->
                          Answer(Source(dev[heard[i]].address), NoData)]
    <2>1. dev' \in Ring /\ gwHas' \in BOOLEAN /\ gwKeep' = gwKeep
      BY <1>2, <1>4 DEF RxTokAdvance
    <2>2. wire' = wire \o acks /\ gwAddr' = gwAddr
      BY <1>4 DEF RxTokAdvance
    <2>3. heard \in Seq(Devices)
      BY InOrderIsDevices
    <2> HIDE DEF heard
    <2>4. acks \in Seq(Acks)
      BY <2>3, AnswerTypes
    <2> QED
      BY <1>2, <2>1, <2>2, <2>4, BusTypesNext
  <1>5. CASE c.cmd = "ADDR_ASSIGN"
    <2> DEFINE takers == {d \in Devices : dev[d].address = NoAddr /\ dev[d].has}
               gwTakes == gwHas /\ gwAddr = NoAddr
               takersIn == InOrder(takers)
               acks == [i \in DOMAIN takersIn |-> Answer(c.arg, NoData)]
               gwAcks == IF gwTakes THEN <<Answer(c.arg, NoData)>> ELSE <<>>
    <2>1. /\ Turn([d \in Devices |-> IF d \in takers
                                       THEN [dev[d] EXCEPT !.address = c.arg]
                                       ELSE dev[d]], gwHas, gwKeep)
          /\ gwAddr' = IF gwTakes THEN c.arg ELSE gwAddr
          /\ wire' = wire \o (acks \o gwAcks)
      BY <1>5 DEF RxAddrAssign
    <2>2. dev' \in Ring /\ gwHas' \in BOOLEAN /\ gwKeep' = gwKeep
      <3> HIDE DEF takers
      <3> QED
        BY <1>2, <1>5, <2>1, ZenonT(40)
    <2>3. takersIn \in Seq(Devices)
      BY InOrderIsDevices
    <2>4. Answer(c.arg, NoData) \in Acks
      BY <1>5, GatewayAnswerTypes
    <2> HIDE DEF takersIn
    <2>5. acks \in Seq(Acks) /\ gwAcks \in Seq(Acks)
      BY <2>3, <2>4
    <2>6. wire' \in Seq(Acks)
      <3> HIDE DEF acks, gwAcks
      <3> QED
        BY <1>2, <2>1, <2>5
    <2>7. gwAddr' \in Addresses \cup {NoAddr}
      BY <1>2, <1>5, <2>1
    <2> QED
      BY <1>2, <2>2, <2>6, <2>7, BusTypesNext
  <1>6. CASE c.cmd = "ADDR_INFO"
    <2> DEFINE heard == InOrder({d \in Devices : Addressed(c, d)})
               acks == [i \in DOMAIN heard |->
                          Answer(Source(dev[heard[i]].address), Class(heard[i]))]
               gwAcks == IF gwAddr = c.to THEN <<Answer(c.to, GatewayClass)>>
                                          ELSE <<>>
    <2>1. dev' \in Ring /\ gwHas' \in BOOLEAN /\ gwKeep' = gwKeep
      BY <1>2, <1>6 DEF RxAddrInfo
    <2>2. wire' = wire \o (acks \o gwAcks) /\ gwAddr' = gwAddr
      BY <1>6 DEF RxAddrInfo
    <2>3. heard \in Seq(Devices)
      BY InOrderIsDevices
    <2> HIDE DEF heard
    <2>4. acks \in Seq(Acks)
      BY <2>3, AnswerTypes
    <2>5. c.to \in 0 .. HighAddress
      BY DEF Command
    <2>6. gwAcks \in Seq(Acks)
      BY <1>2, <2>5, GatewayAnswerTypes, OstricAssumption
    <2>7. wire' \in Seq(Acks)
      <3> HIDE DEF acks, gwAcks
      <3> QED
        BY <1>2, <2>2, <2>4, <2>6
    <2> QED
      BY <1>2, <2>1, <2>2, <2>7, BusTypesNext
  <1>7. ASSUME c.cmd \in {"USE_TOKEN", "GEN_TOKEN", "REQ_TOKEN", "HAVE_TOKEN"}
        PROVE  BusTypeOK'
    <2>1. /\ dev' \in Ring /\ gwHas' \in BOOLEAN /\ gwKeep' \in BOOLEAN
          /\ gwAddr' = gwAddr
      BY <1>1, <1>2, <1>7 DEF RxUseToken, RxGenToken, RxReqToken, RxHaveToken,
                              GatewayAck
    <2>2. \E data \in {NoData, 0, 1} : wire' = wire \o <<Answer(1, data)>>
      BY <1>7 DEF RxUseToken, RxGenToken, RxReqToken, RxHaveToken, GatewayAck
    <2>3. wire' \in Seq(Acks)
      BY <1>2, <2>2, GatewayAnswerTypes
    <2> QED
      BY <1>2, <2>1, <2>3, BusTypesNext
  <1> QED
    BY <1>3, <1>4, <1>5, <1>6, <1>7 DEF Command

-----------------------------------------------------------------------------
(* What each command does to the bus where it is *)

\* A turn that changes no address leaves the bus untouched, or complete.
LEMMA AddressesStay ==
  ASSUME NEW ds \in Ring, NEW gw \in BOOLEAN, NEW keep \in BOOLEAN,
         \A d \in Devices : ds[d].address = dev[d].address,
         Turn(ds, gw, keep), gwAddr' = gwAddr
  PROVE  (Untouched => Untouched') /\ (Complete => Complete')
  <1>1. \A d \in Devices : dev'[d].address = dev[d].address
    BY TurnAt
  <1> QED
    BY <1>1 DEF Untouched, Complete

\* ostric's own turns keep the bus where it is until sricd speaks again.
Stays ==
  /\ Untouched => Untouched'
  /\ Complete => Complete'
  /\ WasReset => WasReset'
  /\ Reached(0) => Reached(0)'
  /\ \A k \in 0 .. NumDevices : Stops(k) => Stops(k)'
  /\ \A k \in 0 .. NumDevices - 1 : Taken(k) => Taken(k)'

LEMMA UnchangedStays ==
  ASSUME UNCHANGED <<dev, gwHas, gwKeep, gwAddr>>
  PROVE  Stays
  BY DEF Stays, Untouched, Complete, WasReset, Reached, Stops, Taken

LEMMA TurnStays ==
  ASSUME BusTypeOK, Turn(dev, gwHas, gwKeep), gwAddr' = gwAddr
  PROVE  Stays
  <1> USE OstricAssumption, BusTypes
  <1>1. (Untouched => Untouched') /\ (Complete => Complete')
    BY AddressesStay
  <1>2. \A d \in Devices : dev'[d].address = dev[d].address
                           /\ dev'[d].keep = dev[d].keep
    BY TurnAt
  <1>3. gwKeep' = gwKeep
    BY TurnAt
  <1>4. ASSUME WasReset PROVE WasReset'
    <2>1. ASSUME NEW d \in Devices, d # 1 PROVE ~dev'[d].has
      <3>1. d - 1 \in Devices
        BY <2>1 DEF Devices
      <3>2. ~Receives(dev, gwHas, d) /\ ~dev[d].has
        BY <1>4, <2>1, <3>1 DEF WasReset, Receives, Passes
      <3> QED
        BY <3>2, TurnAt
    <2> QED
      BY <1>2, <1>4, <2>1 DEF WasReset
  <1>5. ASSUME NEW k \in 0 .. NumDevices, Reached(k),
               k = NumDevices => gwKeep \/ NumDevices = 0
        PROVE  Reached(k)'
    <2>1. /\ gwHas' <=> gwHas
          /\ \A d \in Devices : dev'[d].has <=> dev[d].has
      BY <1>5, TurnKeeps DEF Reached
    <2> QED
      BY <1>2, <1>5, <2>1 DEF Reached
  <1>6. ASSUME NEW k \in 0 .. NumDevices - 1, Taken(k) PROVE Taken(k)'
    <2>1. /\ gwHas' <=> gwHas
          /\ \A d \in Devices : dev'[d].has <=> dev[d].has
      <3>1. k \in 0 .. NumDevices /\ k # NumDevices
        OBVIOUS
      <3>2. /\ ~gwHas
            /\ \A d \in Devices : (dev[d].has <=> d = k + 1) /\ (dev[d].keep <=> d > k)
        BY <1>6 DEF Taken
      <3> QED
        BY <3>1, <3>2, TurnKeeps
    <2> QED
      BY <1>2, <1>3, <1>6, <2>1 DEF Taken
  <1>7. Reached(0) => Reached(0)'
    BY <1>5
  <1>8. \A k \in 0 .. NumDevices : Stops(k) => Stops(k)'
    BY <1>3, <1>5 DEF Stops
  <1> QED
    BY <1>1, <1>4, <1>6, <1>7, <1>8 DEF Stays

LEMMA TakesReset ==
  ASSUME BusTypeOK, Process(Reset)
  PROVE  WasReset' /\ wire' = wire
  <1> USE OstricAssumption
  <1> DEFINE ds == [d \in Devices |->
                      [address |-> NoAddr, has |-> FALSE, keep |-> TRUE]]
  <1>1. RxReset(Reset) /\ \A d \in Devices : Addressed(Reset, d)
    BY Dispatch DEF Reset, Addressed
  <1>2. Turn(ds, gwHas, gwKeep) /\ gwAddr' = NoAddr /\ wire' = wire
    BY <1>1 DEF RxReset
  <1>3. ds \in Ring
    BY DEF Ring, Device
  <1>4. \A d \in Devices : ~ds[d].has /\ ds[d].keep /\ ds[d].address = NoAddr
    OBVIOUS
  <1> HIDE DEF ds
  <1>5. ASSUME NEW d \in Devices
        PROVE  /\ dev'[d].address = NoAddr /\ dev'[d].keep
               /\ d # 1 => ~dev'[d].has
    <2>1. dev'[d].address = NoAddr /\ dev'[d].keep
      BY <1>2, <1>3, <1>4, TurnAt, BusTypes
    <2>2. ASSUME d # 1 PROVE ~Receives(ds, gwHas, d)
      <3>1. d - 1 \in Devices
        BY <2>2 DEF Devices
      <3> QED
        BY <1>4, <2>2, <3>1 DEF Receives, Passes
    <2> QED
      BY <1>2, <1>3, <1>4, <2>1, <2>2, TurnAt, BusTypes
  <1> QED
    BY <1>2, <1>5 DEF WasReset

\* The commands of the gateway.
LEMMA TakesUse ==
  ASSUME BusTypeOK, Process(Use)
  PROVE  /\ Untouched => Untouched'
         /\ Complete => Complete'
         /\ wire' = wire \o <<GatewayAnswer>>
  <1>1. RxUseToken(Use)
    BY Dispatch DEF Use, Gateway
  <1>2. Turn(dev, gwHas, gwKeep) /\ gwAddr' = gwAddr
    BY <1>1 DEF RxUseToken, GatewayAck
  <1> QED
    BY <1>1, <1>2, TurnStays DEF Stays, RxUseToken, GatewayAck, Emit, GatewayAnswer

LEMMA TakesGen ==
  ASSUME BusTypeOK, Process(Gen)
  PROVE  /\ WasReset => Reached(0)'
         /\ Complete => Complete'
         /\ wire' = wire \o <<GatewayAnswer>>
  <1> USE OstricAssumption, BusTypes
  <1>1. RxGenToken(Gen)
    BY Dispatch DEF Gen, Gateway
  <1>2. Turn(dev, TRUE, FALSE) /\ gwAddr' = gwAddr
    BY <1>1 DEF RxGenToken, GatewayAck
  <1>3. TRUE \in BOOLEAN /\ FALSE \in BOOLEAN
    OBVIOUS
  <1>4. Complete => Complete'
    BY <1>2, <1>3, AddressesStay
  <1>5. ASSUME WasReset PROVE Reached(0)'
    <2>1. ASSUME NEW d \in Devices
          PROVE  /\ dev'[d].address = NoAddr /\ dev'[d].keep
                 /\ dev'[d].has <=> d = 1
      <3>1. dev'[d].address = NoAddr /\ dev'[d].keep
        <4>1. dev'[d].address = dev[d].address /\ dev'[d].keep = dev[d].keep
          BY <1>2, <1>3, TurnAt
        <4> QED
          BY <1>5, <4>1, Zenon DEF WasReset
      <3>2. dev'[d].has <=> \/ dev[d].has /\ dev[d].keep
                            \/ Receives(dev, TRUE, d)
        BY <1>2, <1>3, TurnAt
      <3>3. CASE d = 1
        BY <3>1, <3>2, <3>3 DEF Receives
      <3>4. CASE d # 1
        <4>1. d - 1 \in Devices
          BY <3>4 DEF Devices
        <4>2. ~Receives(dev, TRUE, d) /\ ~dev[d].has
          BY <1>5, <3>4, <4>1 DEF WasReset, Receives, Passes
        <4> QED
          BY <3>1, <3>2, <3>4, <4>2
      <3> QED
        BY <3>3, <3>4
    <2>2. gwHas' <=> NumDevices = 0
      <3>1. gwHas' <=> IF (TRUE /\ FALSE) \/ NumDevices = 0
                         THEN TRUE ELSE Passes(dev, NumDevices)
        BY <1>2, <1>3, TurnAt
      <3>2. ASSUME NumDevices # 0 PROVE ~Passes(dev, NumDevices)
        <4>1. NumDevices \in Devices
          BY <3>2 DEF Devices
        <4> QED
          BY <1>5, <4>1 DEF WasReset, Passes
      <3> QED
        BY <3>1, <3>2, Zenon
    <2>3. gwAddr' = NoAddr
      BY <1>2, <1>5 DEF WasReset
    <2>4. \A d \in Devices : ~(d <= 0) /\ d > 0 /\ (d = 0 + 1 <=> d = 1)
      BY DEF Devices
    <2> QED
      BY <2>1, <2>2, <2>3, <2>4 DEF Reached
  <1> QED
    BY <1>1, <1>4, <1>5 DEF RxGenToken, GatewayAck, Emit, GatewayAnswer

LEMMA TakesReq ==
  ASSUME BusTypeOK, Process(Req)
  PROVE  /\ Untouched => Untouched'
         /\ Reached(0) => Stops(0)'
         /\ wire' = wire \o <<GatewayAnswer>>
  <1> USE OstricAssumption, BusTypes
  <1>1. RxReqToken(Req)
    BY Dispatch DEF Req, Gateway
  <1>2. Turn(dev, gwHas, TRUE) /\ gwAddr' = gwAddr
    BY <1>1 DEF RxReqToken, GatewayAck
  <1>3. TRUE \in BOOLEAN
    OBVIOUS
  <1>4. Untouched => Untouched'
    BY <1>2, <1>3, AddressesStay
  <1>5. ASSUME Reached(0) PROVE Stops(0)'
    <2>1. 0 \in 0 .. NumDevices
      OBVIOUS
    <2>2. /\ gwHas <=> 0 = NumDevices
          /\ \A d \in Devices : (dev[d].has <=> d = 0 + 1) /\ (dev[d].keep <=> d > 0)
      BY <1>5 DEF Reached
    <2>3. /\ gwHas' <=> gwHas
          /\ \A d \in Devices : dev'[d].has <=> dev[d].has
      BY <1>2, <1>3, <2>1, <2>2, TurnKeeps
    <2>4. gwKeep' = TRUE /\ \A d \in Devices : /\ dev'[d].address = dev[d].address
                                               /\ dev'[d].keep = dev[d].keep
      BY <1>2, <1>3, TurnAt
    <2> QED
      BY <1>2, <1>5, <2>3, <2>4 DEF Stops, Reached
  <1> QED
    BY <1>1, <1>4, <1>5 DEF RxReqToken, GatewayAck, Emit, GatewayAnswer

LEMMA TakesHave ==
  ASSUME BusTypeOK, Process(Have), NEW k \in 0 .. NumDevices, Stops(k)
  PROVE  /\ Stops(k)'
         /\ wire' = wire \o <<TokenAnswer(k)>>
  <1>1. RxHaveToken(Have)
    BY Dispatch DEF Have, Gateway
  <1>2. Turn(dev, gwHas, gwKeep) /\ gwAddr' = gwAddr
    BY <1>1 DEF RxHaveToken, GatewayAck
  <1>3. Stops(k)'
    BY <1>2, TurnStays DEF Stays
  <1>4. gwHas' \in BOOLEAN /\ gwHas \in BOOLEAN
    BY <1>2, BusTypes, TurnAt
  <1> QED
    BY <1>1, <1>3, <1>4 DEF RxHaveToken, GatewayAck, Emit, TokenAnswer, Stops,
                            Reached

\* One device acknowledges, or nobody does.
LEMMA OneAck ==
  ASSUME NEW a
  PROVE  /\ \A d \in Devices : [i \in DOMAIN InOrder({d}) |-> a] = <<a>>
         /\ [i \in DOMAIN InOrder({}) |-> a] = <<>>
  <1>1. ASSUME NEW d PROVE [i \in DOMAIN <<d>> |-> a] = <<a>>
    OBVIOUS
  <1>2. [i \in DOMAIN <<>> |-> a] = <<>>
    OBVIOUS
  <1> QED
    BY <1>1, <1>2, InOrderOfOne, InOrderOfNone

\* The device that has the token takes the address; one that did already is
\* deaf to it.
LEMMA TakesAddress ==
  ASSUME BusTypeOK, NEW k \in 0 .. NumDevices - 1, k + 2 < HighAddress,
         Process(Address(k + 2)), wire = <<>>, Stops(k) \/ Taken(k)
  PROVE  Taken(k)' /\ wire' \in {<<>>, <<Answer(k + 2, NoData)>>}
  <1> USE OstricAssumption
  <1> DEFINE c == Address(k + 2)
             takers == {d \in Devices : dev[d].address = NoAddr /\ dev[d].has}
             gwTakes == gwHas /\ gwAddr = NoAddr
             ds == [d \in Devices |-> IF d \in takers
                                        THEN [dev[d] EXCEPT !.address = c.arg]
                                        ELSE dev[d]]
             ack == Answer(k + 2, NoData)
  <1>1. RxAddrAssign(c) /\ c.arg = k + 2
    BY Dispatch DEF Address
  <1> HIDE DEF c
  <1>2. /\ Turn(ds, gwHas, gwKeep)
        /\ gwAddr' = IF gwTakes THEN k + 2 ELSE gwAddr
        /\ wire' = wire \o ([i \in DOMAIN InOrder(takers) |-> ack] \o
                            (IF gwTakes THEN <<ack>> ELSE <<>>))
    BY <1>1 DEF RxAddrAssign, Emit
  <1>3. /\ ~gwHas /\ gwAddr = NoAddr /\ gwKeep
        /\ \A d \in Devices : (dev[d].has <=> d = k + 1) /\ (dev[d].keep <=> d > k)
    BY DEF Stops, Reached, Taken
  <1>4. k + 1 \in Devices
    BY DEF Devices
  <1>5. takers = IF Stops(k) THEN {k + 1} ELSE {}
    <2>1. CASE Stops(k)
      <3>1. dev[k + 1].address = NoAddr
        BY <1>4, <2>1 DEF Stops, Reached
      <3> QED
        BY <1>3, <1>4, <2>1, <3>1
    <2>2. CASE ~Stops(k)
      <3>1. dev[k + 1].address = k + 2
        BY <1>4, <2>2 DEF Taken
      <3>2. k + 2 # NoAddr
        OBVIOUS
      <3> QED
        BY <1>3, <1>4, <2>2, <3>1, <3>2
    <2> QED
      BY <2>1, <2>2
  <1>6. ds \in Ring
    <2>1. c.arg \in Addresses
      BY <1>1 DEF Addresses
    <2> HIDE DEF takers
    <2> QED
      BY <2>1, RingTypes
  <1>7. ASSUME NEW d \in Devices
        PROVE  /\ ds[d].has = dev[d].has /\ ds[d].keep = dev[d].keep
               /\ ds[d].address = IF d \in takers THEN k + 2 ELSE dev[d].address
    <2> HIDE DEF takers
    <2>1. dev[d] \in Device
      BY BusTypes DEF Ring
    <2> QED
      BY <1>1, <2>1 DEF Device
  <1>8. \A d \in Devices : ds[d].address = IF d <= k + 1 THEN d + 1 ELSE NoAddr
    <2> TAKE d \in Devices
    <2>1. d <= k \/ d = k + 1 \/ d > k + 1
      BY DEF Devices
    <2>2. dev[d].address = IF d <= k THEN d + 1 ELSE
                           IF d = k + 1 /\ ~Stops(k) THEN d + 1 ELSE NoAddr
      BY <2>1 DEF Stops, Reached, Taken, Devices
    <2> HIDE DEF takers, ds
    <2>3. CASE d = k + 1
      BY <1>5, <1>7, <2>2, <2>3
    <2>4. CASE d # k + 1
      BY <1>5, <1>7, <2>1, <2>2, <2>4 DEF Devices
    <2> QED
      BY <2>3, <2>4
  <1> HIDE DEF ds
  <1>9. /\ ~gwHas' /\ \A d \in Devices : dev'[d].has <=> dev[d].has
    <2>1. k \in 0 .. NumDevices /\ k # NumDevices /\ gwHas \in BOOLEAN
          /\ gwKeep \in BOOLEAN
      BY BusTypes
    <2>2. \A d \in Devices : (ds[d].has <=> d = k + 1) /\ (ds[d].keep <=> d > k)
      BY <1>3, <1>7
    <2>3. /\ gwHas' <=> gwHas
          /\ \A d \in Devices : dev'[d].has <=> ds[d].has
      BY <1>2, <1>3, <1>6, <2>1, <2>2, TurnKeeps
    <2> QED
      BY <1>3, <1>7, <2>3
  <1>10. Taken(k)'
    <2>1. gwKeep' = gwKeep /\ \A d \in Devices : /\ dev'[d].address = ds[d].address
                                                 /\ dev'[d].keep = ds[d].keep
      BY <1>2, <1>6, TurnAt, BusTypes
    <2>2. gwAddr' = NoAddr
      BY <1>2, <1>3
    <2> QED
      BY <1>3, <1>7, <1>8, <1>9, <2>1, <2>2 DEF Taken
  <1>11. wire' \in {<<>>, <<ack>>}
    <2>1. [i \in DOMAIN InOrder(takers) |-> ack] \in {<<>>, <<ack>>}
      <3> HIDE DEF takers, ack
      <3> QED
        BY <1>4, <1>5, OneAck
    <2> HIDE DEF takers, ack
    <2>2. wire' = <<>> \o ([i \in DOMAIN InOrder(takers) |-> ack] \o <<>>)
      BY <1>2, <1>3
    <2>3. <<>> \o (<<>> \o <<>>) = <<>> /\ <<>> \o (<<ack>> \o <<>>) = <<ack>>
      OBVIOUS
    <2> QED
      BY <2>1, <2>2, <2>3
  <1> QED
    BY <1>10, <1>11

\* The device that took the address lets the token go, or did already.
LEMMA TakesAdvance ==
  ASSUME BusTypeOK, NEW k \in 0 .. NumDevices - 1, k + 2 < HighAddress,
         Process(TokAdvance(k + 2)), wire = <<>>, Taken(k) \/ Stops(k + 1)
  PROVE  Stops(k + 1)' /\ wire' = <<Answer(k + 2, NoData)>>
  <1> USE OstricAssumption
  <1> DEFINE c == TokAdvance(k + 2)
             ds == [d \in Devices |-> IF Addressed(c, d)
                                        THEN [dev[d] EXCEPT !.keep = FALSE]
                                        ELSE dev[d]]
  <1>1. RxTokAdvance(c) /\ c.to = k + 2
    BY Dispatch DEF TokAdvance
  <1>2. k + 1 \in Devices
    BY DEF Devices
  <1>3. /\ gwAddr = NoAddr /\ gwKeep
        /\ \A d \in Devices : dev[d].address = IF d <= k + 1 THEN d + 1 ELSE NoAddr
    BY DEF Stops, Reached, Taken
  <1>4. \A d \in Devices : Addressed(c, d) <=> d = k + 1
    <2> TAKE d \in Devices
    <2>1. k + 2 # 0 /\ k + 2 # NoAddr
      OBVIOUS
    <2>2. CASE d <= k + 1
      BY <1>1, <1>3, <2>1, <2>2 DEF Addressed, Devices
    <2>3. CASE ~(d <= k + 1)
      BY <1>1, <1>3, <2>1, <2>3 DEF Addressed, Devices
    <2> QED
      BY <2>2, <2>3
  <1>5. ds \in Ring
    BY RingTypes
  <1>6. ASSUME NEW d \in Devices
        PROVE  /\ ds[d].has = dev[d].has /\ ds[d].address = dev[d].address
               /\ ds[d].keep <=> d > k + 1
    <2>1. dev[d] \in Device
      BY BusTypes DEF Ring
    <2>2. d # k + 1 => (dev[d].keep <=> d > k + 1)
      BY DEF Stops, Reached, Taken, Devices
    <2>3. CASE d = k + 1
      BY <1>4, <2>1, <2>3 DEF Device
    <2>4. CASE d # k + 1
      <3>1. ds[d] = dev[d]
        BY <1>4, <2>4
      <3> QED
        BY <2>2, <2>4, <3>1
    <2> QED
      BY <2>3, <2>4
  <1>7. Turn(ds, gwHas, gwKeep) /\ gwAddr' = gwAddr
    BY <1>1 DEF RxTokAdvance
  <1> HIDE DEF ds
  <1>8. /\ gwHas' <=> k + 1 = NumDevices
        /\ \A d \in Devices : dev'[d].has <=> d = k + 2
    <2>0. gwHas \in BOOLEAN /\ gwKeep \in BOOLEAN
      BY BusTypes
    <2>1. CASE Taken(k)
      <3>1. gwHas = FALSE
        BY <2>1 DEF Taken
      <3>2. \A d \in Devices : (ds[d].has <=> d = k + 1) /\ (ds[d].keep <=> d > k + 1)
        BY <1>6, <2>1 DEF Taken
      <3> QED
        BY <1>5, <1>7, <2>0, <3>1, <3>2, TurnPasses
    <2>2. CASE Stops(k + 1)
      <3>1. k + 1 \in 0 .. NumDevices /\ (k + 1) + 1 = k + 2
        OBVIOUS
      <3>2. /\ gwHas <=> k + 1 = NumDevices
            /\ \A d \in Devices : /\ ds[d].has <=> d = (k + 1) + 1
                                  /\ ds[d].keep <=> d > k + 1
        BY <1>6, <2>2 DEF Stops, Reached
      <3>3. /\ gwHas' <=> gwHas
            /\ \A d \in Devices : dev'[d].has <=> ds[d].has
        <4>1. PICK j \in 0 .. NumDevices : j = k + 1
          BY <3>1
        <4>2. /\ gwHas <=> j = NumDevices
              /\ \A d \in Devices : (ds[d].has <=> d = j + 1) /\ (ds[d].keep <=> d > j)
          BY <3>2, <4>1
        <4>3. j = NumDevices => gwKeep \/ NumDevices = 0
          BY <1>3
        <4> QED
          BY <1>5, <1>7, <2>0, <4>2, <4>3, TurnKeeps, Zenon
      <3> QED
        BY <3>1, <3>2, <3>3
    <2> QED
      BY <2>1, <2>2
  <1>9. Stops(k + 1)'
    <2>1. gwKeep' = gwKeep /\ \A d \in Devices : /\ dev'[d].address = ds[d].address
                                                 /\ dev'[d].keep = ds[d].keep
      BY <1>5, <1>7, TurnAt, BusTypes
    <2>2. (k + 1) + 1 = k + 2
      OBVIOUS
    <2> QED
      BY <1>3, <1>6, <1>7, <1>8, <2>1, <2>2 DEF Stops, Reached
  <1>10. wire' = <<Answer(k + 2, NoData)>>
    <2> DEFINE heard == InOrder({d \in Devices : Addressed(c, d)})
               acks == [i \in DOMAIN heard |->
                          Answer(Source(dev[heard[i]].address), NoData)]
    <2>1. wire' = wire \o acks
      BY <1>1 DEF RxTokAdvance, Emit
    <2>2. {d \in Devices : Addressed(c, d)} = {k + 1}
      BY <1>2, <1>4
    <2>3. heard = <<k + 1>>
      BY <1>2, <2>2, InOrderOfOne
    <2>4. Source(dev[k + 1].address) = k + 2
      BY <1>2, <1>3 DEF Source
    <2> HIDE DEF heard
    <2>5. acks = <<Answer(k + 2, NoData)>>
      BY <2>3, <2>4
    <2>6. <<>> \o <<Answer(k + 2, NoData)>> = <<Answer(k + 2, NoData)>>
      OBVIOUS
    <2> QED
      BY <2>1, <2>5, <2>6
  <1> QED
    BY <1>9, <1>10

\* With the token at the gateway, the gateway takes the address.
LEMMA TakesGwAddress ==
  ASSUME BusTypeOK, NumDevices + 2 < HighAddress,
         Process(Address(NumDevices + 2)), wire = <<>>,
         Stops(NumDevices) \/ Complete
  PROVE  /\ Complete'
         /\ wire' \in {<<>>, <<Answer(NumDevices + 2, NoData)>>}
  <1> USE OstricAssumption
  <1> DEFINE c == Address(NumDevices + 2)
             takers == {d \in Devices : dev[d].address = NoAddr /\ dev[d].has}
             gwTakes == gwHas /\ gwAddr = NoAddr
             ds == [d \in Devices |-> IF d \in takers
                                        THEN [dev[d] EXCEPT !.address = c.arg]
                                        ELSE dev[d]]
             ack == Answer(c.arg, NoData)
  <1>1. RxAddrAssign(c) /\ c.arg = NumDevices + 2
    BY Dispatch DEF Address
  <1> HIDE DEF c
  <1>2. /\ Turn(ds, gwHas, gwKeep)
        /\ gwAddr' = IF gwTakes THEN c.arg ELSE gwAddr
        /\ wire' = wire \o ([i \in DOMAIN InOrder(takers) |-> ack] \o
                            (IF gwTakes THEN <<ack>> ELSE <<>>))
    BY <1>1 DEF RxAddrAssign, Emit
  <1>3. \A d \in Devices : dev[d].address = d + 1
    BY DEF Stops, Reached, Complete, Devices
  <1>4. \A d \in Devices : d + 1 # NoAddr
    BY DEF Devices
  <1>5. takers = {}
    BY <1>3, <1>4
  <1>6. ds = dev
    <2>1. dev \in [Devices -> Device]
      BY BusTypes DEF Ring
    <2> QED
      BY <1>5, <2>1
  <1>7. \A d \in Devices : dev'[d].address = d + 1
    BY <1>2, <1>3, <1>6, TurnAt, BusTypes
  <1>8. gwAddr' = NumDevices + 2
    BY <1>1, <1>2 DEF Stops, Reached, Complete
  <1>9. wire' \in {<<>>, <<ack>>}
    <2>1. [i \in DOMAIN InOrder(takers) |-> ack] = <<>>
      <3> HIDE DEF takers, ack
      <3> QED
        BY <1>5, OneAck
    <2> HIDE DEF takers, ack, gwTakes
    <2>2. wire' = <<>> \o (<<>> \o (IF gwTakes THEN <<ack>> ELSE <<>>))
      BY <1>2, <2>1
    <2>3. <<>> \o (<<>> \o <<>>) = <<>> /\ <<>> \o (<<>> \o <<ack>>) = <<ack>>
      OBVIOUS
    <2> QED
      BY <2>2, <2>3
  <1> QED
    BY <1>1, <1>7, <1>8, <1>9 DEF Complete

\* Whoever has the address tells its class.
LEMMA TakesInfo ==
  ASSUME BusTypeOK, Complete, NEW a \in 2 .. NumDevices + 2, a < HighAddress,
         Process(AddrInfo(a)), wire = <<>>
  PROVE  Complete' /\ wire' = <<Answer(a, a - 1)>>
  <1> USE OstricAssumption
  <1> DEFINE c == AddrInfo(a)
             heard == InOrder({d \in Devices : Addressed(c, d)})
             acks == [i \in DOMAIN heard |->
                        Answer(Source(dev[heard[i]].address), Class(heard[i]))]
             gwAcks == IF gwAddr = c.to THEN <<Answer(c.to, GatewayClass)>>
                                        ELSE <<>>
  <1>1. RxAddrInfo(c) /\ c.to = a
    BY Dispatch DEF AddrInfo
  <1> HIDE DEF c
  <1>2. Turn(dev, gwHas, gwKeep) /\ gwAddr' = gwAddr /\ wire' = wire \o (acks \o gwAcks)
    BY <1>1 DEF RxAddrInfo, Emit
  <1>3. Complete'
    BY <1>2, TurnStays DEF Stays
  <1>4. {d \in Devices : Addressed(c, d)} = IF a = NumDevices + 2 THEN {} ELSE {a - 1}
    BY <1>1 DEF Addressed, Complete, Devices
  <1>5. CASE a = NumDevices + 2
    <2>1. heard = <<>>
      BY <1>4, <1>5, InOrderOfNone
    <2> HIDE DEF heard
    <2>2. acks = <<>>
      BY <2>1
    <2>3. gwAcks = <<Answer(a, a - 1)>>
      BY <1>1, <1>5 DEF Complete, GatewayClass
    <2> HIDE DEF acks, gwAcks
    <2>4. <<>> \o (<<>> \o <<Answer(a, a - 1)>>) = <<Answer(a, a - 1)>>
      OBVIOUS
    <2> QED
      BY <1>2, <1>3, <2>2, <2>3, <2>4
  <1>6. CASE a # NumDevices + 2
    <2>1. a - 1 \in Devices
      BY <1>6 DEF Devices
    <2>2. heard = <<a - 1>>
      BY <1>4, <1>6, <2>1, InOrderOfOne
    <2>3. Source(dev[a - 1].address) = a /\ Class(a - 1) = a - 1
      BY <2>1 DEF Source, Complete, Class
    <2> HIDE DEF heard
    <2>4. acks = <<Answer(a, a - 1)>>
      BY <2>2, <2>3
    <2>5. gwAcks = <<>>
      BY <1>1, <1>6 DEF Complete
    <2> HIDE DEF acks, gwAcks
    <2>6. <<>> \o (<<Answer(a, a - 1)>> \o <<>>) = <<Answer(a, a - 1)>>
      OBVIOUS
    <2> QED
      BY <1>2, <1>3, <2>4, <2>5, <2>6
  <1> QED
    BY <1>5, <1>6

\* The broadcast moves nothing but tokens.
LEMMA TakesBroadcast ==
  ASSUME BusTypeOK, Process(TokAdvance(0)), Untouched
  PROVE  Untouched'
  <1> DEFINE c == TokAdvance(0)
             ds == [d \in Devices |-> IF Addressed(c, d)
                                        THEN [dev[d] EXCEPT !.keep = FALSE]
                                        ELSE dev[d]]
  <1>0. RxTokAdvance(c)
    BY Dispatch DEF TokAdvance
  <1> HIDE DEF c
  <1>1. Turn(ds, gwHas, gwKeep) /\ gwAddr' = gwAddr
    BY <1>0 DEF RxTokAdvance
  <1>2. ds \in Ring
    BY RingTypes
  <1>3. \A d \in Devices : ds[d].address = dev[d].address
    <2> TAKE d \in Devices
    <2>1. dev[d] \in Device
      BY BusTypes DEF Ring
    <2> QED
      BY <2>1 DEF Device
  <1> HIDE DEF ds
  <1> QED
    BY <1>1, <1>2, <1>3, AddressesStay, BusTypes

-----------------------------------------------------------------------------
(* What sricd sends *)

LEMMA FramesAreCommands ==
  /\ {Reset, Gen, Req, Have, Use} \subseteq Command
  /\ \A a \in 0 .. HighAddress :
       {Address(a), TokAdvance(a), AddrInfo(a)} \subseteq Command
  BY OstricAssumption DEF Command, Reset, Gen, Req, Have, Use, Gateway, Address,
                          TokAdvance, AddrInfo

LEMMA Queues ==
  /\ \A c : <<>> \o <<c>> = <<c>> /\ <<c>> # <<>> /\ Head(<<c>>) = c /\ Tail(<<c>>) = <<>>
  /\ \A c, d : Head(<<c, d>>) = c /\ Tail(<<c, d>>) = <<d>> /\ <<c, d>> # <<>>
  /\ \A c, d, e : /\ <<>> \o <<c, d, e>> = <<c, d, e>> /\ <<c, d, e>> # <<>>
                  /\ Head(<<c, d, e>>) = c /\ Tail(<<c, d, e>>) = <<d, e>>
  OBVIOUS

LEMMA QueueHeads ==
  /\ \A c : queue = <<c>> => Heads(c, <<>>)
  /\ \A c, d : queue = <<c, d>> => Heads(c, <<d>>)
  /\ \A c, d, e : queue = <<c, d, e>> => Heads(c, <<d, e>>)
  <1>1. ASSUME NEW c, queue = <<c>> PROVE Heads(c, <<>>)
    BY <1>1 DEF Heads
  <1>2. ASSUME NEW c, NEW d, queue = <<c, d>> PROVE Heads(c, <<d>>)
    BY <1>2 DEF Heads
  <1>3. ASSUME NEW c, NEW d, NEW e, queue = <<c, d, e>> PROVE Heads(c, <<d, e>>)
    BY <1>3 DEF Heads
  <1> QED
    BY <1>1, <1>2, <1>3

\* What a step leaves alone when sricd only sends.
SricdWaits ==
  UNCHANGED <<state, next, infoAddr, killTimer, resetTimer, known, replied,
              classes, resetCount, lostAnswers>>

LEMMA TransmitTypes ==
  ASSUME EnumTypeOK, NEW c \in Command,
         c.cmd = "ADDR_ASSIGN" => c.arg \in Addresses,
         Transmit(c)
  PROVE  /\ BusTypeOK' /\ lostFrames' \in 0 .. MaxLostFrames
         /\ \/ Process(c) /\ UNCHANGED lostFrames
            \/ UNCHANGED busVars /\ lostFrames' = lostFrames + 1
  <1> USE DEF EnumTypeOK, Transmit
  <1>1. CASE Process(c) /\ UNCHANGED lostFrames
    BY <1>1, ProcessTypes
  <1>2. CASE UNCHANGED busVars /\ lostFrames < MaxLostFrames
             /\ lostFrames' = lostFrames + 1
    <2>1. BusTypeOK'
      BY <1>2 DEF BusTypeOK, busVars
    <2>2. lostFrames' \in 0 .. MaxLostFrames
      BY <1>2, EnumerationAssumption
    <2> QED
      BY <1>2, <2>1, <2>2
  <1> QED
    BY <1>1, <1>2

\* On a timely bus a frame is sent, or sent again when nothing is on its way.
LEMMA SentOrRepeated ==
  ASSUME EnumTypeOK, ~LateAnswers, NEW c \in Command, NEW rest \in Seq(Command),
         c.cmd # "RESET", c.cmd = "ADDR_ASSIGN" => c.arg \in Addresses,
         \/ txFrame = NoCommand /\ Heads(c, rest)
         \/ txFrame = c /\ queue = rest,
         Send \/ Retransmit
  PROVE  /\ txFrame = c => wire = <<>>
         /\ txFrame' = c /\ queue' = rest
         /\ Process(c) \/ UNCHANGED busVars
         /\ SricdWaits
         /\ EnumTypeOK'
  <1>1. c # NoCommand
    BY EnumerationAssumption
  <1>2. /\ txFrame = c => wire = <<>>
        /\ txFrame' = c /\ queue' = rest
        /\ Transmit(c)
        /\ SricdWaits
    <2>1. CASE Send
      <3>1. Head(queue) = c /\ Tail(queue) = rest
        BY <1>1, <2>1 DEF Send, Heads
      <3>2. Transmit(c)
        BY <2>1, <3>1 DEF Send
      <3>3. txFrame' = c /\ queue' = rest /\ SricdWaits
        BY <2>1, <3>1 DEF Send, SricdWaits, recvVars
      <3> QED
        BY <1>1, <2>1, <3>2, <3>3 DEF Send
    <2>2. CASE Retransmit
      <3>1. txFrame = c /\ queue = rest
        BY <1>1, <2>2 DEF Retransmit
      <3> QED
        BY <2>2, <3>1 DEF Retransmit, SricdWaits, fsmVars, recvVars
    <2> QED
      BY <2>1, <2>2
  <1>3. /\ BusTypeOK' /\ lostFrames' \in 0 .. MaxLostFrames
        /\ Process(c) \/ UNCHANGED busVars
    BY <1>2, TransmitTypes
  <1>4. EnumTypeOK'
    BY <1>2, <1>3 DEF EnumTypeOK, SricdWaits
  <1> QED
    BY <1>2, <1>3, <1>4

-----------------------------------------------------------------------------
(* Sending a frame keeps the invariant *)

LEMMA WaitingIInv ==
  ASSUME IInv, SricdWaits, EnumTypeOK', InPhase'
  PROVE  IInv'
  BY DEF IInv, SricdWaits

LEMMA SendsKillingToken ==
  ASSUME IInv, ~LateAnswers, state = "KILLING_TOKEN", Send \/ Retransmit
  PROVE  IInv'
  <1> USE FramesAreCommands, Queues, OstricAssumption, EnumerationAssumption
  <1>1. KillingToken /\ EnumTypeOK /\ BusTypeOK
    BY DEF IInv, InPhase, EnumTypeOK
  <1>2. ASSUME UNCHANGED busVars \/ Process(TokAdvance(0)) \/ Process(Req)
        PROVE  Untouched'
    <2>1. Untouched
      BY <1>1 DEF KillingToken
    <2>2. UNCHANGED busVars => Untouched'
      BY <2>1, UnchangedStays DEF Stays, busVars
    <2> QED
      BY <1>1, <1>2, <2>1, <2>2, TakesBroadcast, TakesReq
  <1>3. /\ TokAdvance(0).cmd \notin {"RESET", "ADDR_ASSIGN"}
        /\ Req.cmd \notin {"RESET", "ADDR_ASSIGN"}
    BY DEF TokAdvance, Req, Gateway
  <1>4. TokAdvance(0) \in Command /\ Req \in Command
    OBVIOUS
  <1> HIDE DEF Req
  <1>5. CASE \E rest \in {<<TokAdvance(0), Req>>, <<Req>>} :
               \/ txFrame = NoCommand /\ Heads(TokAdvance(0), rest)
               \/ txFrame = TokAdvance(0) /\ queue = rest
    <2>1. PICK rest \in {<<TokAdvance(0), Req>>, <<Req>>} :
               \/ txFrame = NoCommand /\ Heads(TokAdvance(0), rest)
               \/ txFrame = TokAdvance(0) /\ queue = rest
      BY <1>5
    <2>2. rest \in Seq(Command)
      <3>1. <<TokAdvance(0), Req>> \in Seq(Command) /\ <<Req>> \in Seq(Command)
        BY <1>4
      <3> QED
        BY <2>1, <3>1
    <2>3. /\ txFrame' = TokAdvance(0) /\ queue' = rest
          /\ Process(TokAdvance(0)) \/ UNCHANGED busVars
          /\ SricdWaits /\ EnumTypeOK'
      BY <1>1, <1>3, <1>4, <2>1, <2>2, SentOrRepeated
    <2>4. KillingToken'
      BY <1>1, <1>2, <2>3 DEF KillingToken, SricdWaits
    <2> QED
      BY <2>3, <2>4, WaitingIInv DEF InPhase, SricdWaits
  <1>6. CASE \/ txFrame = NoCommand /\ Heads(Req, <<>>)
             \/ txFrame = Req /\ queue = <<>>
    <2>1. <<>> \in Seq(Command)
      OBVIOUS
    <2>2. /\ txFrame' = Req /\ queue' = <<>>
          /\ Process(Req) \/ UNCHANGED busVars
          /\ SricdWaits /\ EnumTypeOK'
      BY <1>1, <1>3, <1>4, <1>6, <2>1, SentOrRepeated
    <2>3. KillingToken'
      BY <1>1, <1>2, <2>2 DEF KillingToken, SricdWaits
    <2> QED
      BY <2>2, <2>3, WaitingIInv DEF InPhase, SricdWaits
  <1>7. ~(txFrame = NoCommand /\ queue = <<>>)
    BY DEF Send, Retransmit
  <1>8. ASSUME txFrame = NoCommand, queue # <<>>
        PROVE  \/ Heads(TokAdvance(0), <<TokAdvance(0), Req>>)
               \/ Heads(TokAdvance(0), <<Req>>)
               \/ Heads(Req, <<>>)
    <2>1. queue \in {<<TokAdvance(0), TokAdvance(0), Req>>,
                    <<TokAdvance(0), Req>>, <<Req>>}
      BY <1>1, <1>4, <1>8 DEF KillingToken
    <2>2. /\ queue = <<TokAdvance(0), TokAdvance(0), Req>> =>
               Heads(TokAdvance(0), <<TokAdvance(0), Req>>)
          /\ queue = <<TokAdvance(0), Req>> => Heads(TokAdvance(0), <<Req>>)
          /\ queue = <<Req>> => Heads(Req, <<>>)
      BY QueueHeads
    <2> QED
      BY <2>1, <2>2
  <1>9. CASE txFrame = NoCommand
    BY <1>5, <1>6, <1>7, <1>8, <1>9
  <1>10. CASE txFrame # NoCommand
    BY <1>1, <1>5, <1>6, <1>10 DEF KillingToken
  <1> QED
    BY <1>9, <1>10

LEMMA SendsResetting ==
  ASSUME IInv, ~LateAnswers, state = "RESETTING", Send \/ Retransmit
  PROVE  IInv'
  <1> USE FramesAreCommands, Queues, OstricAssumption, EnumerationAssumption
  <1>1. Resetting /\ EnumTypeOK /\ BusTypeOK
    BY DEF IInv, InPhase, EnumTypeOK
  <1>2. CASE Exchange(Use, GatewayAnswer, <<>>, Untouched, Untouched) /\ resetCount = 0
    <2>1. Use.cmd \notin {"RESET", "ADDR_ASSIGN"} /\ <<>> \in Seq(Command)
      BY DEF Use, Gateway
    <2>2. /\ txFrame = Use => wire = <<>>
          /\ txFrame' = Use /\ queue' = <<>>
          /\ Process(Use) \/ UNCHANGED busVars
          /\ SricdWaits /\ EnumTypeOK'
      BY <1>1, <1>2, <2>1, SentOrRepeated DEF Exchange
    <2>3. wire = <<>> /\ Untouched
      BY <1>2, <2>2 DEF Exchange
    <2>4. Untouched' /\ wire' \in {<<>>, <<GatewayAnswer>>}
      <3>1. Process(Use) => Untouched' /\ wire' = <<GatewayAnswer>>
        BY <1>1, <2>3, TakesUse
      <3>2. UNCHANGED busVars => Untouched' /\ wire' = <<>>
        BY <2>3, UnchangedStays DEF Stays, busVars
      <3> QED
        BY <2>2, <3>1, <3>2
    <2>5. Resetting'
      BY <1>2, <2>2, <2>4 DEF Resetting, Exchange, SricdWaits
    <2> QED
      BY <2>2, <2>5, WaitingIInv DEF InPhase, SricdWaits
  <1>3. CASE Still
    BY <1>3 DEF Still, Send, Retransmit
  <1>4. CASE /\ txFrame = NoCommand /\ queue = <<Reset>> /\ wire = <<>>
             /\ WasReset \/ (Untouched /\ lostFrames >= resetCount - 1)
    <2>1. Send
      BY <1>4 DEF Retransmit
    <2>2. Reset.cmd = "RESET" /\ Head(queue) = Reset /\ Tail(queue) = <<>>
      BY <1>4 DEF Reset
    <2>3. Transmit(Reset) /\ txFrame' = NoCommand /\ queue' = <<>> /\ SricdWaits
      BY <2>1, <2>2 DEF Send, SricdWaits, recvVars
    <2>4. /\ BusTypeOK' /\ lostFrames' \in 0 .. MaxLostFrames
          /\ \/ Process(Reset) /\ UNCHANGED lostFrames
             \/ UNCHANGED busVars /\ lostFrames' = lostFrames + 1
      BY <1>1, <2>2, <2>3, TransmitTypes
    <2>5. EnumTypeOK'
      BY <1>1, <2>3, <2>4 DEF EnumTypeOK, SricdWaits
    <2>6. wire' = <<>> /\ (WasReset' \/ (Untouched' /\ lostFrames' >= resetCount))
      <3>1. Process(Reset) => WasReset' /\ wire' = wire
        BY <1>1, TakesReset
      <3>2. ASSUME UNCHANGED busVars, lostFrames' = lostFrames + 1
            PROVE  wire' = <<>> /\ (WasReset' \/ (Untouched' /\ lostFrames' >= resetCount))
        <4>1. resetCount \in Nat /\ lostFrames \in Nat
          BY <1>1 DEF EnumTypeOK
        <4>2. Stays /\ wire' = wire
          BY <3>2, UnchangedStays DEF busVars
        <4> QED
          BY <1>4, <3>2, <4>1, <4>2 DEF Stays
      <3> QED
        BY <1>4, <2>4, <3>1, <3>2
    <2>7. Resetting'
      BY <2>3, <2>6 DEF Resetting, Still, SricdWaits
    <2> QED
      BY <2>3, <2>5, <2>7, WaitingIInv DEF InPhase, SricdWaits
  <1> QED
    BY <1>1, <1>2, <1>3, <1>4 DEF Resetting

LEMMA SendsEnumerating ==
  ASSUME IInv, ~LateAnswers, state = "ENUMERATING", Send \/ Retransmit
  PROVE  IInv'
  <1> USE FramesAreCommands, OstricAssumption
  <1>1. Enumerating /\ EnumTypeOK /\ BusTypeOK
    BY DEF IInv, InPhase, EnumTypeOK
  <1>2. \A c \in {Gen, Req, Have} : c.cmd \notin {"RESET", "ADDR_ASSIGN"}
    BY DEF Gen, Req, Have, Gateway
  <1>3. /\ <<Req, Have>> \in Seq(Command) /\ <<Have>> \in Seq(Command)
        /\ <<>> \in Seq(Command)
    OBVIOUS
  <1>4. CASE Exchange(Gen, GatewayAnswer, <<Req, Have>>, WasReset, Reached(0))
             /\ next = 2
    <2>1. /\ txFrame = Gen => wire = <<>>
          /\ txFrame' = Gen /\ queue' = <<Req, Have>>
          /\ Process(Gen) \/ UNCHANGED busVars
          /\ SricdWaits /\ EnumTypeOK'
      BY <1>1, <1>2, <1>3, <1>4, SentOrRepeated DEF Exchange
    <2>2. wire = <<>> /\ (WasReset \/ Reached(0))
      BY <1>4, <2>1 DEF Exchange
    <2>3. Process(Gen) => Reached(0)' /\ wire' = <<GatewayAnswer>>
      <3>1. \A d \in Devices : d > 0 /\ (d = 0 + 1 => d = 1) /\ ~(d <= 0)
        BY DEF Devices
      <3>2. WasReset
        BY <2>2, <3>1 DEF WasReset, Reached
      <3>3. <<>> \o <<GatewayAnswer>> = <<GatewayAnswer>>
        OBVIOUS
      <3> QED
        BY <1>1, <2>2, <3>2, <3>3, TakesGen
    <2>4. UNCHANGED busVars => (WasReset \/ Reached(0))' /\ wire' = <<>>
      BY <2>2, UnchangedStays DEF Stays, busVars
    <2>5. Enumerating'
      BY <1>4, <2>1, <2>3, <2>4 DEF Enumerating, Exchange, SricdWaits
    <2> QED
      BY <2>1, <2>5, WaitingIInv DEF InPhase, SricdWaits
  <1>5. CASE Exchange(Req, GatewayAnswer, <<Have>>, Reached(0), Stops(0))
             /\ next = 2
    <2>1. /\ txFrame = Req => wire = <<>>
          /\ txFrame' = Req /\ queue' = <<Have>>
          /\ Process(Req) \/ UNCHANGED busVars
          /\ SricdWaits /\ EnumTypeOK'
      BY <1>1, <1>2, <1>3, <1>5, SentOrRepeated DEF Exchange
    <2>2. wire = <<>> /\ (Reached(0) \/ Stops(0))
      BY <1>5, <2>1 DEF Exchange
    <2>3. Process(Req) => Stops(0)' /\ wire' = <<GatewayAnswer>>
      <3>1. Reached(0)
        BY <2>2 DEF Stops
      <3>2. <<>> \o <<GatewayAnswer>> = <<GatewayAnswer>>
        OBVIOUS
      <3> QED
        BY <1>1, <2>2, <3>1, <3>2, TakesReq
    <2>4. UNCHANGED busVars => (Reached(0) \/ Stops(0))' /\ wire' = <<>>
      BY <2>2, UnchangedStays DEF Stays, busVars
    <2>5. Enumerating'
      BY <1>5, <2>1, <2>3, <2>4 DEF Enumerating, Exchange, SricdWaits
    <2> QED
      BY <2>1, <2>5, WaitingIInv DEF InPhase, SricdWaits
  <1>6. ASSUME NEW k \in 0 .. NumDevices, next = k + 2,
               Exchange(Have, TokenAnswer(k), <<>>, Stops(k), Stops(k))
        PROVE  IInv'
    <2>1. /\ txFrame = Have => wire = <<>>
          /\ txFrame' = Have /\ queue' = <<>>
          /\ Process(Have) \/ UNCHANGED busVars
          /\ SricdWaits /\ EnumTypeOK'
      BY <1>1, <1>2, <1>3, <1>6, SentOrRepeated DEF Exchange
    <2>2. wire = <<>> /\ Stops(k)
      BY <1>6, <2>1 DEF Exchange
    <2>3. Process(Have) => Stops(k)' /\ wire' = <<TokenAnswer(k)>>
      <3>1. <<>> \o <<TokenAnswer(k)>> = <<TokenAnswer(k)>>
        OBVIOUS
      <3> QED
        BY <1>1, <2>2, <3>1, TakesHave
    <2>4. UNCHANGED busVars => Stops(k)' /\ wire' = <<>>
      BY <2>2, UnchangedStays DEF Stays, busVars
    <2>5. Exchange(Have, TokenAnswer(k), <<>>, Stops(k), Stops(k))'
      BY <2>1, <2>3, <2>4 DEF Exchange
    <2>6. Enumerating'
      BY <1>6, <2>1, <2>5 DEF Enumerating, SricdWaits
    <2> QED
      BY <2>1, <2>6, WaitingIInv DEF InPhase, SricdWaits
  <1> QED
    BY <1>1, <1>4, <1>5, <1>6 DEF Enumerating

LEMMA SendsSettingAddr ==
  ASSUME IInv, ~LateAnswers, state = "SETTING_ADDR", Send \/ Retransmit
  PROVE  IInv'
  <1> USE OstricAssumption
  <1>1. PICK k \in 0 .. NumDevices : SettingAddr(k)
    BY DEF IInv, InPhase
  <1>2. EnumTypeOK /\ BusTypeOK /\ next = k + 2 /\ next < HighAddress
        /\ k \in 0 .. NumDevices - 1
        /\ Exchange(Address(next), Answer(next, NoData), <<>>, Stops(k), Taken(k))
    BY <1>1 DEF IInv, EnumTypeOK, SettingAddr
  <1>3. /\ Address(next) \in Command /\ Address(next).cmd # "RESET"
        /\ Address(next).arg \in Addresses
        /\ <<>> \in Seq(Command)
    BY <1>2, FramesAreCommands DEF Address, Addresses
  <1>4. /\ txFrame = Address(next) => wire = <<>>
        /\ txFrame' = Address(next) /\ queue' = <<>>
        /\ Process(Address(next)) \/ UNCHANGED busVars
        /\ SricdWaits /\ EnumTypeOK'
    BY <1>2, <1>3, SentOrRepeated DEF Exchange
  <1>5. wire = <<>> /\ (Stops(k) \/ Taken(k))
    BY <1>2, <1>4 DEF Exchange
  <1>6. Process(Address(next)) =>
          Taken(k)' /\ wire' \in {<<>>, <<Answer(next, NoData)>>}
    BY <1>2, <1>5, TakesAddress
  <1>7. UNCHANGED busVars => (Stops(k) \/ Taken(k))' /\ wire' = <<>>
    BY <1>2, <1>5, UnchangedStays DEF Stays, busVars
  <1>8. Exchange(Address(next), Answer(next, NoData), <<>>, Stops(k), Taken(k))'
    BY <1>4, <1>6, <1>7 DEF Exchange, SricdWaits
  <1>9. SettingAddr(k)'
    BY <1>2, <1>4, <1>8 DEF SettingAddr, SricdWaits
  <1> QED
    BY <1>4, <1>9, WaitingIInv DEF InPhase, SricdWaits

LEMMA SendsAdvancingToken ==
  ASSUME IInv, ~LateAnswers, state = "ADVANCING_TOKEN", Send \/ Retransmit
  PROVE  IInv'
  <1> USE OstricAssumption
  <1>1. PICK k \in 0 .. NumDevices : AdvancingToken(k)
    BY DEF IInv, InPhase
  <1>2. EnumTypeOK /\ BusTypeOK /\ next = k + 2 /\ next < HighAddress
        /\ k \in 0 .. NumDevices - 1 /\ k + 1 \in 0 .. NumDevices
        /\ Exchange(TokAdvance(next), Answer(next, NoData), <<>>,
                    Taken(k), Stops(k + 1))
    BY <1>1 DEF IInv, EnumTypeOK, AdvancingToken
  <1>3. /\ TokAdvance(next) \in Command
        /\ TokAdvance(next).cmd \notin {"RESET", "ADDR_ASSIGN"}
        /\ <<>> \in Seq(Command)
    BY <1>2, FramesAreCommands DEF TokAdvance
  <1>4. /\ txFrame = TokAdvance(next) => wire = <<>>
        /\ txFrame' = TokAdvance(next) /\ queue' = <<>>
        /\ Process(TokAdvance(next)) \/ UNCHANGED busVars
        /\ SricdWaits /\ EnumTypeOK'
    BY <1>2, <1>3, SentOrRepeated DEF Exchange
  <1>5. wire = <<>> /\ (Taken(k) \/ Stops(k + 1))
    BY <1>2, <1>4 DEF Exchange
  <1>6. Process(TokAdvance(next)) =>
          Stops(k + 1)' /\ wire' = <<Answer(next, NoData)>>
    BY <1>2, <1>5, TakesAdvance
  <1>7. UNCHANGED busVars => (Taken(k) \/ Stops(k + 1))' /\ wire' = <<>>
    BY <1>2, <1>5, UnchangedStays DEF Stays, busVars
  <1>8. Exchange(TokAdvance(next), Answer(next, NoData), <<>>,
                 Taken(k), Stops(k + 1))'
    BY <1>4, <1>6, <1>7 DEF Exchange, SricdWaits
  <1>9. AdvancingToken(k)'
    BY <1>2, <1>4, <1>8 DEF AdvancingToken, SricdWaits
  <1> QED
    BY <1>4, <1>9, WaitingIInv DEF InPhase, SricdWaits

LEMMA SendsSettingGwAddr ==
  ASSUME IInv, ~LateAnswers, state = "SETTING_GW_ADDR", Send \/ Retransmit
  PROVE  IInv'
  <1> USE OstricAssumption
  <1>1. EnumTypeOK /\ BusTypeOK /\ next = NumDevices + 2 /\ next < HighAddress
        /\ Exchange(Address(next), Answer(next, NoData), <<>>,
                    Stops(NumDevices), Complete)
    BY DEF IInv, InPhase, EnumTypeOK, SettingGwAddr
  <1>2. /\ Address(next) \in Command /\ Address(next).cmd # "RESET"
        /\ Address(next).arg \in Addresses
        /\ <<>> \in Seq(Command)
    BY <1>1, FramesAreCommands DEF Address, Addresses
  <1>3. /\ txFrame = Address(next) => wire = <<>>
        /\ txFrame' = Address(next) /\ queue' = <<>>
        /\ Process(Address(next)) \/ UNCHANGED busVars
        /\ SricdWaits /\ EnumTypeOK'
    BY <1>1, <1>2, SentOrRepeated DEF Exchange
  <1>4. wire = <<>> /\ (Stops(NumDevices) \/ Complete)
    BY <1>1, <1>3 DEF Exchange
  <1>5. Process(Address(next)) =>
          Complete' /\ wire' \in {<<>>, <<Answer(next, NoData)>>}
    BY <1>1, <1>4, TakesGwAddress
  <1>6. UNCHANGED busVars => (Stops(NumDevices) \/ Complete)' /\ wire' = <<>>
    BY <1>1, <1>4, UnchangedStays DEF Stays, busVars
  <1>7. Exchange(Address(next), Answer(next, NoData), <<>>,
                 Stops(NumDevices), Complete)'
    BY <1>3, <1>5, <1>6 DEF Exchange, SricdWaits
  <1>8. SettingGwAddr'
    BY <1>1, <1>3, <1>7 DEF SettingGwAddr, SricdWaits
  <1> QED
    BY <1>3, <1>8, WaitingIInv DEF InPhase, SricdWaits

LEMMA SendsFetchingClasses ==
  ASSUME IInv, ~LateAnswers, state = "FETCHING_CLASSES", Send \/ Retransmit
  PROVE  IInv'
  <1> USE OstricAssumption
  <1>1. FetchingClasses /\ EnumTypeOK /\ BusTypeOK /\ infoAddr \in 2 .. HighAddress
        /\ next = NumDevices + 3 /\ next <= HighAddress
    BY DEF IInv, InPhase, EnumTypeOK, FetchingClasses
  \* A frame the bus takes without a change of address.
  <1>2. ASSUME NEW c \in Command, NEW a, NEW rest \in Seq(Command),
               c.cmd \notin {"RESET", "ADDR_ASSIGN"},
               Exchange(c, a, rest, Complete, Complete),
               wire = <<>> /\ Complete /\ Process(c) =>
                 Complete' /\ wire' = wire \o <<a>>
        PROVE  /\ txFrame' = c /\ queue' = rest
               /\ Complete' /\ wire' \in {<<>>, <<a>>}
               /\ SricdWaits /\ EnumTypeOK'
    <2>1. /\ txFrame = c => wire = <<>>
          /\ txFrame' = c /\ queue' = rest
          /\ Process(c) \/ UNCHANGED busVars
          /\ SricdWaits /\ EnumTypeOK'
      BY <1>1, <1>2, SentOrRepeated DEF Exchange
    <2>2. wire = <<>> /\ Complete
      BY <1>2, <2>1 DEF Exchange
    <2>3. UNCHANGED busVars => Complete' /\ wire' = <<>>
      BY <2>2, UnchangedStays DEF Stays, busVars
    <2>4. <<>> \o <<a>> = <<a>>
      OBVIOUS
    <2> QED
      BY <1>2, <2>1, <2>2, <2>3, <2>4
  <1>3. /\ {Use, Gen, AddrInfo(2), AddrInfo(infoAddr - 1)} \subseteq Command
        /\ \A c \in {Use, Gen, AddrInfo(2), AddrInfo(infoAddr - 1)} :
             c.cmd \notin {"RESET", "ADDR_ASSIGN"}
    <2>1. {2, infoAddr - 1} \subseteq 0 .. HighAddress
      BY <1>1
    <2> QED
      BY <2>1, FramesAreCommands DEF Use, Gen, Gateway, AddrInfo
  <1>4. CASE infoAddr = 3 /\ Exchange(Use, GatewayAnswer, <<Gen, AddrInfo(2)>>,
                                      Complete, Complete)
    <2>1. <<Gen, AddrInfo(2)>> \in Seq(Command)
      BY <1>3
    <2>2. Complete /\ Process(Use) => Complete' /\ wire' = wire \o <<GatewayAnswer>>
      BY <1>1, TakesUse
    <2>3. /\ txFrame' = Use /\ queue' = <<Gen, AddrInfo(2)>>
          /\ Complete' /\ wire' \in {<<>>, <<GatewayAnswer>>}
          /\ SricdWaits /\ EnumTypeOK'
      BY <1>2, <1>3, <1>4, <2>1, <2>2
    <2>4. Exchange(Use, GatewayAnswer, <<Gen, AddrInfo(2)>>, Complete, Complete)'
      BY <2>3 DEF Exchange
    <2>5. FetchingClasses'
      BY <1>1, <1>4, <2>3, <2>4 DEF FetchingClasses, SricdWaits
    <2> QED
      BY <2>3, <2>5, WaitingIInv DEF InPhase, SricdWaits
  <1>5. CASE infoAddr = 3 /\ Exchange(Gen, GatewayAnswer, <<AddrInfo(2)>>,
                                      Complete, Complete)
    <2>1. <<AddrInfo(2)>> \in Seq(Command)
      BY <1>3
    <2>2. Complete /\ Process(Gen) => Complete' /\ wire' = wire \o <<GatewayAnswer>>
      BY <1>1, TakesGen
    <2>3. /\ txFrame' = Gen /\ queue' = <<AddrInfo(2)>>
          /\ Complete' /\ wire' \in {<<>>, <<GatewayAnswer>>}
          /\ SricdWaits /\ EnumTypeOK'
      BY <1>2, <1>3, <1>5, <2>1, <2>2
    <2>4. Exchange(Gen, GatewayAnswer, <<AddrInfo(2)>>, Complete, Complete)'
      BY <2>3 DEF Exchange
    <2>5. FetchingClasses'
      BY <1>1, <1>5, <2>3, <2>4 DEF FetchingClasses, SricdWaits
    <2> QED
      BY <2>3, <2>5, WaitingIInv DEF InPhase, SricdWaits
  <1>6. CASE /\ infoAddr \in 3 .. next
             /\ ClassesBelow(infoAddr - 1)
             /\ Exchange(AddrInfo(infoAddr - 1), Answer(infoAddr - 1, infoAddr - 2),
                         <<>>, Complete, Complete)
    <2>1. PICK a \in 2 .. NumDevices + 2 : a = infoAddr - 1
      BY <1>1, <1>6
    <2>2. a < HighAddress /\ a - 1 = infoAddr - 2 /\ <<>> \in Seq(Command)
      BY <1>1, <2>1
    <2>3. wire = <<>> /\ Complete /\ Process(AddrInfo(a)) =>
            Complete' /\ wire' = wire \o <<Answer(a, a - 1)>>
      <3>1. <<>> \o <<Answer(a, a - 1)>> = <<Answer(a, a - 1)>>
        OBVIOUS
      <3> QED
        BY <1>1, <2>2, <3>1, TakesInfo
    <2>4. Exchange(AddrInfo(a), Answer(a, a - 1), <<>>, Complete, Complete)
      BY <1>6, <2>1, <2>2
    <2>5. /\ txFrame' = AddrInfo(a) /\ queue' = <<>>
          /\ Complete' /\ wire' \in {<<>>, <<Answer(a, a - 1)>>}
          /\ SricdWaits /\ EnumTypeOK'
      BY <1>2, <1>3, <2>1, <2>2, <2>3, <2>4
    <2>6. Exchange(AddrInfo(infoAddr - 1), Answer(infoAddr - 1, infoAddr - 2),
                   <<>>, Complete, Complete)'
      BY <2>1, <2>2, <2>5 DEF Exchange, SricdWaits
    <2>7. ClassesBelow(infoAddr - 1)'
      BY <1>6, <2>5 DEF ClassesBelow, SricdWaits
    <2>8. FetchingClasses'
      BY <1>1, <1>6, <2>5, <2>6, <2>7 DEF FetchingClasses, SricdWaits
    <2> QED
      BY <2>5, <2>8, WaitingIInv DEF InPhase, SricdWaits
  <1> QED
    BY <1>1, <1>4, <1>5, <1>6 DEF FetchingClasses

LEMMA SendingIInv ==
  ASSUME IInv, ~LateAnswers, state # "exited", Send \/ Retransmit
  PROVE  IInv'
  <1>1. ~Still
    BY DEF Still, Send, Retransmit
  <1>2. state \notin {"IDLE", "ENUMERATED"}
    BY <1>1 DEF IInv, InPhase, Idle, Enumerated
  <1> QED
    BY <1>2, SendsKillingToken, SendsResetting, SendsEnumerating, SendsSettingAddr,
       SendsAdvancingToken, SendsSettingGwAddr, SendsFetchingClasses
       DEF IInv, EnumTypeOK, States

-----------------------------------------------------------------------------
(* The other steps keep it *)

\* The bus moves no further than its own turns, and an ACK may be lost.
LEMMA StayingIInv ==
  ASSUME IInv, Stays, EnumTypeOK',
         wire' = wire \/ (wire # <<>> /\ wire' = Tail(wire)),
         UNCHANGED <<fsmVars, recvVars, resetCount, txFrame, lostFrames>>
  PROVE  IInv'
  <1> USE DEF fsmVars, recvVars
  <1>1. ASSUME NEW a PROVE Tail(<<a>>) = <<>>
    OBVIOUS
  <1>2. CASE state = "IDLE"
    <2>1. Idle'
      BY <1>2 DEF IInv, InPhase, Idle, Still, Stays
    <2> QED
      BY <1>2, <2>1 DEF IInv, InPhase
  <1>3. CASE state = "KILLING_TOKEN"
    <2>1. KillingToken'
      BY <1>3 DEF IInv, InPhase, KillingToken, Stays
    <2> QED
      BY <1>3, <2>1 DEF IInv, InPhase
  <1>4. CASE state = "RESETTING"
    <2>1. Resetting'
      BY <1>1, <1>4 DEF IInv, InPhase, Resetting, Exchange, Heads, Still, Stays
    <2> QED
      BY <1>4, <2>1 DEF IInv, InPhase
  <1>5. CASE state = "ENUMERATING"
    <2>1. ASSUME Exchange(Gen, GatewayAnswer, <<Req, Have>>, WasReset, Reached(0)),
                 next = 2
          PROVE  Enumerating'
      BY <1>1, <2>1 DEF Enumerating, Exchange, Heads, Stays
    <2>2. ASSUME Exchange(Req, GatewayAnswer, <<Have>>, Reached(0), Stops(0)),
                 next = 2
          PROVE  Enumerating'
      <3>1. Stops(0) => Stops(0)'
        BY OstricAssumption DEF Stays
      <3> QED
        BY <1>1, <2>2, <3>1 DEF Enumerating, Exchange, Heads, Stays
    <2>3. ASSUME NEW k \in 0 .. NumDevices, next = k + 2,
                 Exchange(Have, TokenAnswer(k), <<>>, Stops(k), Stops(k))
          PROVE  Enumerating'
      <3>1. Exchange(Have, TokenAnswer(k), <<>>, Stops(k), Stops(k))'
        BY <1>1, <2>3 DEF Exchange, Heads, Stays
      <3> QED
        BY <2>3, <3>1 DEF Enumerating
    <2>4. Enumerating'
      BY <1>5, <2>1, <2>2, <2>3 DEF IInv, InPhase, Enumerating
    <2> QED
      BY <1>5, <2>4 DEF IInv, InPhase
  <1>6. CASE state = "SETTING_ADDR"
    <2>1. PICK k \in 0 .. NumDevices : SettingAddr(k)
      BY <1>6 DEF IInv, InPhase
    <2>2. k \in 0 .. NumDevices - 1
      BY <2>1, OstricAssumption DEF SettingAddr
    <2>3. SettingAddr(k)'
      BY <1>1, <2>1, <2>2 DEF SettingAddr, Exchange, Heads, Stays
    <2> QED
      BY <1>6, <2>3 DEF IInv, InPhase
  <1>7. CASE state = "ADVANCING_TOKEN"
    <2>1. PICK k \in 0 .. NumDevices : AdvancingToken(k)
      BY <1>7 DEF IInv, InPhase
    <2>2. k \in 0 .. NumDevices - 1 /\ k + 1 \in 0 .. NumDevices
      BY <2>1, OstricAssumption DEF AdvancingToken
    <2>3. AdvancingToken(k)'
      BY <1>1, <2>1, <2>2 DEF AdvancingToken, Exchange, Heads, Stays
    <2> QED
      BY <1>7, <2>3 DEF IInv, InPhase
  <1>8. CASE state = "SETTING_GW_ADDR"
    <2>1. Stops(NumDevices) => Stops(NumDevices)'
      BY OstricAssumption DEF Stays
    <2>2. SettingGwAddr'
      BY <1>1, <1>8, <2>1 DEF IInv, InPhase, SettingGwAddr, Exchange, Heads, Stays
    <2> QED
      BY <1>8, <2>2 DEF IInv, InPhase
  <1>9. CASE state = "FETCHING_CLASSES"
    <2>1. ASSUME NEW c, NEW a, NEW rest, Exchange(c, a, rest, Complete, Complete)
          PROVE  Exchange(c, a, rest, Complete, Complete)'
      BY <1>1, <2>1 DEF Exchange, Heads, Stays
    <2>2. FetchingClasses
      BY <1>9 DEF IInv, InPhase
    <2>3. ASSUME infoAddr = 3,
                 Exchange(Use, GatewayAnswer, <<Gen, AddrInfo(2)>>, Complete, Complete)
          PROVE  FetchingClasses'
      BY <2>1, <2>2, <2>3 DEF FetchingClasses
    <2>4. ASSUME infoAddr = 3,
                 Exchange(Gen, GatewayAnswer, <<AddrInfo(2)>>, Complete, Complete)
          PROVE  FetchingClasses'
      BY <2>1, <2>2, <2>4 DEF FetchingClasses
    <2>5. ASSUME infoAddr \in 3 .. next, ClassesBelow(infoAddr - 1),
                 Exchange(AddrInfo(infoAddr - 1), Answer(infoAddr - 1, infoAddr - 2),
                          <<>>, Complete, Complete)
          PROVE  FetchingClasses'
      <3>1. ClassesBelow(infoAddr - 1)'
        BY <2>5 DEF ClassesBelow
      <3>2. Exchange(AddrInfo(infoAddr - 1), Answer(infoAddr - 1, infoAddr - 2),
                     <<>>, Complete, Complete)'
        BY <2>1, <2>5
      <3> QED
        BY <2>2, <2>5, <3>1, <3>2 DEF FetchingClasses
    <2>6. FetchingClasses'
      BY <2>2, <2>3, <2>4, <2>5 DEF FetchingClasses
    <2> QED
      BY <1>9, <2>6 DEF IInv, InPhase
  <1>10. CASE state = "ENUMERATED"
    <2>1. Enumerated'
      BY <1>10 DEF IInv, InPhase, Enumerated, Still, Stays
    <2> QED
      BY <1>10, <2>1 DEF IInv, InPhase
  <1>11. CASE state = "exited"
    <2>1. Exited'
      BY <1>11 DEF IInv, InPhase, Exited, Still, Stays
    <2> QED
      BY <1>11, <2>1 DEF IInv, InPhase
  <1> QED
    BY <1>2, <1>3, <1>4, <1>5, <1>6, <1>7, <1>8, <1>9, <1>10, <1>11
       DEF IInv, EnumTypeOK, States

LEMMA LoseAnswerIInv ==
  ASSUME IInv, LoseAnswer
  PROVE  IInv'
  <1>1. BusTypeOK'
    BY DEF IInv, EnumTypeOK, LoseAnswer, BusTypeOK
  <1>2. EnumTypeOK'
    BY <1>1, EnumerationAssumption
       DEF IInv, EnumTypeOK, LoseAnswer, fsmVars, recvVars
  <1>3. Stays
    BY UnchangedStays DEF LoseAnswer
  <1> QED
    BY <1>2, <1>3, StayingIInv DEF LoseAnswer

LEMMA IdleTurnIInv ==
  ASSUME IInv, IdleTurn
  PROVE  IInv'
  <1>1. BusTypeOK /\ Turn(dev, gwHas, gwKeep) /\ gwAddr' = gwAddr /\ wire' = wire
    BY DEF IInv, EnumTypeOK, IdleTurn, AdvanceToken
  <1>2. BusTypeOK'
    BY <1>1, BusTypes, BusTypesNext, TurnAt
  <1>3. EnumTypeOK'
    BY <1>2 DEF IInv, EnumTypeOK, IdleTurn, fsmVars, recvVars
  <1>4. Stays
    BY <1>1, TurnStays
  <1> QED
    BY <1>1, <1>3, <1>4, StayingIInv DEF IdleTurn

\* The state decides which part of sric_enum_fsm runs.
LEMMA Reacts ==
  ASSUME NEW ev, <<state, ev>> \in Expects, Fsm(ev)
  PROVE  /\ state = "IDLE" => FsmIdle(ev)
         /\ state = "KILLING_TOKEN" => FsmKillingToken(ev)
         /\ state = "RESETTING" => FsmResetting(ev)
         /\ state = "ENUMERATING" => FsmEnumerating(ev)
         /\ state = "SETTING_GW_ADDR" => FsmSettingGwAddr(ev)
         /\ state = "SETTING_ADDR" => FsmSettingAddr(ev)
         /\ state = "ADVANCING_TOKEN" => FsmAdvancingToken(ev)
         /\ state = "FETCHING_CLASSES" => FsmFetchingClasses(ev)
  BY DEF Fsm, FsmReacts, FsmIdle, FsmKillingToken, FsmResetting, FsmEnumerating,
         FsmSettingGwAddr, FsmSettingAddr, FsmAdvancingToken, FsmFetchingClasses

LEMMA BusVarsTypes ==
  ASSUME BusTypeOK, UNCHANGED busVars
  PROVE  BusTypeOK'
  BY DEF BusTypeOK, busVars

LEMMA StartIInv ==
  ASSUME IInv, Start
  PROVE  IInv'
  <1> USE OstricAssumption, FramesAreCommands
  <1>1. /\ state = "IDLE" /\ FsmIdle("START_ENUM")
        /\ UNCHANGED <<busVars, recvVars, resetCount, txFrame, lostFrames, lostAnswers>>
    BY Reacts DEF Start, Expects
  <1>2. Idle /\ EnumTypeOK /\ BusTypeOK
    BY <1>1 DEF IInv, InPhase, EnumTypeOK
  <1>3. Untouched'
    BY <1>1, <1>2, UnchangedStays DEF Idle, Stays, busVars
  <1>4. queue' = <<TokAdvance(0), TokAdvance(0), Req>> /\ state' = "KILLING_TOKEN"
        /\ txFrame' = NoCommand /\ resetCount' = 0
    BY <1>1, <1>2, Queues DEF FsmIdle, Push, Idle, Still, Req
  <1>5. <<TokAdvance(0), TokAdvance(0), Req>> \in Seq(Command)
    <2>1. TokAdvance(0) \in Command /\ Req \in Command
      OBVIOUS
    <2> QED
      BY <2>1
  <1>6. EnumTypeOK'
    <2>1. BusTypeOK'
      BY <1>1, <1>2, BusVarsTypes
    <2> QED
      BY <1>1, <1>2, <1>4, <1>5, <2>1 DEF EnumTypeOK, FsmIdle, States, recvVars
  <1>7. KillingToken'
    BY <1>3, <1>4 DEF KillingToken
  <1> QED
    BY <1>1, <1>4, <1>6, <1>7 DEF IInv, InPhase, Beginning, FsmIdle

LEMMA KillTokenTimeoutIInv ==
  ASSUME IInv, ~LateAnswers, KillTokenTimeout
  PROVE  IInv'
  <1> USE OstricAssumption, FramesAreCommands
  <1>1. /\ state = "KILLING_TOKEN" /\ FsmKillingToken("TOKEN_CATCH_TIMEOUT")
        /\ UNCHANGED <<busVars, recvVars, resetCount, txFrame, lostFrames, lostAnswers>>
        /\ Still
    <2>1. state = "KILLING_TOKEN"
      BY DEF IInv, KillTokenTimeout
    <2> QED
      BY <2>1, Reacts DEF KillTokenTimeout, Expects, Settled, Still
  <1>2. Untouched /\ resetCount = 0 /\ EnumTypeOK /\ BusTypeOK
    BY <1>1 DEF IInv, InPhase, EnumTypeOK, KillingToken
  <1>3. Untouched' /\ wire' = <<>>
    BY <1>1, <1>2, UnchangedStays DEF Still, Stays, busVars
  <1>4. queue' = <<Use>> /\ state' = "RESETTING"
        /\ txFrame' = NoCommand /\ resetCount' = 0
    BY <1>1, <1>2, Queues DEF FsmKillingToken, Push, Still, Use
  <1>5. EnumTypeOK'
    <2>1. BusTypeOK' /\ <<Use>> \in Seq(Command)
      BY <1>1, <1>2, BusVarsTypes
    <2> QED
      BY <1>1, <1>2, <1>4, <2>1 DEF EnumTypeOK, FsmKillingToken, States, recvVars
  <1>6. Resetting'
    BY <1>3, <1>4, Queues DEF Resetting, Exchange, Heads
  <1> QED
    BY <1>1, <1>4, <1>5, <1>6 DEF IInv, InPhase, Beginning, FsmKillingToken

LEMMA SendResetIInv ==
  ASSUME IInv, ~LateAnswers, SendReset
  PROVE  IInv'
  <1> USE OstricAssumption, FramesAreCommands, EnumerationAssumption
  <1>1. /\ state = "RESETTING" /\ Still /\ EnumTypeOK /\ BusTypeOK /\ Resetting
    BY DEF IInv, InPhase, EnumTypeOK, SendReset, Settled, Still
  <1>2. WasReset \/ (Untouched /\ lostFrames >= resetCount)
    <2>1. Use # NoCommand
      OBVIOUS
    <2>2. <<Reset>> # <<>>
      OBVIOUS
    <2> QED
      BY <1>1, <2>1, <2>2 DEF Resetting, Still, Exchange, Heads
  <1>3. wire' = <<>> /\ (WasReset' \/ (Untouched' /\ lostFrames' >= resetCount' - 1))
    <2>1. lostFrames' = lostFrames /\ resetCount' = resetCount + 1
          /\ resetCount \in Nat /\ lostFrames \in Nat
      BY <1>1 DEF SendReset, EnumTypeOK
    <2>2. Stays /\ wire' = wire
      BY UnchangedStays DEF SendReset, busVars
    <2> QED
      BY <1>1, <1>2, <2>1, <2>2 DEF Stays, Still
  <1>4. queue' = <<Reset>> /\ txFrame' = NoCommand
    BY <1>1, Queues DEF SendReset, Push, Still
  <1>5. EnumTypeOK'
    <2>1. BusTypeOK' /\ <<Reset>> \in Seq(Command)
      BY <1>1, BusVarsTypes DEF SendReset
    <2>2. resetCount' \in 0 .. 6
      BY <1>1 DEF SendReset, EnumTypeOK
    <2> QED
      BY <1>1, <1>4, <2>1, <2>2 DEF EnumTypeOK, SendReset, recvVars
  <1>6. Resetting'
    BY <1>3, <1>4 DEF Resetting
  <1>7. resetCount' <= 5
    BY <1>1 DEF SendReset, EnumTypeOK
  <1> QED
    BY <1>1, <1>5, <1>6, <1>7 DEF IInv, InPhase, Beginning, SendReset

\* Five resets are more than the bus loses: one of them was heard.
LEMMA BusResetIInv ==
  ASSUME IInv, ~LateAnswers, MaxLostFrames < 5, BusReset
  PROVE  IInv'
  <1> USE OstricAssumption, FramesAreCommands, EnumerationAssumption
  <1>1. /\ state = "RESETTING" /\ Still /\ EnumTypeOK /\ BusTypeOK /\ Resetting
        /\ next = 2
    BY DEF IInv, InPhase, EnumTypeOK, BusReset, Settled, Still, Beginning
  <1>2. FsmResetting("BUS_RESET")
        /\ UNCHANGED <<busVars, recvVars, txFrame, lostFrames, lostAnswers>>
    BY <1>1, Reacts DEF BusReset, Expects
  <1>3. WasReset
    <2>1. Use # NoCommand /\ <<Reset>> # <<>>
      OBVIOUS
    <2>2. WasReset \/ (Untouched /\ lostFrames >= resetCount)
      BY <1>1, <2>1 DEF Resetting, Still, Exchange, Heads
    <2>3. resetCount >= 5 /\ resetCount \in Nat /\ lostFrames \in Nat
          /\ lostFrames <= MaxLostFrames /\ MaxLostFrames \in Nat
      BY <1>1 DEF BusReset, EnumTypeOK
    <2> QED
      BY <2>2, <2>3
  <1>4. WasReset' /\ wire' = <<>>
    BY <1>1, <1>2, <1>3, UnchangedStays DEF Still, Stays, busVars
  <1>5. queue' = <<Gen, Req, Have>> /\ txFrame' = NoCommand /\ state' = "ENUMERATING"
        /\ next' = 2
    BY <1>1, <1>2, Queues DEF FsmResetting, Push, Still, Gen, Req, Have
  <1>6. EnumTypeOK'
    <2>1. BusTypeOK'
      BY <1>1, <1>2, BusVarsTypes
    <2>2. <<Gen, Req, Have>> \in Seq(Command)
      <3>1. Gen \in Command /\ Req \in Command /\ Have \in Command
        OBVIOUS
      <3> QED
        BY <3>1
    <2>3. resetCount' \in 0 .. 6
      BY <1>1 DEF IInv, BusReset, EnumTypeOK, Beginning
    <2> QED
      BY <1>1, <1>2, <1>5, <2>1, <2>2, <2>3
         DEF EnumTypeOK, FsmResetting, States, recvVars
  <1>7. Enumerating'
    <2>1. Heads(Gen, <<Req, Have>>)'
      BY <1>5, Queues DEF Heads
    <2> QED
      BY <1>4, <1>5, <2>1 DEF Enumerating, Exchange
  <1> QED
    BY <1>1, <1>2, <1>5, <1>6, <1>7 DEF IInv, InPhase, Beginning, FsmResetting

-----------------------------------------------------------------------------
(* What an ACK does *)

LEMMA AnswerKeepsBus ==
  ASSUME EnumTypeOK, RxAnswer
  PROVE  /\ BusTypeOK' /\ Stays
         /\ txFrame' = NoCommand
         /\ UNCHANGED <<resetCount, lostFrames, lostAnswers>>
  <1>1. BusTypeOK'
    BY DEF EnumTypeOK, RxAnswer, BusTypeOK
  <1> QED
    BY <1>1, UnchangedStays DEF RxAnswer

\* The ACK that an exchange waits for.
LEMMA AnswerTaken ==
  ASSUME RxAnswer, state # "ENUMERATED", NEW c \in Command, NEW a, NEW rest,
         wire = <<>> \/ (txFrame = c /\ queue = rest /\ wire = <<a>>)
  PROVE  /\ queue = rest /\ wire = <<a>> /\ txFrame = c
         /\ wire # <<>> /\ wire' = <<>>
         /\ Record(a) /\ Fsm(EventOf(a))
  <1>1. c # NoCommand
    BY EnumerationAssumption
  <1>2. txFrame = c /\ queue = rest /\ wire = <<a>>
    BY DEF RxAnswer
  <1>3. Head(<<a>>) = a /\ Tail(<<a>>) = <<>>
    OBVIOUS
  <1> QED
    BY <1>1, <1>2, <1>3 DEF RxAnswer

\* An ACK that sric_enum_rx ignores.
LEMMA AnswerIgnored ==
  ASSUME IInv, RxAnswer, NEW a, Record(a), Fsm(EventOf(a)),
         EventOf(a) = "none" \/ (state = "KILLING_TOKEN" /\ EventOf(a) = "NEW_DEV_ACK")
  PROVE  /\ UNCHANGED <<fsmVars, recvVars>>
         /\ InPhase' => IInv'
  <1>1. <<state, EventOf(a)>> \notin Expects
    BY DEF Expects
  <1>2. UNCHANGED <<fsmVars, recvVars>>
    BY <1>1 DEF Fsm, Record, recvVars
  <1>3. EnumTypeOK'
    BY <1>2, AnswerKeepsBus DEF IInv, EnumTypeOK, fsmVars, recvVars
  <1> QED
    BY <1>2, <1>3, AnswerKeepsBus DEF IInv, fsmVars, recvVars

LEMMA AnswerKillingToken ==
  ASSUME IInv, RxAnswer, state = "KILLING_TOKEN"
  PROVE  IInv'
  <1>1. EnumTypeOK /\ KillingToken
    BY DEF IInv, InPhase
  <1>2. UNCHANGED <<fsmVars, recvVars>> /\ (InPhase' => IInv')
    <2>1. CASE txFrame = NoCommand
      <3>1. UNCHANGED <<fsmVars, recvVars>>
        BY <2>1 DEF RxAnswer
      <3>2. EnumTypeOK'
        BY <1>1, <3>1, AnswerKeepsBus DEF EnumTypeOK, fsmVars, recvVars
      <3> QED
        BY <3>1, <3>2, AnswerKeepsBus DEF IInv, fsmVars, recvVars
    <2>2. CASE txFrame # NoCommand
      <3>1. Record(Head(wire)) /\ Fsm(EventOf(Head(wire)))
        BY <2>2 DEF RxAnswer
      <3>2. EventOf(Head(wire)) \in {"none", "NEW_DEV_ACK"}
        BY DEF EventOf
      <3> QED
        BY <3>1, <3>2, AnswerIgnored
    <2> QED
      BY <2>1, <2>2
  <1>3. KillingToken'
    BY <1>1, <1>2, AnswerKeepsBus DEF KillingToken, Stays, fsmVars
  <1> QED
    BY <1>2, <1>3 DEF InPhase, fsmVars

LEMMA AnswerResetting ==
  ASSUME IInv, RxAnswer, state = "RESETTING"
  PROVE  IInv'
  <1>1. EnumTypeOK /\ Resetting /\ next = 2 /\ Use \in Command
    BY FramesAreCommands DEF IInv, InPhase, Beginning
  <1>2. /\ Exchange(Use, GatewayAnswer, <<>>, Untouched, Untouched)
        /\ resetCount = 0
    BY <1>1 DEF Resetting, Still, RxAnswer
  <1>3. /\ queue = <<>> /\ wire' = <<>>
        /\ Record(GatewayAnswer) /\ Fsm(EventOf(GatewayAnswer))
    BY <1>1, <1>2, AnswerTaken DEF Exchange
  <1>4. Untouched
    BY <1>2 DEF Exchange
  <1>5. EventOf(GatewayAnswer) = "none"
    BY <1>1 DEF EventOf, GatewayAnswer, Answer
  <1>6. UNCHANGED <<fsmVars, recvVars>> /\ (InPhase' => IInv')
    BY <1>3, <1>5, AnswerIgnored
  <1>7. Resetting'
    <2>1. lostFrames \in Nat
      BY <1>1 DEF EnumTypeOK
    <2>2. Untouched' /\ Still' /\ lostFrames' >= resetCount'
      <3>1. Untouched' /\ txFrame' = NoCommand
            /\ resetCount' = resetCount /\ lostFrames' = lostFrames
        BY <1>1, <1>4, AnswerKeepsBus DEF Stays
      <3> QED
        BY <1>2, <1>3, <1>6, <2>1, <3>1 DEF Still, fsmVars
    <2> QED
      BY <2>2 DEF Resetting
  <1> QED
    BY <1>6, <1>7 DEF InPhase, fsmVars

\* The token is told to be at a device, or at the gateway.
LEMMA AnswerEnumerating ==
  ASSUME IInv, RxAnswer, state = "ENUMERATING"
  PROVE  IInv'
  <1> USE OstricAssumption
  <1>1. EnumTypeOK /\ Enumerating /\ {Gen, Req, Have} \subseteq Command
    BY FramesAreCommands DEF IInv, InPhase
  <1>2. EventOf(GatewayAnswer) = "none"
    BY DEF EventOf, GatewayAnswer, Answer
  <1>3. CASE Exchange(Gen, GatewayAnswer, <<Req, Have>>, WasReset, Reached(0))
             /\ next = 2
    <2>1. /\ queue = <<Req, Have>> /\ wire' = <<>> /\ Reached(0)
          /\ Record(GatewayAnswer) /\ Fsm(EventOf(GatewayAnswer))
      BY <1>1, <1>3, AnswerTaken DEF Exchange
    <2>2. UNCHANGED <<fsmVars, recvVars>> /\ (InPhase' => IInv')
      BY <1>2, <2>1, AnswerIgnored
    <2>3. Heads(Req, <<Have>>)'
      BY <2>1, <2>2, Queues DEF Heads, fsmVars
    <2>4. Enumerating'
      BY <1>1, <1>3, <2>1, <2>2, <2>3, AnswerKeepsBus
         DEF Enumerating, Exchange, Stays, fsmVars
    <2> QED
      BY <2>2, <2>4 DEF InPhase, fsmVars
  <1>4. CASE Exchange(Req, GatewayAnswer, <<Have>>, Reached(0), Stops(0))
             /\ next = 2
    <2>1. /\ queue = <<Have>> /\ wire' = <<>> /\ Stops(0)
          /\ Record(GatewayAnswer) /\ Fsm(EventOf(GatewayAnswer))
      BY <1>1, <1>4, AnswerTaken DEF Exchange
    <2>2. UNCHANGED <<fsmVars, recvVars>> /\ (InPhase' => IInv')
      BY <1>2, <2>1, AnswerIgnored
    <2>3. Heads(Have, <<>>)'
      BY <2>1, <2>2, Queues DEF Heads, fsmVars
    <2>4. PICK k \in 0 .. NumDevices : k = 0
      OBVIOUS
    <2>5. Stops(k)' /\ next' = k + 2
      BY <1>1, <1>4, <2>1, <2>2, <2>4, AnswerKeepsBus DEF Stays, fsmVars
    <2>6. Exchange(Have, TokenAnswer(k), <<>>, Stops(k), Stops(k))'
      BY <1>1, <2>1, <2>3, <2>5, AnswerKeepsBus DEF Exchange
    <2>7. Enumerating'
      BY <2>5, <2>6 DEF Enumerating
    <2> QED
      BY <2>2, <2>7 DEF InPhase, fsmVars
  <1>5. ASSUME NEW k \in 0 .. NumDevices, next = k + 2,
               Exchange(Have, TokenAnswer(k), <<>>, Stops(k), Stops(k))
        PROVE  IInv'
    <2>1. /\ queue = <<>> /\ wire' = <<>> /\ Stops(k)
          /\ Record(TokenAnswer(k)) /\ Fsm(EventOf(TokenAnswer(k)))
      BY <1>1, <1>5, AnswerTaken DEF Exchange
    <2>2. EventOf(TokenAnswer(k)) = IF k = NumDevices THEN "TOK_AT_GW"
                                                      ELSE "DEV_PRESENT"
      BY DEF EventOf, TokenAnswer, Answer
    <2>3. FsmEnumerating(EventOf(TokenAnswer(k))) /\ UNCHANGED recvVars
      BY <2>1, <2>2, Reacts DEF Expects, Record, recvVars
    <2>4. /\ Stops(k)' /\ BusTypeOK' /\ next' = next /\ txFrame' = NoCommand
          /\ wire' = <<>>
      BY <1>1, <2>1, <2>3, AnswerKeepsBus DEF Stays, FsmEnumerating
    <2>5. CASE next >= HighAddress
      <3>1. state' = "exited" /\ queue' = <<>>
        BY <2>1, <2>3, <2>5 DEF FsmEnumerating
      <3>2. EnumTypeOK'
        BY <1>1, <2>3, <2>4, <3>1, AnswerKeepsBus
           DEF EnumTypeOK, FsmEnumerating, recvVars, States
      <3>3. Exited'
        BY <1>5, <2>4, <3>1 DEF Exited, Still
      <3> QED
        BY <2>3, <3>1, <3>2, <3>3 DEF IInv, InPhase, Beginning, FsmEnumerating
    <2>6. CASE ~(next >= HighAddress)
      <3>1. /\ queue' = <<Address(next)>>
            /\ state' = IF k = NumDevices THEN "SETTING_GW_ADDR" ELSE "SETTING_ADDR"
        BY <2>1, <2>2, <2>3, <2>6, Queues DEF FsmEnumerating, Push
      <3>2. next < HighAddress /\ next \in 0 .. HighAddress
        BY <1>1, <2>6 DEF EnumTypeOK
      <3>3. Heads(Address(next), <<>>)' /\ <<Address(next)>> \in Seq(Command)
        BY <2>4, <3>1, <3>2, Queues, FramesAreCommands DEF Heads
      <3>4. EnumTypeOK'
        BY <1>1, <2>3, <2>4, <3>1, <3>3, AnswerKeepsBus
           DEF EnumTypeOK, FsmEnumerating, recvVars, States
      <3>5. CASE k = NumDevices
        <4>1. SettingGwAddr'
          BY <1>5, <2>4, <3>2, <3>3, <3>5 DEF SettingGwAddr, Exchange
        <4> QED
          BY <2>3, <3>1, <3>4, <3>5, <4>1 DEF IInv, InPhase, Beginning, FsmEnumerating
      <3>6. CASE k # NumDevices
        <4>1. SettingAddr(k)'
          BY <1>5, <2>4, <3>2, <3>3, <3>6 DEF SettingAddr, Exchange
        <4> QED
          BY <2>3, <3>1, <3>4, <3>6, <4>1 DEF IInv, InPhase, Beginning, FsmEnumerating
      <3> QED
        BY <3>5, <3>6
    <2> QED
      BY <2>5, <2>6
  <1> QED
    BY <1>1, <1>3, <1>4, <1>5 DEF Enumerating

LEMMA AnswerSettingAddr ==
  ASSUME IInv, RxAnswer, state = "SETTING_ADDR"
  PROVE  IInv'
  <1> USE OstricAssumption
  <1>1. PICK k \in 0 .. NumDevices : SettingAddr(k)
    BY DEF IInv, InPhase
  <1>2. EnumTypeOK /\ next = k + 2 /\ next < HighAddress /\ k < NumDevices
        /\ k \in 0 .. NumDevices - 1
        /\ Exchange(Address(next), Answer(next, NoData), <<>>, Stops(k), Taken(k))
        /\ Address(next) \in Command /\ TokAdvance(next) \in Command
    BY <1>1, FramesAreCommands DEF IInv, EnumTypeOK, SettingAddr
  <1>3. /\ queue = <<>> /\ wire' = <<>> /\ Taken(k)
        /\ Record(Answer(next, NoData)) /\ Fsm(EventOf(Answer(next, NoData)))
    BY <1>2, AnswerTaken DEF Exchange
  <1>4. EventOf(Answer(next, NoData)) = "NEW_DEV_ACK"
    BY DEF EventOf, Answer
  <1>5. FsmSettingAddr("NEW_DEV_ACK") /\ UNCHANGED recvVars
    BY <1>3, <1>4, Reacts DEF Expects, Record, recvVars
  <1>6. queue' = <<TokAdvance(next)>> /\ state' = "ADVANCING_TOKEN" /\ next' = next
    BY <1>3, <1>5, Queues DEF FsmSettingAddr, Push
  <1>7. Heads(TokAdvance(next), <<>>)' /\ <<TokAdvance(next)>> \in Seq(Command)
    BY <1>2, <1>6, Queues DEF Heads
  <1>8. EnumTypeOK'
    BY <1>2, <1>5, <1>6, <1>7, AnswerKeepsBus
       DEF EnumTypeOK, FsmSettingAddr, recvVars, States
  <1>9. Taken(k)' /\ txFrame' = NoCommand
    BY <1>2, <1>3, AnswerKeepsBus DEF Stays
  <1>10. AdvancingToken(k)'
    BY <1>2, <1>3, <1>6, <1>7, <1>9 DEF AdvancingToken, Exchange
  <1> QED
    BY <1>5, <1>6, <1>8, <1>10 DEF IInv, InPhase, Beginning, FsmSettingAddr

LEMMA AnswerAdvancingToken ==
  ASSUME IInv, RxAnswer, state = "ADVANCING_TOKEN"
  PROVE  IInv'
  <1> USE OstricAssumption
  <1>1. PICK k \in 0 .. NumDevices : AdvancingToken(k)
    BY DEF IInv, InPhase
  <1>2. PICK j \in 0 .. NumDevices : j = k + 1
    BY <1>1 DEF AdvancingToken
  <1>3. EnumTypeOK /\ next = k + 2 /\ next < HighAddress /\ next \in 2 .. HighAddress
        /\ Exchange(TokAdvance(next), Answer(next, NoData), <<>>, Taken(k), Stops(j))
        /\ TokAdvance(next) \in Command /\ Have \in Command
    BY <1>1, <1>2, FramesAreCommands, SMTT(30) DEF IInv, EnumTypeOK, AdvancingToken
  <1>4. /\ queue = <<>> /\ wire' = <<>> /\ Stops(j)
        /\ Record(Answer(next, NoData)) /\ Fsm(EventOf(Answer(next, NoData)))
    BY <1>3, AnswerTaken DEF Exchange
  <1>5. EventOf(Answer(next, NoData)) = "NEW_DEV_ACK"
    BY DEF EventOf, Answer
  <1>6. FsmAdvancingToken("NEW_DEV_ACK") /\ UNCHANGED recvVars
    BY <1>4, <1>5, Reacts DEF Expects, Record, recvVars
  <1>7. queue' = <<Have>> /\ state' = "ENUMERATING" /\ next' = next + 1
    BY <1>4, <1>6, Queues DEF FsmAdvancingToken, Push, Have
  <1>8. Heads(Have, <<>>)' /\ <<Have>> \in Seq(Command) /\ next' \in 2 .. HighAddress
    BY <1>3, <1>7, Queues DEF Heads
  <1>9. EnumTypeOK'
    BY <1>3, <1>6, <1>7, <1>8, AnswerKeepsBus
       DEF EnumTypeOK, FsmAdvancingToken, recvVars, States
  <1>10. Stops(j)' /\ txFrame' = NoCommand
    BY <1>3, <1>4, AnswerKeepsBus DEF Stays
  <1>11. Exchange(Have, TokenAnswer(j), <<>>, Stops(j), Stops(j))' /\ next' = j + 2
    BY <1>2, <1>3, <1>4, <1>7, <1>8, <1>10 DEF Exchange
  <1>12. Enumerating'
    BY <1>11 DEF Enumerating
  <1> QED
    BY <1>6, <1>7, <1>9, <1>12 DEF IInv, InPhase, Beginning, FsmAdvancingToken

LEMMA AnswerSettingGwAddr ==
  ASSUME IInv, RxAnswer, state = "SETTING_GW_ADDR"
  PROVE  IInv'
  <1> USE OstricAssumption
  <1>1. EnumTypeOK /\ next = NumDevices + 2 /\ next < HighAddress
        /\ next \in 2 .. HighAddress
        /\ Exchange(Address(next), Answer(next, NoData), <<>>,
                    Stops(NumDevices), Complete)
        /\ Address(next) \in Command
        /\ {Use, Gen, AddrInfo(2)} \subseteq Command
    BY FramesAreCommands DEF IInv, InPhase, EnumTypeOK, SettingGwAddr
  <1>2. /\ queue = <<>> /\ wire' = <<>> /\ Complete
        /\ Record(Answer(next, NoData)) /\ Fsm(EventOf(Answer(next, NoData)))
    BY <1>1, AnswerTaken DEF Exchange
  <1>3. EventOf(Answer(next, NoData)) = "NEW_DEV_ACK"
    BY DEF EventOf, Answer
  <1>4. FsmSettingGwAddr("NEW_DEV_ACK") /\ replied' = {} /\ classes' = classes
    BY <1>2, <1>3, Reacts DEF Expects, Record
  <1>5. /\ queue' = <<Use, Gen, AddrInfo(2)>> /\ state' = "FETCHING_CLASSES"
        /\ next' = next + 1 /\ infoAddr' = 3 /\ known' = known
    BY <1>2, <1>4, Queues DEF FsmSettingGwAddr, Push, Use, Gen
  <1>6. /\ Heads(Use, <<Gen, AddrInfo(2)>>)'
        /\ <<Use, Gen, AddrInfo(2)>> \in Seq(Command)
        /\ next' \in 2 .. HighAddress /\ infoAddr' \in 2 .. HighAddress
    <2>1. <<Use, Gen, AddrInfo(2)>> \in Seq(Command)
      <3>1. Use \in Command /\ Gen \in Command /\ AddrInfo(2) \in Command
        BY <1>1
      <3> QED
        BY <3>1
    <2> QED
      BY <1>1, <1>5, <2>1, Queues DEF Heads
  <1>7. EnumTypeOK'
    BY <1>1, <1>4, <1>5, <1>6, AnswerKeepsBus
       DEF EnumTypeOK, FsmSettingGwAddr, States
  <1>8. Complete' /\ txFrame' = NoCommand
    BY <1>1, <1>2, AnswerKeepsBus DEF Stays
  <1>9. Exchange(Use, GatewayAnswer, <<Gen, AddrInfo(2)>>, Complete, Complete)'
    BY <1>2, <1>6, <1>8 DEF Exchange
  <1>10. FetchingClasses'
    BY <1>1, <1>5, <1>9 DEF FetchingClasses, IInv
  <1> QED
    BY <1>4, <1>5, <1>7, <1>10 DEF IInv, InPhase, Beginning, FsmSettingGwAddr

\* The class of one more address is known; with the last one, all are.
LEMMA AnswerFetchingClasses ==
  ASSUME IInv, RxAnswer, state = "FETCHING_CLASSES"
  PROVE  IInv'
  <1> USE OstricAssumption
  <1>1. /\ EnumTypeOK /\ FetchingClasses /\ infoAddr \in 2 .. HighAddress
        /\ next = NumDevices + 3 /\ next <= HighAddress
        /\ {Use, Gen, AddrInfo(2)} \subseteq Command
    BY FramesAreCommands DEF IInv, InPhase, EnumTypeOK, FetchingClasses
  <1>2. EventOf(GatewayAnswer) = "none"
    <2>1. next # 1
      BY <1>1
    <2> QED
      BY <2>1 DEF EventOf, GatewayAnswer, Answer
  <1>3. CASE infoAddr = 3 /\ Exchange(Use, GatewayAnswer, <<Gen, AddrInfo(2)>>,
                                      Complete, Complete)
    <2>1. /\ queue = <<Gen, AddrInfo(2)>> /\ wire' = <<>> /\ Complete
          /\ Record(GatewayAnswer) /\ Fsm(EventOf(GatewayAnswer))
      BY <1>1, <1>3, AnswerTaken DEF Exchange
    <2>2. UNCHANGED <<fsmVars, recvVars>> /\ (InPhase' => IInv')
      BY <1>2, <2>1, AnswerIgnored
    <2>3. Heads(Gen, <<AddrInfo(2)>>)'
      BY <2>1, <2>2, Queues DEF Heads, fsmVars
    <2>4. Exchange(Gen, GatewayAnswer, <<AddrInfo(2)>>, Complete, Complete)'
      BY <1>1, <2>1, <2>3, AnswerKeepsBus DEF Exchange, Stays
    <2>5. FetchingClasses'
      BY <1>1, <1>3, <2>2, <2>4 DEF FetchingClasses, fsmVars
    <2> QED
      BY <2>2, <2>5 DEF InPhase, fsmVars
  <1>4. CASE infoAddr = 3 /\ Exchange(Gen, GatewayAnswer, <<AddrInfo(2)>>,
                                      Complete, Complete)
    <2>1. /\ queue = <<AddrInfo(2)>> /\ wire' = <<>> /\ Complete
          /\ Record(GatewayAnswer) /\ Fsm(EventOf(GatewayAnswer))
      BY <1>1, <1>4, AnswerTaken DEF Exchange
    <2>2. UNCHANGED <<fsmVars, recvVars>> /\ (InPhase' => IInv')
      BY <1>2, <2>1, AnswerIgnored
    <2>3. infoAddr' = 3 /\ infoAddr' - 1 = 2 /\ infoAddr' - 2 = 1
          /\ next' = next /\ known' = known
      BY <1>4, <2>2 DEF fsmVars
    <2>4. Heads(AddrInfo(2), <<>>)'
      BY <2>1, <2>2, Queues DEF Heads, fsmVars
    <2>5. Exchange(AddrInfo(2), Answer(2, 1), <<>>, Complete, Complete)'
      BY <1>1, <2>1, <2>4, AnswerKeepsBus DEF Exchange, Stays
    <2>6. ClassesBelow(infoAddr - 1)'
      BY <2>3 DEF ClassesBelow
    <2>7. FetchingClasses'
      <3>1. infoAddr' \in 3 .. next'
        BY <1>1, <2>3
      <3>2. Exchange(AddrInfo(infoAddr - 1), Answer(infoAddr - 1, infoAddr - 2),
                     <<>>, Complete, Complete)'
        BY <2>3, <2>5
      <3> QED
        BY <1>1, <2>3, <2>6, <3>1, <3>2 DEF FetchingClasses
    <2> QED
      BY <2>2, <2>7 DEF InPhase, fsmVars
  <1>5. CASE /\ infoAddr \in 3 .. next
             /\ ClassesBelow(infoAddr - 1)
             /\ Exchange(AddrInfo(infoAddr - 1), Answer(infoAddr - 1, infoAddr - 2),
                         <<>>, Complete, Complete)
    <2>1. PICK a \in 2 .. NumDevices + 2 : a = infoAddr - 1
      BY <1>1, <1>5
    <2>2. /\ a < HighAddress /\ a - 1 = infoAddr - 2 /\ a # next
          /\ a \in 0 .. HighAddress - 1 /\ a - 1 \in 0 .. GatewayClass
          /\ a - 1 # NoData /\ AddrInfo(a) \in Command
      BY <1>1, <2>1, FramesAreCommands DEF GatewayClass
    <2> DEFINE ack == Answer(a, a - 1)
    <2>3. /\ queue = <<>> /\ wire' = <<>> /\ Complete
          /\ Record(ack) /\ Fsm(EventOf(ack))
      <3>1. Exchange(AddrInfo(a), ack, <<>>, Complete, Complete)
        BY <1>5, <2>1, <2>2
      <3> HIDE DEF ack
      <3> QED
        BY <2>2, <3>1, AnswerTaken DEF Exchange
    <2>4. EventOf(ack) = "ADDR_INFO_ACK"
      BY <2>2 DEF EventOf, Answer
    <2>5. /\ FsmFetchingClasses("ADDR_INFO_ACK")
          /\ replied' = replied \cup {a}
          /\ classes' = [classes EXCEPT ![a] = a - 1]
      BY <2>3, <2>4, Reacts DEF Expects, Record, Answer
    <2>6. classes \in [0 .. HighAddress - 1 -> 0 .. GatewayClass]
          /\ replied \subseteq 0 .. HighAddress - 1
          /\ known \in [0 .. HighAddress - 1 -> {NoData} \cup 0 .. GatewayClass]
      BY <1>1 DEF EnumTypeOK
    <2>7. /\ classes' \in [0 .. HighAddress - 1 -> 0 .. GatewayClass]
          /\ replied' \subseteq 0 .. HighAddress - 1
      BY <2>2, <2>5, <2>6
    <2>8. /\ 2 .. a \subseteq replied'
          /\ \A b \in 2 .. a : classes'[b] = b - 1
      <3>1. 2 .. a - 1 \subseteq replied /\ \A b \in 2 .. a - 1 : classes[b] = b - 1
        BY <1>5, <2>1 DEF ClassesBelow
      <3>2. \A b \in 2 .. a : b = a \/ b \in 2 .. a - 1
        OBVIOUS
      <3>3. 2 .. a \subseteq 0 .. HighAddress - 1
        BY <2>2
      <3> QED
        BY <2>5, <2>6, <3>1, <3>2, <3>3
    <2>9. /\ BusTypeOK' /\ Complete' /\ txFrame' = NoCommand /\ next' = next
      BY <1>1, <2>3, <2>5, AnswerKeepsBus DEF Stays, FsmFetchingClasses
    <2>10. CASE infoAddr = next
      <3>1. /\ known' = [b \in DOMAIN known |->
                           IF b \in 2 .. next - 1 THEN classes'[b] ELSE known[b]]
            /\ state' = "ENUMERATED" /\ queue' = <<>> /\ infoAddr' = infoAddr
        BY <2>3, <2>5, <2>10 DEF FsmFetchingClasses
      <3>2. a = next - 1 /\ 2 .. next - 1 \subseteq 0 .. HighAddress - 1
        BY <1>1, <2>1, <2>10
      <3>3. known' = [b \in 0 .. HighAddress - 1 |->
                        IF b \in 2 .. next - 1 THEN b - 1 ELSE NoData]
        BY <1>1, <2>6, <2>8, <3>1, <3>2 DEF FetchingClasses
      <3>4. known' \in [0 .. HighAddress - 1 -> {NoData} \cup 0 .. GatewayClass]
        BY <2>6, <2>7, <3>1, <3>2
      <3>5. EnumTypeOK'
        BY <1>1, <2>5, <2>7, <2>9, <3>1, <3>4, AnswerKeepsBus
           DEF EnumTypeOK, FsmFetchingClasses, States
      <3>6. Enumerated'
        BY <1>1, <2>3, <2>8, <2>9, <3>1, <3>2, <3>3 DEF Enumerated, Still
      <3> QED
        BY <2>5, <3>1, <3>5, <3>6 DEF IInv, InPhase, Beginning, FsmFetchingClasses
    <2>11. CASE infoAddr # next
      <3>1. /\ queue' = <<AddrInfo(infoAddr)>> /\ infoAddr' = infoAddr + 1
            /\ known' = known /\ state' = "FETCHING_CLASSES"
        BY <2>3, <2>5, <2>11, Queues DEF FsmFetchingClasses, Push
      <3>2. /\ infoAddr' \in 3 .. next /\ infoAddr' \in 2 .. HighAddress
            /\ infoAddr' - 1 = infoAddr /\ infoAddr' - 2 = infoAddr - 1
            /\ infoAddr - 1 = a
            /\ AddrInfo(infoAddr) \in Command
        BY <1>1, <1>5, <2>1, <2>11, <3>1, FramesAreCommands
      <3>3. /\ Heads(AddrInfo(infoAddr - 1), <<>>)'
            /\ <<AddrInfo(infoAddr)>> \in Seq(Command)
        BY <3>1, <3>2, Queues DEF Heads
      <3>4. EnumTypeOK'
        BY <1>1, <2>5, <2>7, <2>9, <3>1, <3>2, <3>3, AnswerKeepsBus
           DEF EnumTypeOK, FsmFetchingClasses, States
      <3>5. ClassesBelow(infoAddr - 1)'
        BY <2>8, <3>2 DEF ClassesBelow
      <3>6. Exchange(AddrInfo(infoAddr - 1), Answer(infoAddr - 1, infoAddr - 2),
                     <<>>, Complete, Complete)'
        BY <2>3, <2>9, <3>2, <3>3 DEF Exchange, Heads
      <3>7. FetchingClasses'
        BY <1>1, <2>9, <3>1, <3>2, <3>5, <3>6 DEF FetchingClasses
      <3> QED
        BY <2>5, <3>1, <3>4, <3>7 DEF IInv, InPhase, Beginning, FsmFetchingClasses
    <2> QED
      BY <2>10, <2>11
  <1> QED
    BY <1>1, <1>3, <1>4, <1>5 DEF FetchingClasses

LEMMA RxAnswerIInv ==
  ASSUME IInv, RxAnswer
  PROVE  IInv'
  <1>1. ~Still
    BY DEF Still, RxAnswer
  <1>2. state \notin {"IDLE", "ENUMERATED", "exited"}
    BY <1>1 DEF IInv, InPhase, Idle, Enumerated, Exited
  <1> QED
    BY <1>2, AnswerKillingToken, AnswerResetting, AnswerEnumerating,
       AnswerSettingAddr, AnswerAdvancingToken, AnswerSettingGwAddr,
       AnswerFetchingClasses DEF IInv, EnumTypeOK, States

-----------------------------------------------------------------------------

LEMMA InitIInv == EnumInit => IInv
  <1> SUFFICES ASSUME EnumInit PROVE IInv
    OBVIOUS
  <1> USE OstricAssumption, EnumerationAssumption DEF EnumInit
  <1>1. Untouched /\ dev \in Ring /\ gwHas \in BOOLEAN /\ gwKeep \in BOOLEAN
        /\ gwAddr \in Addresses \cup {NoAddr}
    <2>1. CASE /\ dev = [d \in Devices |->
                          [address |-> NoAddr, has |-> FALSE, keep |-> FALSE]]
               /\ gwHas = FALSE
               /\ gwAddr = NoAddr
      BY <2>1 DEF BusInit, Untouched, Ring, Device
    <2>2. ASSUME NEW h \in 0 .. NumDevices,
                 NumDevices + 2 \in Addresses,
                 dev = [d \in Devices |->
                          [address |-> d + 1, has |-> d = h, keep |-> FALSE]],
                 gwHas = (h = 0),
                 gwAddr = NumDevices + 2
          PROVE  Untouched /\ dev \in Ring /\ gwHas \in BOOLEAN
                 /\ gwKeep \in BOOLEAN /\ gwAddr \in Addresses \cup {NoAddr}
      <3>1. \A d \in Devices : d + 1 \in Addresses /\ (d = h) \in BOOLEAN
        BY <2>2 DEF Devices, Addresses
      <3>2. dev \in Ring
        BY <2>2, <3>1 DEF Ring, Device
      <3>3. gwHas \in BOOLEAN /\ gwKeep \in BOOLEAN
        BY <2>2 DEF BusInit
      <3>4. \A d \in Devices : dev[d].address = d + 1
        BY <2>2
      <3> QED
        BY <2>2, <3>2, <3>3, <3>4 DEF Untouched
    <2> QED
      BY <2>1, <2>2 DEF BusInit
  <1>2. BusTypeOK
    BY <1>1, BusTypes DEF BusInit
  <1>3. EnumTypeOK
    <2>1. classes \in [0 .. HighAddress - 1 -> 0 .. GatewayClass]
      BY DEF GatewayClass
    <2> QED
      BY <1>2, <2>1 DEF EnumTypeOK, States
  <1>4. Idle
    BY <1>1 DEF Idle, Still, BusInit
  <1> QED
    BY <1>3, <1>4 DEF IInv, InPhase, Beginning

\* On a timely bus that loses less than five frames, every step of sricd and
\* of the bus keeps the invariant.
LEMMA NextIInv ==
  ASSUME ~LateAnswers, MaxLostFrames < 5, IInv, [EnumNext]_vars
  PROVE  IInv'
  <1>1. CASE EnumNext
    BY <1>1, StartIInv, KillTokenTimeoutIInv, SendResetIInv, BusResetIInv,
       SendingIInv, RxAnswerIInv, LoseAnswerIInv, IdleTurnIInv
       DEF EnumNext, Running
  <1>2. CASE UNCHANGED vars
    <2>1. Stays
      BY <1>2, UnchangedStays DEF vars, busVars
    <2>2. EnumTypeOK'
      BY <1>2 DEF IInv, EnumTypeOK, BusTypeOK, vars, busVars, fsmVars, recvVars
    <2> QED
      BY <1>2, <2>1, <2>2, StayingIInv DEF vars, busVars
  <1> QED
    BY <1>1, <1>2

-----------------------------------------------------------------------------
(* Theorems about a timely bus that loses less than five frames *)

\* What sricd knows of the bus in each state of sric-enum.c, and what is on its
\* way between them.
THEOREM Invariant ==
  ASSUME ~LateAnswers, MaxLostFrames < 5
  PROVE  EnumSpec => []IInv
  BY InitIInv, NextIInv, PTL DEF EnumSpec

\* No two devices, nor a device and the gateway, answer to one address,
\* whatever frames and ACKs of generic.c and cmds.c the bus loses.
THEOREM AddressesUnique ==
  ASSUME ~LateAnswers, MaxLostFrames < 5
  PROVE  EnumSpec => []UniqueAddresses
  <1> USE OstricAssumption
  <1>1. ASSUME IInv PROVE UniqueAddresses
    <2>1. \A d \in Devices : d + 1 # NoAddr /\ d + 1 # NumDevices + 2
                             /\ NumDevices + 2 # NoAddr
      BY DEF Devices
    <2>2. ASSUME Untouched \/ Complete PROVE UniqueAddresses
      BY <2>1, <2>2 DEF Untouched, Complete, UniqueAddresses, Devices
    <2>3. WasReset => UniqueAddresses
      BY DEF WasReset, UniqueAddresses
    <2>4. \A k \in 0 .. NumDevices : Reached(k) \/ Taken(k) => UniqueAddresses
      BY DEF Reached, Taken, UniqueAddresses, Devices
    <2>5. \A k \in 0 .. NumDevices : Stops(k) => UniqueAddresses
      BY <2>4 DEF Stops
    <2>6. \A k \in 0 .. NumDevices : k < NumDevices => k + 1 \in 0 .. NumDevices
      OBVIOUS
    <2>7. 0 \in 0 .. NumDevices /\ NumDevices \in 0 .. NumDevices
      OBVIOUS
    <2>8. ASSUME NEW k \in 0 .. NumDevices
          PROVE  SettingAddr(k) \/ AdvancingToken(k) => UniqueAddresses
      BY <2>4, <2>5, <2>6 DEF SettingAddr, AdvancingToken, Exchange
    <2>9. Enumerating \/ SettingGwAddr \/ Exited => UniqueAddresses
      BY <2>2, <2>3, <2>4, <2>5, <2>7 DEF Enumerating, SettingGwAddr, Exited, Exchange
    <2>10. Idle \/ KillingToken \/ Resetting \/ FetchingClasses \/ Enumerated
             => UniqueAddresses
      BY <2>2, <2>3 DEF Idle, KillingToken, Resetting, FetchingClasses, Enumerated,
                        Exchange
    <2> QED
      BY <1>1, <2>8, <2>9, <2>10 DEF IInv, InPhase
  <1> QED
    BY <1>1, Invariant, PTL

\* No frame of enumeration is left when ACKs start to go to clients.
THEOREM EnumerationLeavesNothing ==
  ASSUME ~LateAnswers, MaxLostFrames < 5
  PROVE  EnumSpec => []QuietWhenEnumerated
  <1>1. IInv => QuietWhenEnumerated
    BY DEF IInv, InPhase, Enumerated, Still, QuietWhenEnumerated
  <1> QED
    BY <1>1, Invariant, PTL

\* Every address given out has told its class when enumeration ends.
THEOREM AllAcksCaught ==
  ASSUME ~LateAnswers, MaxLostFrames < 5
  PROVE  EnumSpec => []CaughtAllAcks
  <1>1. IInv => CaughtAllAcks
    BY DEF IInv, InPhase, Enumerated, CaughtAllAcks
  <1> QED
    BY <1>1, Invariant, PTL

\* The token stopped at every device of the ring, and at the gateway.
THEOREM NobodyLeftOut ==
  ASSUME ~LateAnswers, MaxLostFrames < 5
  PROVE  EnumSpec => []EveryoneAddressed
  <1>1. ASSUME IInv PROVE EveryoneAddressed
    <2>1. state = "ENUMERATED" => Complete
      BY <1>1 DEF IInv, InPhase, Enumerated
    <2>2. \A d \in Devices : d + 1 # NoAddr
      BY OstricAssumption DEF Devices
    <2>3. NumDevices + 2 # NoAddr
      BY OstricAssumption
    <2> QED
      BY <2>1, <2>2, <2>3 DEF Complete, EveryoneAddressed
  <1> QED
    BY <1>1, Invariant, PTL

\* device_exists and device_type say of each address what is on the bus there.
THEOREM BusIsKnown ==
  ASSUME ~LateAnswers, MaxLostFrames < 5
  PROVE  EnumSpec => []BusKnown
  <1> USE OstricAssumption
  <1>1. ASSUME IInv, state = "ENUMERATED", NEW a \in Addresses
        PROVE  known[a] = IF a = gwAddr THEN GatewayClass
                          ELSE IF \E d \in Devices : dev[d].address = a
                            THEN Class(CHOOSE d \in Devices : dev[d].address = a)
                          ELSE NoData
    <2>1. /\ gwAddr = NumDevices + 2 /\ \A d \in Devices : dev[d].address = d + 1
          /\ next = NumDevices + 3
          /\ known = [b \in 0 .. HighAddress - 1 |->
                        IF b \in 2 .. next - 1 THEN b - 1 ELSE NoData]
      BY <1>1 DEF IInv, InPhase, Enumerated, Complete
    <2>2. known[a] = IF a \in 2 .. NumDevices + 2 THEN a - 1 ELSE NoData
      BY <2>1 DEF Addresses
    <2>3. CASE a = NumDevices + 2
      BY <2>1, <2>2, <2>3 DEF GatewayClass
    <2>4. CASE a \in 2 .. NumDevices + 1
      <3>1. a - 1 \in Devices
        BY <2>4 DEF Devices
      <3>2. \A d \in Devices : dev[d].address = a <=> d = a - 1
        BY <2>1, <2>4 DEF Devices
      <3>3. (CHOOSE d \in Devices : dev[d].address = a) = a - 1
        BY <3>1, <3>2
      <3>4. a # gwAddr
        BY <2>1, <2>4
      <3> QED
        BY <2>2, <2>4, <3>1, <3>2, <3>3, <3>4 DEF Class
    <2>5. CASE a \notin 2 .. NumDevices + 2
      <3>1. \A d \in Devices : dev[d].address # a
        BY <2>1, <2>5 DEF Devices
      <3> QED
        BY <2>1, <2>2, <2>5, <3>1
    <2> QED
      BY <2>3, <2>4, <2>5
  <1>2. IInv => BusKnown
    BY <1>1 DEF BusKnown
  <1> QED
    BY <1>2, Invariant, PTL

-----------------------------------------------------------------------------
(* Type correctness on any bus, however late its ACKs are *)

\* What is sent gives out addresses of the address space.
SafeCommand == {c \in Command : c.cmd = "ADDR_ASSIGN" => c.arg \in Addresses}

TInv ==
  /\ EnumTypeOK
  /\ queue \in Seq(SafeCommand)
  /\ txFrame \in SafeCommand \cup {NoCommand}
  /\ state \in {"SETTING_ADDR", "SETTING_GW_ADDR", "ADVANCING_TOKEN"} =>
       next < HighAddress
  /\ state = "FETCHING_CLASSES" => infoAddr <= next
  /\ resetTimer => state = "RESETTING"
  /\ resetTimer => resetCount <= 5
  /\ state \in Beginning => resetCount <= 5

LEMMA SafeFrames ==
  /\ {Reset, Gen, Req, Have, Use, TokAdvance(0)} \subseteq SafeCommand
  /\ \A a \in 0 .. HighAddress : {TokAdvance(a), AddrInfo(a)} \subseteq SafeCommand
  /\ \A a \in Addresses : Address(a) \in SafeCommand
  <1>1. Addresses \subseteq 0 .. HighAddress /\ 0 \in 0 .. HighAddress
    BY OstricAssumption DEF Addresses
  <1>2. {Reset, Gen, Req, Have, Use, TokAdvance(0)} \subseteq SafeCommand
    BY <1>1, FramesAreCommands DEF SafeCommand, Reset, Gen, Req, Have, Use,
                                   Gateway, TokAdvance
  <1>3. ASSUME NEW a \in 0 .. HighAddress
        PROVE  TokAdvance(a) \in SafeCommand /\ AddrInfo(a) \in SafeCommand
    BY FramesAreCommands DEF SafeCommand, TokAdvance, AddrInfo
  <1>4. ASSUME NEW a \in Addresses PROVE Address(a) \in SafeCommand
    BY <1>1, FramesAreCommands DEF SafeCommand, Address
  <1> QED
    BY <1>2, <1>3, <1>4

\* The state machine pushes safe frames, and keeps to its types.
LEMMA FsmTypes ==
  ASSUME TInv, NEW ev, Fsm(ev),
         ev = "BUS_RESET" => resetTimer /\ state = "RESETTING",
         classes' \in [0 .. HighAddress - 1 -> 0 .. GatewayClass]
  PROVE  /\ state' \in States /\ next' \in 2 .. HighAddress
         /\ infoAddr' \in 2 .. HighAddress
         /\ killTimer' \in BOOLEAN /\ resetTimer' \in BOOLEAN
         /\ known' \in [0 .. HighAddress - 1 -> {NoData} \cup 0 .. GatewayClass]
         /\ queue' \in Seq(SafeCommand)
         /\ state' \in {"SETTING_ADDR", "SETTING_GW_ADDR", "ADVANCING_TOKEN"} =>
              next' < HighAddress
         /\ state' = "FETCHING_CLASSES" => infoAddr' <= next'
         /\ resetTimer' => state' = "RESETTING"
         /\ (resetTimer' \/ state' \in Beginning) =>
              state \in Beginning /\ ev # "BUS_RESET"
  <1> USE OstricAssumption DEF Beginning
  <1>1. /\ TInv /\ EnumTypeOK /\ state \in States
        /\ next \in 2 .. HighAddress /\ infoAddr \in 2 .. HighAddress
        /\ killTimer \in BOOLEAN /\ resetTimer \in BOOLEAN
        /\ known \in [0 .. HighAddress - 1 -> {NoData} \cup 0 .. GatewayClass]
        /\ queue \in Seq(SafeCommand)
    BY DEF TInv, EnumTypeOK
  <1>2. CASE <<state, ev>> \notin Expects
    BY <1>1, <1>2 DEF Fsm, fsmVars, TInv, Expects
  <1>3. ASSUME NEW frames \in Seq(SafeCommand), Push(frames)
        PROVE  queue' \in Seq(SafeCommand)
    BY <1>1, <1>3 DEF Push
  <1>4. CASE FsmIdle(ev)
    <2>1. <<TokAdvance(0), TokAdvance(0), Gateway("REQ_TOKEN")>> \in Seq(SafeCommand)
      <3>1. TokAdvance(0) \in SafeCommand /\ Gateway("REQ_TOKEN") \in SafeCommand
        BY SafeFrames DEF Req
      <3> QED
        BY <3>1
    <2> QED
      BY <1>1, <1>3, <1>4, <2>1 DEF FsmIdle, States, TInv
  <1>5. CASE FsmKillingToken(ev)
    <2>1. <<Gateway("USE_TOKEN")>> \in Seq(SafeCommand)
      BY SafeFrames DEF Use
    <2> QED
      BY <1>1, <1>3, <1>5, <2>1 DEF FsmKillingToken, States, TInv
  <1>6. CASE FsmResetting(ev)
    <2>1. <<Gateway("GEN_TOKEN"), Gateway("REQ_TOKEN"), Gateway("HAVE_TOKEN")>>
            \in Seq(SafeCommand)
      <3>1. /\ Gateway("GEN_TOKEN") \in SafeCommand
            /\ Gateway("REQ_TOKEN") \in SafeCommand
            /\ Gateway("HAVE_TOKEN") \in SafeCommand
        BY SafeFrames DEF Gen, Req, Have
      <3> QED
        BY <3>1
    <2> QED
      BY <1>1, <1>3, <1>6, <2>1 DEF FsmResetting, States, TInv
  <1>7. CASE FsmEnumerating(ev)
    <2>1. CASE next >= HighAddress
      BY <1>1, <1>7, <2>1 DEF FsmEnumerating, States, TInv
    <2>2. CASE ~(next >= HighAddress)
      <3>1. next \in Addresses /\ next < HighAddress
        BY <1>1, <2>2 DEF Addresses
      <3>2. <<Address(next)>> \in Seq(SafeCommand)
        BY <3>1, SafeFrames
      <3> QED
        BY <1>1, <1>3, <1>7, <2>2, <3>1, <3>2 DEF FsmEnumerating, States, TInv
    <2> QED
      BY <2>1, <2>2
  <1>8. CASE FsmSettingGwAddr(ev)
    <2>1. <<Gateway("USE_TOKEN"), Gateway("GEN_TOKEN"), AddrInfo(2)>>
            \in Seq(SafeCommand)
      <3>1. /\ Gateway("USE_TOKEN") \in SafeCommand
            /\ Gateway("GEN_TOKEN") \in SafeCommand
            /\ AddrInfo(2) \in SafeCommand
        BY SafeFrames DEF Use, Gen
      <3> QED
        BY <3>1
    <2>2. next' = next + 1 /\ next < HighAddress /\ infoAddr' = 3 /\ ~resetTimer'
      BY <1>1, <1>8 DEF FsmSettingGwAddr, TInv
    <2>3. next' \in 2 .. HighAddress /\ infoAddr' \in 2 .. HighAddress
          /\ infoAddr' <= next'
      BY <1>1, <2>2
    <2>4. /\ state' = "FETCHING_CLASSES" /\ known' = known /\ killTimer' = killTimer
          /\ resetTimer' = resetTimer /\ queue' \in Seq(SafeCommand)
      BY <1>3, <1>8, <2>1 DEF FsmSettingGwAddr
    <2> QED
      BY <1>1, <2>2, <2>3, <2>4 DEF States
  <1>9. CASE FsmSettingAddr(ev)
    <2>1. <<TokAdvance(next)>> \in Seq(SafeCommand)
      BY <1>1, SafeFrames
    <2> QED
      BY <1>1, <1>3, <1>9, <2>1 DEF FsmSettingAddr, States, TInv
  <1>10. CASE FsmAdvancingToken(ev)
    <2>1. <<Gateway("HAVE_TOKEN")>> \in Seq(SafeCommand)
      BY SafeFrames DEF Have
    <2>2. next' = next + 1 /\ next < HighAddress /\ ~resetTimer'
      BY <1>1, <1>10 DEF FsmAdvancingToken, TInv
    <2>3. next' \in 2 .. HighAddress
      BY <1>1, <2>2
    <2>4. /\ state' = "ENUMERATING" /\ known' = known /\ killTimer' = killTimer
          /\ infoAddr' = infoAddr
          /\ resetTimer' = resetTimer /\ queue' \in Seq(SafeCommand)
      BY <1>3, <1>10, <2>1 DEF FsmAdvancingToken
    <2> QED
      BY <1>1, <2>2, <2>3, <2>4 DEF States
  <1>11. CASE FsmFetchingClasses(ev)
    <2>1. CASE infoAddr = next
      <3>1. known' = [a \in DOMAIN known |->
                        IF a \in 2 .. next - 1 THEN classes'[a] ELSE known[a]]
            /\ state' = "ENUMERATED" /\ queue' = queue /\ infoAddr' = infoAddr
            /\ next' = next /\ killTimer' = killTimer /\ resetTimer' = resetTimer
        BY <1>11, <2>1 DEF FsmFetchingClasses
      <3>2. known' \in [0 .. HighAddress - 1 -> {NoData} \cup 0 .. GatewayClass]
        BY <1>1, <3>1
      <3> QED
        BY <1>1, <1>11, <3>1, <3>2 DEF FsmFetchingClasses, States, TInv
    <2>2. CASE infoAddr # next
      <3>1. <<AddrInfo(infoAddr)>> \in Seq(SafeCommand)
        BY <1>1, SafeFrames
      <3>2. infoAddr' = infoAddr + 1 /\ infoAddr <= next /\ ~resetTimer'
        BY <1>1, <1>11, <2>2 DEF FsmFetchingClasses, TInv
      <3>3. infoAddr' \in 2 .. HighAddress /\ infoAddr' <= next
        BY <1>1, <2>2, <3>2
      <3>4. /\ state' = "FETCHING_CLASSES" /\ known' = known /\ killTimer' = killTimer
            /\ next' = next
            /\ resetTimer' = resetTimer /\ queue' \in Seq(SafeCommand)
        BY <1>3, <1>11, <2>2, <3>1 DEF FsmFetchingClasses
      <3> QED
        BY <1>1, <3>2, <3>3, <3>4 DEF States
    <2> QED
      BY <2>1, <2>2
  <1> QED
    BY <1>2, <1>4, <1>5, <1>6, <1>7, <1>8, <1>9, <1>10, <1>11 DEF Fsm, FsmReacts

LEMMA InitTInv == EnumInit => TInv
  <1> SUFFICES ASSUME EnumInit PROVE TInv
    OBVIOUS
  <1>1. EnumTypeOK
    BY InitIInv DEF IInv
  <1> QED
    BY <1>1 DEF TInv, EnumInit, Beginning

LEMMA NextTInv == TInv /\ [EnumNext]_vars => TInv'
  <1> SUFFICES ASSUME TInv, [EnumNext]_vars PROVE TInv'
    OBVIOUS
  <1> USE OstricAssumption, EnumerationAssumption DEF Beginning
  <1>1. EnumTypeOK /\ BusTypeOK /\ resetCount \in 0 .. 6
        /\ classes \in [0 .. HighAddress - 1 -> 0 .. GatewayClass]
        /\ replied \subseteq 0 .. HighAddress - 1
        /\ queue \in Seq(SafeCommand) /\ SafeCommand \subseteq Command
    BY DEF TInv, EnumTypeOK, SafeCommand
  <1>2. Seq(SafeCommand) \subseteq Seq(Command)
    BY <1>1
  \* The steps that only the state machine takes.
  <1>3. ASSUME NEW ev, Fsm(ev), ev # "BUS_RESET",
               UNCHANGED <<busVars, recvVars, resetCount, txFrame, lostFrames, lostAnswers>>
        PROVE  TInv'
    <2>1. BusTypeOK' /\ classes' = classes /\ replied' = replied
      BY <1>1, <1>3, BusVarsTypes DEF recvVars
    <2>2. /\ state' \in States /\ next' \in 2 .. HighAddress
          /\ infoAddr' \in 2 .. HighAddress
          /\ killTimer' \in BOOLEAN /\ resetTimer' \in BOOLEAN
          /\ known' \in [0 .. HighAddress - 1 -> {NoData} \cup 0 .. GatewayClass]
          /\ queue' \in Seq(SafeCommand)
          /\ state' \in {"SETTING_ADDR", "SETTING_GW_ADDR", "ADVANCING_TOKEN"} =>
               next' < HighAddress
          /\ state' = "FETCHING_CLASSES" => infoAddr' <= next'
          /\ resetTimer' => state' = "RESETTING"
          /\ (resetTimer' \/ state' \in Beginning) => state \in Beginning
      BY <1>1, <1>3, <2>1, FsmTypes
    <2>3. EnumTypeOK'
      BY <1>1, <1>2, <1>3, <2>1, <2>2 DEF EnumTypeOK
    <2> QED
      BY <1>3, <2>2, <2>3 DEF TInv
  <1>4. CASE Start
    BY <1>3, <1>4 DEF Start
  <1>5. CASE KillTokenTimeout
    BY <1>3, <1>5 DEF KillTokenTimeout
  <1>6. CASE SendReset
    <2>1. queue' \in Seq(SafeCommand)
      BY <1>1, <1>6, SafeFrames DEF SendReset, Push
    <2>2. BusTypeOK' /\ resetCount' \in 0 .. 5
      BY <1>1, <1>6, BusVarsTypes DEF SendReset
    <2>3. EnumTypeOK'
      BY <1>1, <1>2, <1>6, <2>1, <2>2 DEF SendReset, EnumTypeOK, recvVars
    <2> QED
      BY <1>6, <2>1, <2>2, <2>3 DEF TInv, SendReset
  <1>7. CASE BusReset
    <2>1. BusTypeOK' /\ classes' = classes /\ replied' = replied
      BY <1>1, <1>7, BusVarsTypes DEF BusReset, recvVars
    <2>2. resetTimer /\ state = "RESETTING" /\ resetCount <= 5
          /\ Fsm("BUS_RESET")
      BY <1>7 DEF BusReset, TInv
    <2>3. resetCount' \in 0 .. 6
      BY <1>1, <1>7, <2>2 DEF BusReset
    <2>4. /\ state' \in States /\ next' \in 2 .. HighAddress
          /\ infoAddr' \in 2 .. HighAddress
          /\ killTimer' \in BOOLEAN /\ resetTimer' \in BOOLEAN
          /\ known' \in [0 .. HighAddress - 1 -> {NoData} \cup 0 .. GatewayClass]
          /\ queue' \in Seq(SafeCommand)
          /\ state' \in {"SETTING_ADDR", "SETTING_GW_ADDR", "ADVANCING_TOKEN"} =>
               next' < HighAddress
          /\ state' = "FETCHING_CLASSES" => infoAddr' <= next'
          /\ ~resetTimer' /\ state' \notin Beginning
      BY <1>1, <2>1, <2>2, FsmTypes
    <2>5. EnumTypeOK'
      BY <1>1, <1>2, <1>7, <2>1, <2>3, <2>4 DEF EnumTypeOK, BusReset
    <2> QED
      BY <1>7, <2>4, <2>5 DEF TInv, BusReset
  <1>8. CASE Send \/ Retransmit
    <2>1. PICK c \in SafeCommand :
            /\ Transmit(c)
            /\ queue' \in Seq(SafeCommand)
            /\ txFrame' \in SafeCommand \cup {NoCommand}
            /\ SricdWaits
      <3>1. CASE Send
        <4>1. Head(queue) \in SafeCommand /\ Tail(queue) \in Seq(SafeCommand)
          BY <1>1, <3>1 DEF Send
        <4> QED
          BY <3>1, <4>1 DEF Send, SricdWaits, recvVars
      <3>2. CASE Retransmit
        BY <1>1, <3>2 DEF Retransmit, TInv, SricdWaits, fsmVars, recvVars
      <3> QED
        BY <1>8, <3>1, <3>2
    <2>2. BusTypeOK' /\ lostFrames' \in 0 .. MaxLostFrames
      BY <1>1, <2>1, TransmitTypes DEF SafeCommand
    <2>3. EnumTypeOK'
      BY <1>1, <1>2, <2>1, <2>2 DEF EnumTypeOK, SricdWaits
    <2> QED
      BY <2>1, <2>3 DEF TInv, SricdWaits
  <1>9. CASE RxAnswer
    <2>1. /\ BusTypeOK' /\ txFrame' = NoCommand
          /\ UNCHANGED <<resetCount, lostFrames, lostAnswers>>
      BY <1>1, <1>9, AnswerKeepsBus
    <2>2. CASE UNCHANGED <<fsmVars, recvVars>>
      <3>1. EnumTypeOK'
        BY <1>1, <2>1, <2>2 DEF EnumTypeOK, fsmVars, recvVars
      <3> QED
        BY <2>1, <2>2, <3>1 DEF TInv, fsmVars
    <2>3. CASE Record(Head(wire)) /\ Fsm(EventOf(Head(wire)))
      <3> DEFINE a == Head(wire)
      <3>1. a \in Acks
        BY <1>1, <1>9, BusTypes DEF RxAnswer
      <3>2. EventOf(a) # "BUS_RESET"
        BY DEF EventOf
      <3>3. classes' \in [0 .. HighAddress - 1 -> 0 .. GatewayClass]
            /\ replied' \subseteq 0 .. HighAddress - 1
        <4>1. CASE EventOf(a) = "ADDR_INFO_ACK"
          <5>1. a.data # NoData
            BY <4>1 DEF EventOf
          <5>2. a.src \in 0 .. HighAddress - 1 /\ a.data \in 0 .. GatewayClass
            BY <3>1, <5>1 DEF Acks
          <5>3. /\ replied' = replied \cup {a.src}
                /\ classes' = [classes EXCEPT ![a.src] = a.data]
            BY <2>3, <4>1 DEF Record
          <5> HIDE DEF a
          <5> QED
            BY <1>1, <5>2, <5>3
        <4>2. CASE EventOf(a) # "ADDR_INFO_ACK"
          BY <1>1, <2>3, <4>2 DEF Record
        <4> QED
          BY <4>1, <4>2
      <3>4. /\ state' \in States /\ next' \in 2 .. HighAddress
            /\ infoAddr' \in 2 .. HighAddress
            /\ killTimer' \in BOOLEAN /\ resetTimer' \in BOOLEAN
            /\ known' \in [0 .. HighAddress - 1 -> {NoData} \cup 0 .. GatewayClass]
            /\ queue' \in Seq(SafeCommand)
            /\ state' \in {"SETTING_ADDR", "SETTING_GW_ADDR", "ADVANCING_TOKEN"} =>
                 next' < HighAddress
            /\ state' = "FETCHING_CLASSES" => infoAddr' <= next'
            /\ resetTimer' => state' = "RESETTING"
            /\ (resetTimer' \/ state' \in Beginning) => state \in Beginning
        BY <2>3, <3>2, <3>3, FsmTypes
      <3>5. EnumTypeOK'
        BY <1>1, <1>2, <2>1, <3>3, <3>4 DEF EnumTypeOK
      <3> QED
        BY <2>1, <3>4, <3>5 DEF TInv
    <2> QED
      BY <1>9, <2>2, <2>3 DEF RxAnswer
  <1>10. CASE LoseAnswer
    <2>1. BusTypeOK'
      BY <1>1, <1>10 DEF LoseAnswer, BusTypeOK
    <2>2. EnumTypeOK'
      BY <1>1, <1>10, <2>1 DEF EnumTypeOK, LoseAnswer, fsmVars, recvVars
    <2> QED
      BY <1>10, <2>2 DEF TInv, LoseAnswer, fsmVars
  <1>11. CASE IdleTurn
    <2>1. BusTypeOK'
      BY <1>1, <1>11, BusTypes, BusTypesNext, TurnAt DEF IdleTurn, AdvanceToken
    <2>2. EnumTypeOK'
      BY <1>1, <1>11, <2>1 DEF EnumTypeOK, IdleTurn, fsmVars, recvVars
    <2> QED
      BY <1>11, <2>2 DEF TInv, IdleTurn, fsmVars
  <1>12. CASE UNCHANGED vars
    BY <1>12 DEF TInv, EnumTypeOK, BusTypeOK, vars, busVars, fsmVars, recvVars
  <1> QED
    BY <1>4, <1>5, <1>6, <1>7, <1>8, <1>9, <1>10, <1>11, <1>12 DEF EnumNext

\* Type correctness of the state machine, its frames and the bus: the addresses
\* that sric-enum.c gives out end below DEVICE_HIGH_ADDRESS, and those it
\* indexes its tables with are in range, also when ACKs come late and frames
\* are answered twice.
THEOREM EnumTypeCorrect == EnumSpec => []EnumTypeOK
  <1>1. TInv => EnumTypeOK
    BY DEF TInv
  <1> QED
    BY <1>1, InitTInv, NextTInv, PTL DEF EnumSpec
=============================================================================
