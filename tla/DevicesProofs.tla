--------------------------- MODULE DevicesProofs ---------------------------
(***************************************************************************)
(* Proofs about the list of devices, for any number of devices, addresses, *)
(* places of the list and frames under way: whoever reports is found under *)
(* its address, the list follows the network, and the sweep declares the   *)
(* very device offline that did not obey.                                  *)
(*                                                                         *)
(* The network and the list disagree as long as announcements are under    *)
(* way.  The invariants therefore say what the list will hold when the     *)
(* line has been read up to a frame: of a device that is announced before  *)
(* that frame, what the last such announcement says, and of any other what *)
(* the list holds now.                                                     *)
(***************************************************************************)
EXTENDS Devices, NumberFacts, SequenceTheorems

-----------------------------------------------------------------------------
(* The inductive invariant *)

\* The device m is in the list with address a.
Holds(m, a) == \E p \in Places : devList[p].mac = m /\ devList[p].shortAddr = a

\* No frame in front of the k-th announces m.
Silent(m, k) == \A j \in DOMAIN line : j < k => line[j].mac # m

\* The j-th frame is the last one in front of the k-th that announces m.
LatestBefore(m, j, k) ==
  /\ j \in DOMAIN line /\ j < k /\ line[j].mac = m
  /\ \A i \in DOMAIN line : j < i /\ i < k => line[i].mac # m

End == Len(line) + 1

\* The values of a device's shortAddr.
Shorts == 0 .. AddrSize - 1

\* No address is given to two devices.
NetworkOK ==
  \A m, n \in Macs : network[m] # 0 /\ network[m] = network[n] => m = n

\* No device is in the list twice, and none has the address 0.
ListOK ==
  /\ \A p, q \in Places : Listed(p) /\ devList[p].mac = devList[q].mac => p = q
  /\ \A p \in Places : Listed(p) => devList[p].shortAddr # 0

\* The last announcement of a device says its address; the list does if there is none.
NetworkFollowed ==
  \A m \in Macs :
    /\ \A k \in DOMAIN line : LatestBefore(m, k, End) => line[k].addr = network[m]
    /\ Silent(m, End) /\ m \notin missed =>
         \A a \in Shorts : Holds(m, a) <=> a = network[m] /\ a # 0

\* When a frame is read its address is no other device's.
AddressOwn ==
  \A k \in DOMAIN line, m \in Macs :
    line[k].addr # 0 /\ m # line[k].from =>
      /\ \A j \in DOMAIN line : LatestBefore(m, j, k) => line[j].addr # line[k].addr
      /\ Silent(m, k) /\ m \notin missed => ~Holds(m, line[k].addr)

\* A device that is given another address is in the list by the time that is read.
UpdateListed ==
  \A k \in DOMAIN line, m \in Macs :
    line[k].cmd = "DEV_UPDATE_SHORT_ADDR" /\ line[k].mac = m =>
      /\ \A j \in DOMAIN line : LatestBefore(m, j, k) => line[j].addr # 0
      /\ Silent(m, k) /\ m \notin missed => \E a \in Shorts : Holds(m, a)

\* No two devices in the list have the same address.
ListDistinct ==
  \A m, n \in Macs \ missed, a \in Shorts : Holds(m, a) /\ Holds(n, a) => m = n

LineInv ==
  AddressesFit =>
    /\ NetworkOK /\ ListOK
    /\ NetworkFollowed /\ AddressOwn /\ UpdateListed /\ ListDistinct

\* The device at the address of an entry that is steady is the one it was made for.
SteadyMeant ==
  \A i \in Controls, m \in Macs :
    uartCTRLCmd[i].steady = 1 /\ Holds(m, uartCTRLCmd[i].shortAddr)
      => m = uartCTRLCmd[i].mac \/ {m, uartCTRLCmd[i].mac} \cap missed # {}

\* The sweep's entry is as it was, or cleared.
SweepHolds ==
  sweep.at = "find" /\ sweep.steady = 1 =>
    LET c == uartCTRLCmd[sweep.index] IN
    \/ c.shortAddr = 0
    \/ c.mac = sweep.mac /\ c.steady = 1

\* Only a thread that is under way has a place in hand.
PlacesInHand ==
  /\ rx.at = "check" => rx.pRam # NoPlace
  /\ sweep.at # "idle" => sweep.index # 0

SweepInv == AddressesFit => SteadyMeant /\ SweepHolds /\ OfflineIsMeant


-----------------------------------------------------------------------------
(* Searches *)

LEMMA FirstOfFound ==
  ASSUME NEW S \in SUBSET Nat
  PROVE  IF S = {} THEN FirstOf(S) = NoPlace ELSE FirstOf(S) \in S
<1>1. S # {} => \E p \in S : \A q \in S : p <= q
  BY LeastNat
<1>. QED BY <1>1 DEF FirstOf

LEMMA FoundByMac ==
  ASSUME NEW m
  PROVE  LET p == findInDevListByMac(m) IN
         IF p = NoPlace THEN \A q \in Places : devList[q].mac # m
         ELSE p \in Places /\ devList[p].mac = m
<1>. DEFINE S == {p \in Places : devList[p].mac = m}
<1>1. S \in SUBSET Nat /\ NoPlace \notin S
  BY SizesAssumption DEF Places, NoPlace
<1>2. IF S = {} THEN FirstOf(S) = NoPlace ELSE FirstOf(S) \in S
  <2>. HIDE DEF S
  <2>. QED BY <1>1, FirstOfFound
<1>. QED BY <1>1, <1>2 DEF findInDevListByMac

LEMMA FoundByAddr ==
  ASSUME NEW a
  PROVE  LET p == findInDevListByNwkadd(a) IN
         IF p = NoPlace THEN \A q \in Places : Listed(q) => devList[q].shortAddr # a
         ELSE p \in Places /\ Listed(p) /\ devList[p].shortAddr = a
<1>. DEFINE S == {p \in Places : Listed(p) /\ devList[p].shortAddr = a}
<1>1. S \in SUBSET Nat /\ NoPlace \notin S
  BY SizesAssumption DEF Places, NoPlace
<1>2. IF S = {} THEN FirstOf(S) = NoPlace ELSE FirstOf(S) \in S
  <2>. HIDE DEF S
  <2>. QED BY <1>1, FirstOfFound
<1>. QED BY <1>1, <1>2 DEF findInDevListByNwkadd

LEMMA FreePlace ==
  LET p == FirstOf({q \in Places : ~Listed(q)}) IN
  p # NoPlace => p \in Places /\ ~Listed(p)
<1>. DEFINE S == {q \in Places : ~Listed(q)}
<1>1. S \in SUBSET Nat
  BY SizesAssumption DEF Places
<1>2. IF S = {} THEN FirstOf(S) = NoPlace ELSE FirstOf(S) \in S
  <2>. HIDE DEF S
  <2>. QED BY <1>1, FirstOfFound
<1>. QED BY <1>2

\* The entry a search of uartCTRLCmd yields is an entry.
LEMMA FoundControl ==
  ASSUME NEW S \in SUBSET Controls
  PROVE  IF S = {} THEN FirstOf(S) = NoPlace ELSE FirstOf(S) \in Controls /\ FirstOf(S) \in S
<1>1. S \in SUBSET Nat
  BY SizesAssumption DEF Controls
<1>. QED BY <1>1, FirstOfFound

\* A byte holds an address, and one that fits unchanged.
LEMMA StoredShort ==
  ASSUME NEW a \in Addrs \cup {0}
  PROVE  Stored(a) \in Shorts /\ (AddressesFit => Stored(a) = a /\ a \in Shorts)
<1>1. a \in Nat /\ AddrSize \in Nat \ {0} /\ (AddressesFit => a < AddrSize)
  BY SizesAssumption DEF AddressesFit
<1>2. Stored(a) \in Shorts
  BY <1>1, DivMod DEF Stored, Shorts
<1>3. AddressesFit => a \in Shorts
  BY <1>1 DEF Shorts
<1>4. ASSUME a \in 0 .. AddrSize - 1 PROVE a % AddrSize = a
  BY <1>1, <1>4, ModSmall
<1>. QED BY <1>2, <1>3, <1>4 DEF Stored, Shorts

-----------------------------------------------------------------------------
(* Types *)

LEMMA TypeInit == Init => TypeOK /\ PlacesInHand
<1>. SUFFICES ASSUME Init PROVE TypeOK /\ PlacesInHand
  OBVIOUS
<1>. USE SizesAssumption DEF Init
<1>1. network \in [Macs -> Addrs \cup {0}] /\ line \in Seq(Frame) /\ Len(line) <= LineMax
  OBVIOUS
<1>2. devList \in [Places -> Device]
  BY DEF Device, NoDevice
<1>3. uartCTRLCmd \in [Controls -> Control]
  BY DEF Control, NoControl
<1>4. PlacesInHand
  BY DEF PlacesInHand, RxIdle, SweepIdle
<1>. QED BY <1>1, <1>2, <1>3, <1>4 DEF TypeOK, RxIdle, SweepIdle, NoPlace

\* A frame that is sent.
LEMMA SendTypes ==
  ASSUME TypeOK, NEW f \in Frame, Len(line) < LineMax, line' = Append(line, f)
  PROVE  line' \in Seq(Frame) /\ Len(line') <= LineMax
<1>1. line \in Seq(Frame) /\ Len(line) \in Nat
  BY DEF TypeOK
<1>2. line' \in Seq(Frame) /\ Len(line') = Len(line) + 1
  BY <1>1, AppendProperties
<1>. QED BY <1>1, <1>2, SizesAssumption

\* A frame that has been read.
LEMMA TailTypes ==
  ASSUME TypeOK, line # <<>>, line' = Tail(line)
  PROVE  /\ line' \in Seq(Frame) /\ Len(line') <= LineMax
         /\ Head(line) \in Frame
<1>1. line \in Seq(Frame) /\ Len(line) \in Nat /\ Len(line) <= LineMax
  BY DEF TypeOK
<1>2. /\ line' \in Seq(Frame) /\ Len(line') = Len(line) - 1
      /\ Head(line) \in Frame
  BY <1>1, HeadTailProperties
<1>. QED BY <1>1, <1>2, SizesAssumption

LEMMA UnsteadyTypes ==
  ASSUME TypeOK, PlacesInHand, NEW m, NEW a, Unsteady(m, a)
  PROVE  /\ uartCTRLCmd' \in [Controls -> Control]
         /\ sweep' = [sweep EXCEPT !.steady = 0]
         /\ sweep' \in [at : {"idle", "find", "declare"}, index : Controls \cup {0},
                        pni : Places \cup {NoPlace}, mac : Macs \cup {NoMac}, steady : {0, 1}]
         /\ sweep'.at = sweep.at /\ sweep'.index = sweep.index
<1>1. ASSUME NEW i \in Controls
      PROVE  uartCTRLCmd[i] \in Control /\ [uartCTRLCmd[i] EXCEPT !.steady = 0] \in Control
  BY DEF TypeOK, Control
<1>2. uartCTRLCmd' \in [Controls -> Control]
  BY <1>1 DEF Unsteady
<1>. QED BY <1>2 DEF Unsteady, TypeOK

LEMMA HandledTypes ==
  ASSUME TypeOK, line # <<>>, NEW p \in Places \cup {NoPlace}, Handled(p)
  PROVE  /\ line' \in Seq(Frame) /\ Len(line') <= LineMax
         /\ rx' \in [at : {"idle", "check"}, pRam : Places \cup {NoPlace},
                     from : Macs \cup {NoMac}]
         /\ rx'.at = "check" => rx'.pRam # NoPlace
         /\ UNCHANGED <<network, lost>>
<1>1. line' \in Seq(Frame) /\ Len(line') <= LineMax /\ Head(line) \in Frame
  BY TailTypes DEF Handled
<1>2. Head(line).from \in Macs
  BY <1>1 DEF Frame
<1>. QED BY <1>1, <1>2 DEF Handled, RxIdle

LEMMA TypeStep == TypeOK /\ PlacesInHand /\ [Next]_vars => TypeOK' /\ PlacesInHand'
<1>. SUFFICES ASSUME TypeOK, PlacesInHand, [Next]_vars PROVE TypeOK' /\ PlacesInHand'
  OBVIOUS
<1>a. /\ \A p \in Places : devList[p] \in Device
      /\ 0 \in Shorts /\ NoDevice \in Device /\ NoControl \in Control
      /\ network \in [Macs -> Addrs \cup {0}] /\ missed \subseteq Macs /\ lost \in 0 .. MaxLost
  BY SizesAssumption DEF TypeOK, NoDevice, NoControl, Device, Control, Shorts
<1>1. CASE \E m \in Macs : ZcJoin(m) \/ ZcLeave(m) \/ ZcMove(m) \/ ZcSpeak(m)
  <2>1. /\ network' \in [Macs -> Addrs \cup {0}]
        /\ \E f \in Frame : Len(line) < LineMax /\ line' = Append(line, f)
        /\ UNCHANGED <<devList, uartCTRLCmd, rx, sweep, lost, missed>>
    <3>1. PICK m \in Macs : ZcJoin(m) \/ ZcLeave(m) \/ ZcMove(m) \/ ZcSpeak(m)
      BY <1>1
    <3>2. CASE ZcJoin(m) \/ ZcMove(m)
      <4>1. PICK a \in Addrs, cmd \in {"NEW_DEV", "DEV_UPDATE_SHORT_ADDR"} :
              /\ network' = [network EXCEPT ![m] = a] /\ Announce(cmd, m, a)
              /\ UNCHANGED <<devList, uartCTRLCmd, rx, sweep, lost, missed>>
        BY <3>2 DEF ZcJoin, ZcMove, FreeAddrs
      <4>2. [cmd |-> cmd, mac |-> m, addr |-> a, from |-> m] \in Frame
        BY SizesAssumption DEF Frame, Announcing, Speaking, NoMac
      <4>. QED BY <1>a, <4>1, <4>2 DEF Announce, Send
    <3>3. CASE ZcLeave(m)
      <4>1. [cmd |-> "DEV_LEAVE", mac |-> m, addr |-> 0, from |-> m] \in Frame
        BY SizesAssumption DEF Frame, Announcing, Speaking, NoMac
      <4>. QED BY <1>a, <3>3, <4>1 DEF ZcLeave, Announce, Send
    <3>4. CASE ZcSpeak(m)
      <4>1. PICK cmd \in {"REPORT", "ONOFF_DONE", "OFFLINE", "ONLINE"} :
              Send(cmd, NoMac, network[m], m) /\ network[m] # 0
        BY <3>4 DEF ZcSpeak
      <4>2. [cmd |-> cmd, mac |-> NoMac, addr |-> network[m], from |-> m] \in Frame
        BY <1>a, <4>1 DEF Frame, Announcing, Speaking
      <4>. QED BY <1>a, <3>4, <4>1, <4>2 DEF Send, ZcSpeak
    <3>. QED BY <3>1, <3>2, <3>3, <3>4
  <2>2. line' \in Seq(Frame) /\ Len(line') <= LineMax
    BY <2>1, SendTypes
  <2>. QED BY <2>1, <2>2 DEF TypeOK, PlacesInHand
<1>2. CASE Lose
  <2>1. line # <<>> /\ line' = Tail(line)
        /\ UNCHANGED <<network, devList, uartCTRLCmd, rx, sweep>>
    BY <1>2 DEF Lose
  <2>2. /\ line' \in Seq(Frame) /\ Len(line') <= LineMax /\ Head(line) \in Frame
    BY <2>1, TailTypes
  <2>3. missed' \subseteq Macs /\ lost' \in 0 .. MaxLost
    BY <1>a, <1>2, <2>2, SizesAssumption DEF Lose, Frame
  <2>. QED BY <2>1, <2>2, <2>3 DEF TypeOK, PlacesInHand
<1>3. ASSUME \E cmd : RxIs(cmd) PROVE line # <<>> /\ rx.at = "idle" /\ Head(line) \in Frame
  <2>1. line # <<>> /\ rx.at = "idle"
    BY <1>3 DEF RxIs
  <2>. QED BY <2>1, HeadTailProperties DEF TypeOK
<1>4. CASE RxNewDev
  <2>1. line # <<>> /\ Head(line) \in Frame
    BY <1>3, <1>4 DEF RxNewDev
  <2>. DEFINE f == Head(line)
              p == IF findInDevListByMac(f.mac) # NoPlace THEN findInDevListByMac(f.mac)
                   ELSE FirstOf({q \in Places : ~Listed(q)})
  <2>2. f.mac \in Macs \cup {NoMac} /\ Stored(f.addr) \in Shorts
    BY <2>1, StoredShort DEF Frame
  <2>3. p = NoPlace \/ p \in Places
    BY FoundByMac, FreePlace
  <2>4. devList' \in [Places -> Device]
    <3>1. devList' = IF p = NoPlace THEN devList
                     ELSE [devList EXCEPT ![p] = [mac |-> f.mac, shortAddr |-> Stored(f.addr),
                                                  onLine |-> 1]]
      BY <1>4 DEF RxNewDev
    <3>. HIDE DEF f, p
    <3>2. [mac |-> f.mac, shortAddr |-> Stored(f.addr), onLine |-> 1] \in Device
      BY <2>2 DEF Device, Shorts
    <3>. QED BY <2>3, <3>1, <3>2 DEF TypeOK
  <2>5. Unsteady(f.mac, f.addr) /\ Handled(NoPlace)
    BY <1>4 DEF RxNewDev
  <2>6. missed' \subseteq Macs
    <3>1. missed' \in {missed \cup {f.mac}, missed \ {f.mac}} /\ f.cmd = "NEW_DEV"
      BY <1>4 DEF RxNewDev, RxIs
    <3>. QED BY <1>a, <2>1, <3>1 DEF Frame, Announcing
  <2>. QED BY <2>1, <2>4, <2>5, <2>6, UnsteadyTypes, HandledTypes DEF TypeOK, PlacesInHand
<1>5. CASE RxLeave
  <2>1. line # <<>> /\ Head(line) \in Frame
    BY <1>3, <1>5 DEF RxLeave
  <2>2. findInDevListByMac(Head(line).mac) \in Places \cup {NoPlace}
    BY FoundByMac
  <2>3. devList' \in [Places -> Device]
    BY <1>a, <1>5, <2>2 DEF RxLeave, TypeOK
  <2>4. Unsteady(Head(line).mac, 0) /\ Handled(NoPlace) /\ missed' \subseteq Macs
    BY <1>a, <1>5 DEF RxLeave
  <2>. QED BY <2>1, <2>3, <2>4, UnsteadyTypes, HandledTypes DEF TypeOK, PlacesInHand
<1>6. CASE RxUpdateAddr
  <2>1. line # <<>> /\ Head(line) \in Frame
    BY <1>3, <1>6 DEF RxUpdateAddr
  <2>. DEFINE f == Head(line)
              p == findInDevListByMac(f.mac)
  <2>2. p \in Places \cup {NoPlace} /\ Stored(f.addr) \in Shorts
    BY <2>1, FoundByMac, StoredShort DEF Frame
  <2>3. devList' \in [Places -> Device]
    <3>1. devList' = IF p = NoPlace THEN devList
                     ELSE [devList EXCEPT ![p].shortAddr = Stored(f.addr)]
      BY <1>6 DEF RxUpdateAddr
    <3>. HIDE DEF f, p
    <3>2. ASSUME p \in Places PROVE [devList[p] EXCEPT !.shortAddr = Stored(f.addr)] \in Device
      BY <1>a, <2>2, <3>2 DEF Device, Shorts
    <3>. QED BY <2>2, <3>1, <3>2 DEF TypeOK
  <2>4. Unsteady(f.mac, f.addr) /\ Handled(p) /\ missed' \subseteq Macs
    BY <1>a, <1>6 DEF RxUpdateAddr
  <2>. HIDE DEF p
  <2>. QED BY <2>1, <2>2, <2>3, <2>4, UnsteadyTypes, HandledTypes DEF TypeOK, PlacesInHand
<1>7. CASE RxReport
  <2>1. line # <<>> /\ findInDevListByNwkadd(Head(line).addr) \in Places \cup {NoPlace}
    BY <1>3, <1>7, FoundByAddr DEF RxReport
  <2>. QED BY <1>7, <2>1, HandledTypes DEF RxReport, TypeOK, PlacesInHand
<1>8. CASE RxOffline
  <2>1. line # <<>> /\ findInDevListByNwkadd(Head(line).addr) \in Places \cup {NoPlace}
    BY <1>3, <1>8, FoundByAddr DEF RxOffline
  <2>2. ASSUME NEW q \in Places, NEW b \in {0, 1}
        PROVE  [devList EXCEPT ![q].onLine = b] \in [Places -> Device]
    <3>1. [devList[q] EXCEPT !.onLine = b] \in Device
      BY <1>a DEF Device
    <3>. QED BY <3>1 DEF TypeOK
  <2>3. devList' \in [Places -> Device]
    BY <1>8, <2>1, <2>2 DEF RxOffline, TypeOK
  <2>4. Handled(NoPlace) /\ UNCHANGED <<uartCTRLCmd, sweep, missed>>
    BY <1>8 DEF RxOffline
  <2>. QED BY <2>1, <2>3, <2>4, HandledTypes DEF TypeOK, PlacesInHand
<1>9. CASE RxOnOffDone
  <2>1. line # <<>> /\ Handled(NoPlace) /\ UNCHANGED <<devList, sweep, missed>>
    BY <1>3, <1>9 DEF RxOnOffDone
  <2>2. uartCTRLCmd' \in [Controls -> Control]
    BY <1>a, <1>9 DEF RxOnOffDone, TypeOK
  <2>. QED BY <2>1, <2>2, HandledTypes DEF TypeOK, PlacesInHand
<1>10. CASE RxCheck
  <2>1. rx.pRam \in Places /\ rx' = RxIdle
    BY <1>10 DEF RxCheck, TypeOK, PlacesInHand
  <2>2. [devList[rx.pRam] EXCEPT !.onLine = 1] \in Device
    BY <1>a, <2>1 DEF Device
  <2>3. devList' \in [Places -> Device]
    BY <1>10, <2>1, <2>2 DEF RxCheck, TypeOK
  <2>. QED BY <1>10, <2>1, <2>3 DEF RxCheck, RxIdle, TypeOK, PlacesInHand
<1>11. CASE Command
  <2>1. PICK p \in Places, i \in Controls \cup {NoPlace} :
          /\ Listed(p) /\ i # NoPlace
          /\ uartCTRLCmd' = [uartCTRLCmd EXCEPT ![i] =
               [valid |-> 1, shortAddr |-> devList[p].shortAddr, mac |-> devList[p].mac,
                steady |-> 1]]
    BY <1>11, FoundControl DEF Command
  <2>2. uartCTRLCmd' \in [Controls -> Control]
    BY <1>a, <2>1 DEF Device, Control, TypeOK
  <2>. QED BY <1>11, <2>2 DEF Command, TypeOK, PlacesInHand
<1>12. CASE SweepEntry
  <2>1. PICK i \in Controls :
          sweep' = [at |-> "find", index |-> i, pni |-> NoPlace, mac |-> uartCTRLCmd[i].mac,
                    steady |-> uartCTRLCmd[i].steady]
    BY <1>12 DEF SweepEntry
  <2>2. uartCTRLCmd[i] \in Control /\ i # 0
    BY SizesAssumption DEF TypeOK, Controls
  <2>. QED BY <1>12, <2>1, <2>2 DEF SweepEntry, Control, TypeOK, PlacesInHand
<1>13. CASE SweepFind
  <2>1. findInDevListByNwkadd(uartCTRLCmd[sweep.index].shortAddr) \in Places \cup {NoPlace}
    BY FoundByAddr
  <2>. QED BY <1>13, <2>1 DEF SweepFind, TypeOK, PlacesInHand
<1>14. CASE SweepDeclare
  <2>1. sweep.index \in Controls
    BY <1>14 DEF SweepDeclare, TypeOK, PlacesInHand
  <2>2. uartCTRLCmd' \in [Controls -> Control] /\ sweep' = SweepIdle
    BY <1>a, <1>14, <2>1 DEF SweepDeclare, TypeOK
  <2>3. devList' \in [Places -> Device]
    <3>1. CASE DeclaredOffline(sweep.pni) /\ devList' = [devList EXCEPT ![sweep.pni].onLine = 0]
      <4>1. sweep.pni \in Places
        BY <3>1 DEF DeclaredOffline, TypeOK
      <4>2. [devList[sweep.pni] EXCEPT !.onLine = 0] \in Device
        BY <1>a, <4>1 DEF Device
      <4>. QED BY <3>1, <4>1, <4>2 DEF TypeOK
    <3>. QED BY <1>14, <3>1 DEF SweepDeclare, TypeOK
  <2>. QED BY <1>14, <2>2, <2>3 DEF SweepDeclare, SweepIdle, TypeOK, PlacesInHand
<1>15. CASE UNCHANGED vars
  BY <1>15 DEF vars, TypeOK, PlacesInHand
<1>. QED BY <1>1, <1>2, <1>4, <1>5, <1>6, <1>7, <1>8, <1>9, <1>10, <1>11, <1>12, <1>13, <1>14, <1>15
     DEF Next, RxThread, SenderThread, Coordinator

\* The types of the list, of the table of commands and of the threads' places hold for
\* any number of devices, addresses, places and entries.
THEOREM TypeCorrect == Spec => []TypeOK
<1>. QED BY TypeInit, TypeStep, PTL DEF Spec

-----------------------------------------------------------------------------
(* The line: a frame is sent, or the first is read *)

LEMMA LineFacts ==
  ASSUME TypeOK
  PROVE  /\ Len(line) \in Nat /\ DOMAIN line = 1 .. Len(line) /\ End = Len(line) + 1
         /\ \A k \in DOMAIN line : line[k] \in Frame
BY LenProperties DEF TypeOK, End

LEMMA AppendLine ==
  ASSUME TypeOK, NEW f \in Frame, line' = Append(line, f)
  PROVE  /\ DOMAIN line' = DOMAIN line \cup {End} /\ End' = End + 1
         /\ \A k \in DOMAIN line : line'[k] = line[k]
         /\ line'[End] = f
         /\ \A m : \A k \in 1 .. End : Silent(m, k)' <=> Silent(m, k)
         /\ \A m : \A j, k \in 1 .. End : LatestBefore(m, j, k)' <=> LatestBefore(m, j, k)
         /\ \A m : Silent(m, End)' => Silent(m, End) /\ f.mac # m
         /\ \A m, j : LatestBefore(m, j, End)' =>
              \/ j = End /\ f.mac = m
              \/ LatestBefore(m, j, End) /\ f.mac # m
<1>1. Len(line) \in Nat /\ DOMAIN line = 1 .. Len(line) /\ End = Len(line) + 1
  BY LineFacts
<1>2. /\ DOMAIN line' = 1 .. End /\ End' = End + 1
      /\ \A k \in DOMAIN line : line'[k] = line[k]
      /\ line'[End] = f
  BY <1>1, AppendProperties DEF TypeOK, End
<1>. QED BY <1>1, <1>2 DEF Silent, LatestBefore

LEMMA TailLine ==
  ASSUME TypeOK, line # <<>>, line' = Tail(line)
  PROVE  /\ Head(line) = line[1] /\ 1 \in DOMAIN line /\ End = End' + 1 /\ End' \in Nat \ {0}
         /\ \A k \in DOMAIN line' :
              /\ k + 1 \in DOMAIN line /\ line'[k] = line[k + 1] /\ k \in 1 .. End'
         /\ \A m : \A k \in 1 .. End' :
              /\ line[1].mac # m => (Silent(m, k)' <=> Silent(m, k + 1))
              /\ line[1].mac = m /\ Silent(m, k)' => LatestBefore(m, 1, k + 1)
         /\ \A m : \A j, k \in 1 .. End' :
              LatestBefore(m, j, k)' => LatestBefore(m, j + 1, k + 1)
         /\ \A m :
              /\ line[1].mac # m => (Silent(m, End)' <=> Silent(m, End))
              /\ line[1].mac = m /\ Silent(m, End)' => LatestBefore(m, 1, End)
         /\ \A m : \A j \in DOMAIN line' :
              LatestBefore(m, j, End)' => LatestBefore(m, j + 1, End)
<1>1. Len(line) \in Nat \ {0} /\ DOMAIN line = 1 .. Len(line) /\ End = Len(line) + 1
  BY LineFacts, EmptySeq DEF TypeOK
<1>2. /\ DOMAIN line' = 1 .. Len(line) - 1 /\ End' = Len(line)
      /\ \A k \in 1 .. Len(line) - 1 : line'[k] = line[k + 1]
      /\ Head(line) = line[1]
  BY <1>1, HeadTailProperties DEF TypeOK, End
<1>3. ASSUME NEW m, NEW k \in 1 .. End', Silent(m, k)', NEW i \in DOMAIN line, i < k + 1, i # 1
      PROVE  line[i].mac # m
  <2>1. i - 1 \in DOMAIN line' /\ i - 1 < k /\ line'[i - 1] = line[i]
    BY <1>1, <1>2, <1>3
  <2>. QED BY <1>3, <2>1 DEF Silent
<1>4. ASSUME NEW m, NEW k \in 1 .. End'
      PROVE  /\ line[1].mac # m => (Silent(m, k)' <=> Silent(m, k + 1))
             /\ line[1].mac = m /\ Silent(m, k)' => LatestBefore(m, 1, k + 1)
  <2>1. Silent(m, k + 1) => Silent(m, k)'
    BY <1>1, <1>2, <1>4 DEF Silent
  <2>2. line[1].mac # m /\ Silent(m, k)' => Silent(m, k + 1)
    BY <1>3, <1>4 DEF Silent
  <2>3. line[1].mac = m /\ Silent(m, k)' => LatestBefore(m, 1, k + 1)
    BY <1>1, <1>2, <1>3, <1>4 DEF LatestBefore
  <2>. QED BY <2>1, <2>2, <2>3
<1>5. ASSUME NEW m, NEW j \in 1 .. End', NEW k \in 1 .. End', LatestBefore(m, j, k)'
      PROVE  LatestBefore(m, j + 1, k + 1)
  <2>1. j \in DOMAIN line' /\ j + 1 \in DOMAIN line /\ line[j + 1] = line'[j] /\ j < k
    BY <1>1, <1>2, <1>5 DEF LatestBefore
  <2>2. ASSUME NEW i \in DOMAIN line, j + 1 < i, i < k + 1 PROVE line[i].mac # m
    <3>1. i - 1 \in DOMAIN line' /\ j < i - 1 /\ i - 1 < k /\ line'[i - 1] = line[i]
      BY <1>1, <1>2, <2>2, <2>1
    <3>. QED BY <1>5, <3>1 DEF LatestBefore
  <2>. QED BY <1>5, <2>1, <2>2 DEF LatestBefore
<1>6e. PICK e \in Nat \ {0} : e = Len(line)
  BY <1>1
<1>6. e \in 1 .. End' /\ e = End' /\ e + 1 = End
  BY <1>1, <1>2, <1>6e
<1>7. ASSUME NEW m PROVE Silent(m, End)' <=> Silent(m, e)'
  BY <1>6 DEF Silent
<1>8. ASSUME NEW m, NEW j PROVE LatestBefore(m, j, End)' <=> LatestBefore(m, j, e)'
  BY <1>6 DEF LatestBefore
<1>9. ASSUME NEW m
      PROVE  /\ line[1].mac # m => (Silent(m, End)' <=> Silent(m, End))
             /\ line[1].mac = m /\ Silent(m, End)' => LatestBefore(m, 1, End)
  BY <1>4, <1>6, <1>7
<1>10. ASSUME NEW m, NEW j \in DOMAIN line', LatestBefore(m, j, End)'
       PROVE  LatestBefore(m, j + 1, End)
  BY <1>1, <1>2, <1>5, <1>6, <1>8, <1>10
<1>. QED BY <1>1, <1>2, <1>4, <1>5, <1>9, <1>10

-----------------------------------------------------------------------------
(* The list follows the network *)

\* What becomes of the list and of missed when the frame f is read, or lost.
Heard(f) ==
  /\ \A n \in Macs \ {f.mac}, a \in Shorts : Holds(n, a)' <=> Holds(n, a)
  /\ \A n \in Macs \ {f.mac} : n \in missed' <=> n \in missed
  /\ f.mac # NoMac /\ f.mac \notin missed' =>
       \A a \in Shorts : Holds(f.mac, a)' <=> a = f.addr /\ a # 0

LEMMA HeardFollowed ==
  ASSUME TypeOK, TypeOK', AddressesFit, NetworkFollowed, line # <<>>, line' = Tail(line),
         network' = network, NEW f \in Frame, f = Head(line), Heard(f)
  PROVE  NetworkFollowed'
<1>1. f = line[1] /\ 1 \in DOMAIN line /\ End = End' + 1 /\ End' \in Nat \ {0}
  BY TailLine
<1>2. ASSUME NEW m \in Macs, NEW k \in DOMAIN line', LatestBefore(m, k, End)'
      PROVE  line'[k].addr = network'[m]
  <2>1. LatestBefore(m, k + 1, End) /\ k + 1 \in DOMAIN line /\ line'[k] = line[k + 1]
    BY <1>1, <1>2, TailLine
  <2>. QED BY <2>1 DEF NetworkFollowed
<1>3. ASSUME NEW m \in Macs, Silent(m, End)', m \notin missed', NEW a \in Shorts
      PROVE  Holds(m, a)' <=> a = network'[m] /\ a # 0
  <2>1. CASE f.mac = m
    <3>1. LatestBefore(m, 1, End)
      BY <1>1, <1>3, <2>1, TailLine
    <3>2. f.addr = network[m]
      BY <1>1, <3>1 DEF NetworkFollowed
    <3>. QED BY <1>1, <1>3, <2>1, <3>2, SizesAssumption DEF Heard, NoMac
  <2>2. CASE f.mac # m
    <3>1. Silent(m, End)
      BY <1>1, <1>3, <2>2, TailLine
    <3>2. m \notin missed /\ (Holds(m, a)' <=> Holds(m, a))
      BY <1>1, <1>3, <2>2 DEF Heard
    <3>. QED BY <3>1, <3>2 DEF NetworkFollowed
  <2>. QED BY <2>1, <2>2
<1>. QED BY <1>2, <1>3 DEF NetworkFollowed

LEMMA HeardOwn ==
  ASSUME TypeOK, TypeOK', AddressesFit, AddressOwn, line # <<>>, line' = Tail(line),
         NEW f \in Frame, f = Head(line), Heard(f)
  PROVE  AddressOwn'
<1>1. f = line[1] /\ 1 \in DOMAIN line /\ End = End' + 1 /\ End' \in Nat \ {0}
  BY TailLine
<1>. SUFFICES ASSUME NEW k \in DOMAIN line', NEW m \in Macs,
                     line'[k].addr # 0, m # line'[k].from
              PROVE  /\ \A j \in DOMAIN line' :
                          LatestBefore(m, j, k)' => line'[j].addr # line'[k].addr
                     /\ Silent(m, k)' /\ m \notin missed' => ~Holds(m, line[k].addr)'
  BY DEF AddressOwn
<1>2. k \in 1 .. End' /\ k + 1 \in DOMAIN line /\ line'[k] = line[k + 1]
  BY TailLine
<1>3. PICK a \in Shorts : a = line[k + 1].addr
  BY <1>2, LineFacts, StoredShort DEF Frame
<1>3a. Holds(m, line[k].addr)' <=> Holds(m, a)'
  BY <1>2, <1>3 DEF Holds
<1>4. ASSUME NEW j \in DOMAIN line', LatestBefore(m, j, k)'
      PROVE  line'[j].addr # line'[k].addr
  <2>1. LatestBefore(m, j + 1, k + 1) /\ j + 1 \in DOMAIN line /\ line'[j] = line[j + 1]
    BY <1>2, <1>4, TailLine
  <2>. QED BY <1>2, <2>1 DEF AddressOwn
<1>5. ASSUME Silent(m, k)', m \notin missed'
      PROVE  ~Holds(m, line[k].addr)'
  <2>1. CASE f.mac = m
    <3>1. LatestBefore(m, 1, k + 1)
      BY <1>2, <1>5, <2>1, TailLine
    <3>2. f.addr # line[k + 1].addr
      BY <1>1, <1>2, <3>1 DEF AddressOwn
    <3>. QED BY <1>1, <1>3, <1>3a, <1>5, <2>1, <3>2, SizesAssumption DEF Heard, NoMac
  <2>2. CASE f.mac # m
    <3>1. Silent(m, k + 1)
      BY <1>2, <1>5, <2>2, TailLine
    <3>2. m \notin missed /\ (Holds(m, a)' <=> Holds(m, a))
      BY <1>1, <1>3, <1>5, <2>2 DEF Heard
    <3>3. ~Holds(m, line[k + 1].addr)
      BY <1>2, <3>1, <3>2 DEF AddressOwn
    <3>. QED BY <1>3, <1>3a, <3>2, <3>3 DEF Holds
  <2>. QED BY <2>1, <2>2
<1>. QED BY <1>4, <1>5

LEMMA HeardUpdate ==
  ASSUME TypeOK, TypeOK', AddressesFit, UpdateListed, line # <<>>, line' = Tail(line),
         NEW f \in Frame, f = Head(line), Heard(f)
  PROVE  UpdateListed'
<1>1. /\ f = line[1] /\ 1 \in DOMAIN line /\ End = End' + 1 /\ End' \in Nat \ {0}
      /\ f.addr \in Shorts
  BY TailLine, StoredShort DEF Frame
<1>. SUFFICES ASSUME NEW k \in DOMAIN line', NEW m \in Macs,
                     line'[k].cmd = "DEV_UPDATE_SHORT_ADDR", line'[k].mac = m
              PROVE  /\ \A j \in DOMAIN line' : LatestBefore(m, j, k)' => line'[j].addr # 0
                     /\ Silent(m, k)' /\ m \notin missed' => \E a \in Shorts : Holds(m, a)'
  BY DEF UpdateListed
<1>2. k \in 1 .. End' /\ k + 1 \in DOMAIN line /\ line'[k] = line[k + 1]
  BY TailLine
<1>3. ASSUME NEW j \in DOMAIN line', LatestBefore(m, j, k)'
      PROVE  line'[j].addr # 0
  <2>1. LatestBefore(m, j + 1, k + 1) /\ j + 1 \in DOMAIN line /\ line'[j] = line[j + 1]
    BY <1>2, <1>3, TailLine
  <2>. QED BY <1>2, <2>1 DEF UpdateListed
<1>4. ASSUME Silent(m, k)', m \notin missed'
      PROVE  \E a \in Shorts : Holds(m, a)'
  <2>1. CASE f.mac = m
    <3>1. LatestBefore(m, 1, k + 1)
      BY <1>2, <1>4, <2>1, TailLine
    <3>2. f.addr # 0
      BY <1>1, <1>2, <3>1 DEF UpdateListed
    <3>. QED BY <1>1, <1>4, <2>1, <3>2, SizesAssumption DEF Heard, NoMac
  <2>2. CASE f.mac # m
    <3>1. Silent(m, k + 1)
      BY <1>2, <1>4, <2>2, TailLine
    <3>2. m \notin missed /\ (\A a \in Shorts : Holds(m, a)' <=> Holds(m, a))
      BY <1>1, <1>4, <2>2 DEF Heard
    <3>. QED BY <1>2, <3>1, <3>2 DEF UpdateListed
  <2>. QED BY <2>1, <2>2
<1>. QED BY <1>3, <1>4

LEMMA HeardDistinct ==
  ASSUME TypeOK, TypeOK', AddressesFit, AddressOwn, ListDistinct, line # <<>>,
         NEW f \in Frame, f = Head(line), Heard(f)
  PROVE  ListDistinct'
<1>1. f = line[1] /\ 1 \in DOMAIN line
  BY LineFacts, HeadTailProperties, EmptySeq DEF TypeOK
<1>2. ASSUME NEW n \in Macs \ missed', n # f.mac, f.mac \in Macs, f.mac \notin missed',
             NEW a \in Shorts, Holds(n, a)', Holds(f.mac, a)'
      PROVE  FALSE
  <2>1. a = f.addr /\ a # 0 /\ f.from = f.mac
    BY <1>1, <1>2, SizesAssumption DEF Heard, NoMac, Frame
  <2>2. n \notin missed /\ Holds(n, a)
    BY <1>1, <1>2 DEF Heard
  <2>3. Silent(n, 1)
    BY LineFacts DEF Silent
  <2>. QED BY <1>1, <1>2, <2>1, <2>2, <2>3 DEF AddressOwn
<1>3. ASSUME NEW m \in Macs \ missed', NEW n \in Macs \ missed', NEW a \in Shorts,
             Holds(m, a)', Holds(n, a)'
      PROVE  m = n
  <2>1. CASE m # f.mac /\ n # f.mac
    BY <1>1, <1>3, <2>1 DEF Heard, ListDistinct
  <2>. QED BY <1>2, <1>3, <2>1
<1>. QED BY <1>3 DEF ListDistinct

\* A frame that the coordinator sends: it gives a device an address that is free, or takes
\* it away, or comes from the address the device has.
Sent(f) ==
  /\ line' = Append(line, f) /\ UNCHANGED <<devList, missed>>
  /\ network' = [network EXCEPT ![f.from] = f.addr]
  /\ \A n \in Macs \ {f.from} : f.addr # 0 => network[n] # f.addr
  /\ f.mac = NoMac => f.addr = network[f.from]
  /\ f.cmd = "DEV_UPDATE_SHORT_ADDR" => network[f.from] # 0

\* What the lemmas below need of a device and of a frame that is sent.
LEMMA SentFacts ==
  ASSUME TypeOK, AddressesFit, NEW f \in Frame, Sent(f)
  PROVE  /\ f.from \in Macs /\ f.addr \in Shorts
         /\ \A m \in Macs : /\ network[m] \in Shorts
                            /\ m # f.from \/ f.mac = NoMac => network'[m] = network[m]
                            /\ m # f.mac => m # f.from \/ f.mac = NoMac
                            /\ m = f.mac => network'[m] = f.addr
         /\ \A m \in Macs, a \in Shorts : Holds(m, a)' <=> Holds(m, a)
<1>1. /\ f.from \in Macs /\ f.addr \in Shorts /\ NoMac \notin Macs
      /\ f.mac = f.from \/ f.mac = NoMac
  BY StoredShort, SizesAssumption DEF Frame, NoMac
<1>2. \A m \in Macs : network[m] \in Shorts
  BY StoredShort DEF TypeOK
<1>. QED BY <1>1, <1>2 DEF Sent, TypeOK, Holds

LEMMA SentStep ==
  ASSUME TypeOK, AddressesFit, NetworkOK, NetworkFollowed, AddressOwn, UpdateListed,
         NEW f \in Frame, Sent(f)
  PROVE  NetworkOK' /\ NetworkFollowed' /\ AddressOwn' /\ UpdateListed'
<1>1. PICK e \in Nat \ {0} : e = End /\ e = Len(line) + 1
  BY LineFacts
<1>2. /\ DOMAIN line = 1 .. e - 1 /\ DOMAIN line' = 1 .. e /\ line'[e] = f
      /\ \A k \in DOMAIN line : line'[k] = line[k] /\ k \in 1 .. e
      /\ \A m : \A k \in 1 .. e : Silent(m, k)' <=> Silent(m, k)
      /\ \A m : \A j, k \in 1 .. e : LatestBefore(m, j, k)' <=> LatestBefore(m, j, k)
  BY <1>1, LineFacts, AppendLine DEF Sent
<1>3. ASSUME NEW m
      PROVE  /\ Silent(m, End)' => Silent(m, e) /\ f.mac # m
             /\ \A j \in 1 .. e : LatestBefore(m, j, End)' =>
                  \/ j = e /\ f.mac = m
                  \/ LatestBefore(m, j, e) /\ f.mac # m
  <2>1. DOMAIN line' = 1 .. e /\ End' = e + 1
    BY <1>1, AppendLine DEF Sent
  <2>2. Silent(m, End)' => Silent(m, e) /\ f.mac # m
    BY <1>1, <1>2, <2>1 DEF Silent
  <2>3. ASSUME NEW j \in 1 .. e, LatestBefore(m, j, End)'
        PROVE  (j = e /\ f.mac = m) \/ (LatestBefore(m, j, e) /\ f.mac # m)
    <3>1. /\ line'[j].mac = m /\ j < e + 1
          /\ \A i \in 1 .. e : j < i => line'[i].mac # m
      BY <2>1, <2>3 DEF LatestBefore
    <3>2. CASE j = e
      <4>1. line'[e] = f
        BY <1>2
      <4>. QED BY <3>1, <3>2, <4>1
    <3>3. CASE j # e
      <4>1. j \in DOMAIN line /\ j < e /\ line[j].mac = m /\ f.mac # m
        BY <1>2, <3>1, <3>3
      <4>2. \A i \in DOMAIN line : j < i /\ i < e => line[i].mac # m
        BY <1>2, <3>1
      <4>. QED BY <4>1, <4>2 DEF LatestBefore
    <3>. QED BY <3>2, <3>3
  <2>. QED BY <2>2, <2>3
<1>4. /\ \A m : Silent(m, End) <=> Silent(m, e)
      /\ \A m, j : LatestBefore(m, j, End) <=> LatestBefore(m, j, e)
  BY <1>1
<1>5. ASSUME NEW m \in Macs
      PROVE  /\ \A j \in DOMAIN line : LatestBefore(m, j, e) => line[j].addr = network[m]
             /\ Silent(m, e) /\ m \notin missed =>
                  \A a \in Shorts : Holds(m, a) <=> a = network[m] /\ a # 0
  BY <1>4 DEF NetworkFollowed
<1>6. NetworkOK'
  BY SentFacts DEF Sent, NetworkOK, TypeOK
<1>7. NetworkFollowed'
  <2>1. ASSUME NEW m \in Macs, NEW k \in DOMAIN line', LatestBefore(m, k, End)'
        PROVE  line'[k].addr = network'[m]
    <3>1. CASE k = e /\ f.mac = m
      BY <1>2, <3>1, SentFacts
    <3>2. CASE LatestBefore(m, k, e) /\ f.mac # m
      <4>1. k \in DOMAIN line /\ network'[m] = network[m]
        BY <3>2, SentFacts DEF LatestBefore
      <4>. QED BY <1>2, <1>5, <3>2, <4>1
    <3>. QED BY <1>2, <1>3, <2>1, <3>1, <3>2
  <2>2. ASSUME NEW m \in Macs, Silent(m, End)', m \notin missed', NEW a \in Shorts
        PROVE  Holds(m, a)' <=> a = network'[m] /\ a # 0
    <3>1. Silent(m, e) /\ f.mac # m /\ m \notin missed
      BY <1>3, <2>2 DEF Sent
    <3>. QED BY <1>5, <3>1, SentFacts
  <2>. QED BY <2>1, <2>2 DEF NetworkFollowed
<1>8. ASSUME NEW k \in DOMAIN line', NEW m \in Macs, line'[k].addr # 0, m # line'[k].from
      PROVE  /\ \A j \in DOMAIN line' :
                   LatestBefore(m, j, k)' => line'[j].addr # line'[k].addr
             /\ Silent(m, k)' /\ m \notin missed' => ~Holds(m, line[k].addr)'
  <2>1. \A j \in DOMAIN line' : LatestBefore(m, j, k)' =>
          LatestBefore(m, j, k) /\ j \in DOMAIN line /\ line'[j] = line[j]
    BY <1>2 DEF LatestBefore
  <2>2. Silent(m, k)' /\ m \notin missed' => Silent(m, k) /\ m \notin missed
    BY <1>2 DEF Sent
  <2>3. CASE k = e
    <3>1. line'[k] = f /\ network[m] # f.addr
      BY <1>2, <1>8, <2>3 DEF Sent
    <3>2. Holds(m, line[k].addr)' <=> Holds(m, f.addr)
      BY <3>1 DEF Holds, Sent
    <3>. QED BY <1>5, <2>1, <2>2, <2>3, <3>1, <3>2, SentFacts
  <2>4. CASE k \in DOMAIN line
    <3>1. line'[k] = line[k] /\ (Holds(m, line[k].addr)' <=> Holds(m, line[k].addr))
      BY <1>2, <2>4 DEF Holds, Sent
    <3>. QED BY <1>8, <2>1, <2>2, <2>4, <3>1 DEF AddressOwn
  <2>. QED BY <1>2, <2>3, <2>4
<1>9. ASSUME NEW k \in DOMAIN line', NEW m \in Macs,
             line'[k].cmd = "DEV_UPDATE_SHORT_ADDR", line'[k].mac = m
      PROVE  /\ \A j \in DOMAIN line' : LatestBefore(m, j, k)' => line'[j].addr # 0
             /\ Silent(m, k)' /\ m \notin missed' => \E a \in Shorts : Holds(m, a)'
  <2>1. \A j \in DOMAIN line' : LatestBefore(m, j, k)' =>
          LatestBefore(m, j, k) /\ j \in DOMAIN line /\ line'[j] = line[j]
    BY <1>2 DEF LatestBefore
  <2>2. Silent(m, k)' /\ m \notin missed' => Silent(m, k) /\ m \notin missed
    BY <1>2 DEF Sent
  <2>3. CASE k = e
    <3>0. f.mac = m /\ f.from = m
      BY <1>2, <1>9, <2>3 DEF Frame, Announcing
    <3>1. network[m] # 0 /\ network[m] \in Shorts
      BY <1>2, <1>9, <2>3, <3>0, SentFacts DEF Sent
    <3>. QED BY <1>5, <2>1, <2>2, <2>3, <3>1, SentFacts
  <2>4. CASE k \in DOMAIN line
    BY <1>2, <1>9, <2>1, <2>2, <2>4, SentFacts DEF UpdateListed
  <2>. QED BY <1>2, <2>3, <2>4
<1>. QED BY <1>6, <1>7, <1>8, <1>9 DEF AddressOwn, UpdateListed

\* The list keeps its devices and their addresses.
LEMMA QuietStep ==
  ASSUME UNCHANGED <<line, network, missed>>,
         \A p \in Places : /\ devList'[p].mac = devList[p].mac
                           /\ devList'[p].shortAddr = devList[p].shortAddr
  PROVE  LineInv => LineInv'
<1>1. ASSUME NEW m, NEW a PROVE Holds(m, a)' <=> Holds(m, a)
  BY DEF Holds
<1>2. /\ ListOK => ListOK'
      /\ NetworkOK => NetworkOK'
      /\ \A p \in Places : Listed(p)' <=> Listed(p)
  BY DEF ListOK, Listed, NetworkOK
<1>3. ListDistinct => ListDistinct'
  BY <1>1 DEF ListDistinct
<1>4. ASSUME NEW m, NEW k
      PROVE  /\ Silent(m, k)' <=> Silent(m, k)
             /\ Silent(m, End)' <=> Silent(m, End)
             /\ \A j : LatestBefore(m, j, k)' <=> LatestBefore(m, j, k)
             /\ \A j : LatestBefore(m, j, End)' <=> LatestBefore(m, j, End)
  BY DEF Silent, LatestBefore, End
<1>5. NetworkFollowed => NetworkFollowed'
  BY <1>1, <1>4 DEF NetworkFollowed
<1>6. AddressOwn => AddressOwn'
  <2>1. ASSUME NEW m, NEW k PROVE Holds(m, line[k].addr)' <=> Holds(m, line[k].addr)
    BY DEF Holds
  <2>2. SUFFICES ASSUME AddressOwn, NEW k \in DOMAIN line, NEW m \in Macs,
                        line[k].addr # 0 /\ m # line[k].from
                 PROVE  /\ \A j \in DOMAIN line :
                             LatestBefore(m, j, k)' => line[j].addr # line[k].addr
                        /\ Silent(m, k)' /\ m \notin missed => ~Holds(m, line[k].addr)'
    BY DEF AddressOwn
  <2>. QED BY <1>4, <2>1, <2>2 DEF AddressOwn
<1>7. UpdateListed => UpdateListed'
  BY <1>1, <1>4 DEF UpdateListed
<1>8. ASSUME LineInv, AddressesFit
      PROVE  /\ NetworkOK' /\ ListOK'
             /\ NetworkFollowed' /\ AddressOwn' /\ UpdateListed' /\ ListDistinct'
  BY <1>2, <1>3, <1>5, <1>6, <1>7, <1>8 DEF LineInv
<1>9. AddressesFit' <=> AddressesFit
  BY DEF AddressesFit
<1>. QED BY <1>8, <1>9 DEF LineInv

\* One place of the list is given to the device m, or renewed, or emptied.
LEMMA ReplacedFacts ==
  ASSUME TypeOK, ListOK, NEW m \in Macs, NEW p \in Places, NEW d \in Device,
         devList' = [devList EXCEPT ![p] = d],
         \A q \in Places : devList[q].mac = m => q = p,
         devList[p].mac \in {m, NoMac}, d.mac \in {m, NoMac}, d.mac = m => d.shortAddr # 0
  PROVE  /\ ListOK'
         /\ \A n \in Macs \ {m}, a \in Shorts : Holds(n, a)' <=> Holds(n, a)
         /\ \A a \in Shorts : Holds(m, a)' <=> d.mac = m /\ a = d.shortAddr
<1>1. m # NoMac /\ NoMac \notin Macs
  BY SizesAssumption DEF NoMac
<1>2. \A q \in Places : devList'[q] = IF q = p THEN d ELSE devList[q]
  BY DEF TypeOK
<1>3. ListOK'
  BY <1>1, <1>2 DEF ListOK, Listed
<1>4. \A n \in Macs \ {m}, a \in Shorts : Holds(n, a)' <=> Holds(n, a)
  BY <1>1, <1>2 DEF Holds
<1>5. \A a \in Shorts : Holds(m, a)' <=> d.mac = m /\ a = d.shortAddr
  BY <1>1, <1>2 DEF Holds
<1>. QED BY <1>3, <1>4, <1>5

\* The list keeps its devices and their addresses while the frame f is read or lost.
LEMMA KeptFacts ==
  ASSUME \A p \in Places : /\ devList'[p].mac = devList[p].mac
                           /\ devList'[p].shortAddr = devList[p].shortAddr
  PROVE  /\ ListOK => ListOK'
         /\ \A m, a : Holds(m, a)' <=> Holds(m, a)
BY DEF ListOK, Listed, Holds

LEMMA NewDevHeard ==
  ASSUME TypeOK, AddressesFit, ListOK, RxNewDev, NEW f \in Frame, f = Head(line)
  PROVE  Heard(f) /\ ListOK'
<1>. DEFINE own == findInDevListByMac(f.mac)
            new == FirstOf({q \in Places : ~Listed(q)})
            d == [mac |-> f.mac, shortAddr |-> f.addr, onLine |-> 1]
<1>1. f.mac \in Macs /\ f.mac # NoMac /\ f.addr # 0 /\ f.addr \in Shorts /\ Stored(f.addr) = f.addr
  BY StoredShort, SizesAssumption DEF RxNewDev, RxIs, Frame, Announcing, NoMac
<1>2. PICK p : /\ p = IF own # NoPlace THEN own ELSE new
               /\ devList' = IF p = NoPlace THEN devList ELSE [devList EXCEPT ![p] = d]
               /\ missed' = IF p = NoPlace THEN missed \cup {f.mac} ELSE missed \ {f.mac}
  BY <1>1 DEF RxNewDev
<1>3. IF own = NoPlace THEN \A q \in Places : devList[q].mac # f.mac
      ELSE own \in Places /\ devList[own].mac = f.mac
  BY FoundByMac
<1>4. new # NoPlace => new \in Places /\ devList[new].mac = NoMac
  BY FreePlace DEF Listed
<1>5. CASE p = NoPlace
  <2>1. ListOK' /\ \A n, a : Holds(n, a)' <=> Holds(n, a)
    BY <1>2, <1>5, KeptFacts
  <2>. QED BY <1>2, <1>5, <2>1 DEF Heard
<1>6. CASE p # NoPlace
  <2>1. /\ p \in Places /\ devList[p].mac \in {f.mac, NoMac}
        /\ \A q \in Places : devList[q].mac = f.mac => q = p
    BY <1>1, <1>2, <1>3, <1>4, <1>6 DEF ListOK, Listed
  <2>2. d \in Device /\ d.mac = f.mac /\ d.shortAddr = f.addr
    BY <1>1 DEF Device, Shorts
  <2>3. devList' = [devList EXCEPT ![p] = d]
    BY <1>2, <1>6
  <2>4. /\ ListOK'
        /\ \A n \in Macs \ {f.mac}, a \in Shorts : Holds(n, a)' <=> Holds(n, a)
        /\ \A a \in Shorts : Holds(f.mac, a)' <=> a = f.addr
    <3>. DEFINE m == f.mac
    <3>1. /\ m \in Macs /\ p \in Places /\ d \in Device
          /\ devList' = [devList EXCEPT ![p] = d]
          /\ \A q \in Places : devList[q].mac = m => q = p
          /\ devList[p].mac \in {m, NoMac} /\ d.mac \in {m, NoMac}
          /\ d.mac = m => d.shortAddr # 0
      BY <1>1, <2>1, <2>2, <2>3
    <3>a. d.mac = m /\ d.shortAddr = f.addr
      BY <1>1, <2>1, <2>2, <2>3
    <3>. HIDE DEF m, d
    <3>2. /\ ListOK'
          /\ \A n \in Macs \ {m}, a \in Shorts : Holds(n, a)' <=> Holds(n, a)
          /\ \A a \in Shorts : Holds(m, a)' <=> d.mac = m /\ a = d.shortAddr
      BY <3>1, ReplacedFacts
    <3>. QED BY <3>a, <3>2 DEF m
  <2>. QED BY <1>1, <1>2, <1>6, <2>4 DEF Heard
<1>. QED BY <1>5, <1>6

LEMMA LeaveHeard ==
  ASSUME TypeOK, AddressesFit, ListOK, RxLeave, NEW f \in Frame, f = Head(line)
  PROVE  Heard(f) /\ ListOK'
<1>1. f.mac \in Macs /\ f.mac # NoMac /\ f.addr = 0
  BY SizesAssumption DEF RxLeave, RxIs, Frame, Announcing, NoMac
<1>2. PICK p : /\ p = findInDevListByMac(f.mac)
               /\ devList' = IF p = NoPlace THEN devList ELSE [devList EXCEPT ![p] = NoDevice]
               /\ missed' = missed \ {f.mac}
  BY DEF RxLeave
<1>3. IF p = NoPlace THEN \A q \in Places : devList[q].mac # f.mac
      ELSE p \in Places /\ devList[p].mac = f.mac
  BY <1>2, FoundByMac
<1>4. CASE p = NoPlace
  <2>1. ListOK' /\ \A n, a : Holds(n, a)' <=> Holds(n, a)
    BY <1>2, <1>4, KeptFacts
  <2>2. \A a : ~Holds(f.mac, a)
    BY <1>3, <1>4 DEF Holds
  <2>. QED BY <1>1, <1>2, <1>4, <2>1, <2>2 DEF Heard
<1>5. CASE p # NoPlace
  <2>1. \A q \in Places : devList[q].mac = f.mac => q = p
    BY <1>1, <1>3, <1>5 DEF ListOK, Listed
  <2>2. NoDevice \in Device /\ NoDevice.mac = NoMac
    BY SizesAssumption DEF NoDevice, Device
  <2>3. /\ ListOK'
        /\ \A n \in Macs \ {f.mac}, a \in Shorts : Holds(n, a)' <=> Holds(n, a)
        /\ \A a \in Shorts : ~Holds(f.mac, a)'
    <3>. DEFINE m == f.mac
                d == NoDevice
    <3>1. /\ m \in Macs /\ p \in Places /\ d \in Device
          /\ devList' = [devList EXCEPT ![p] = d]
          /\ \A q \in Places : devList[q].mac = m => q = p
          /\ devList[p].mac \in {m, NoMac} /\ d.mac \in {m, NoMac}
          /\ d.mac = m => d.shortAddr # 0
      BY <1>1, <1>2, <1>3, <1>5, <2>1, <2>2
    <3>. HIDE DEF m, d
    <3>2. /\ ListOK'
          /\ \A n \in Macs \ {m}, a \in Shorts : Holds(n, a)' <=> Holds(n, a)
          /\ \A a \in Shorts : Holds(m, a)' <=> d.mac = m /\ a = d.shortAddr
      BY <3>1, ReplacedFacts
    <3>. QED BY <1>1, <2>2, <3>2 DEF m, d
  <2>. QED BY <1>1, <1>2, <2>3 DEF Heard
<1>. QED BY <1>4, <1>5

LEMMA UpdateHeard ==
  ASSUME TypeOK, AddressesFit, ListOK, UpdateListed, RxUpdateAddr,
         NEW f \in Frame, f = Head(line)
  PROVE  /\ Heard(f) /\ ListOK'
         /\ rx'.at = "check" => devList'[rx'.pRam].mac = rx'.from
<1>1. /\ f.mac \in Macs /\ f.mac # NoMac /\ f.addr # 0 /\ f.addr \in Shorts
      /\ Stored(f.addr) = f.addr /\ f.from = f.mac
  BY StoredShort, SizesAssumption DEF RxUpdateAddr, RxIs, Frame, Announcing, NoMac
<1>2. PICK p : /\ p = findInDevListByMac(f.mac)
               /\ devList' = IF p = NoPlace THEN devList
                             ELSE [devList EXCEPT ![p].shortAddr = f.addr]
               /\ missed' = IF p = NoPlace THEN missed ELSE missed \ {f.mac}
               /\ Handled(p)
  BY <1>1 DEF RxUpdateAddr
<1>3. IF p = NoPlace THEN \A q \in Places : devList[q].mac # f.mac
      ELSE p \in Places /\ devList[p].mac = f.mac
  BY <1>2, FoundByMac
<1>4. CASE p = NoPlace
  <2>1. ListOK' /\ \A n, a : Holds(n, a)' <=> Holds(n, a)
    BY <1>2, <1>4, KeptFacts
  <2>2. f.mac \in missed
    <3>1. 1 \in DOMAIN line /\ f = line[1] /\ f.cmd = "DEV_UPDATE_SHORT_ADDR"
      BY LineFacts, EmptySeq, HeadTailProperties DEF RxUpdateAddr, RxIs, TypeOK
    <3>2. Silent(f.mac, 1)
      BY LineFacts DEF Silent
    <3>. QED BY <1>1, <1>3, <1>4, <3>1, <3>2 DEF UpdateListed, Holds
  <2>3. Heard(f)
    BY <1>2, <1>4, <2>1, <2>2 DEF Heard
  <2>. QED BY <1>2, <1>4, <2>1, <2>3 DEF Handled, RxIdle
<1>5. CASE p # NoPlace
  <2>. DEFINE d == [devList[p] EXCEPT !.shortAddr = f.addr]
  <2>1. \A q \in Places : devList[q].mac = f.mac => q = p
    BY <1>1, <1>3, <1>5 DEF ListOK, Listed
  <2>2. devList[p] \in Device
    BY <1>3, <1>5 DEF TypeOK
  <2>3. d \in Device /\ d.mac = f.mac /\ d.shortAddr = f.addr
    BY <1>1, <1>3, <1>5, <2>2 DEF Device, Shorts
  <2>4. devList' = [devList EXCEPT ![p] = d]
    BY <1>2, <1>3, <1>5
  <2>5. /\ ListOK'
        /\ \A n \in Macs \ {f.mac}, a \in Shorts : Holds(n, a)' <=> Holds(n, a)
        /\ \A a \in Shorts : Holds(f.mac, a)' <=> a = f.addr
    <3>. DEFINE m == f.mac
    <3>1. /\ m \in Macs /\ p \in Places /\ d \in Device
          /\ devList' = [devList EXCEPT ![p] = d]
          /\ \A q \in Places : devList[q].mac = m => q = p
          /\ devList[p].mac \in {m, NoMac} /\ d.mac \in {m, NoMac}
          /\ d.mac = m => d.shortAddr # 0
      BY <1>1, <1>3, <1>5, <2>1, <2>3, <2>4
    <3>a. d.mac = m /\ d.shortAddr = f.addr
      BY <1>1, <1>3, <1>5, <2>1, <2>3, <2>4
    <3>. HIDE DEF m, d
    <3>2. /\ ListOK'
          /\ \A n \in Macs \ {m}, a \in Shorts : Holds(n, a)' <=> Holds(n, a)
          /\ \A a \in Shorts : Holds(m, a)' <=> d.mac = m /\ a = d.shortAddr
      BY <3>1, ReplacedFacts
    <3>. QED BY <3>a, <3>2 DEF m
  <2>6. Heard(f)
    BY <1>1, <1>2, <2>5 DEF Heard
  <2>7. devList'[p].mac = f.mac /\ rx'.pRam = p /\ rx'.from = f.from
    <3>. HIDE DEF d
    <3>. QED BY <1>2, <1>3, <1>5, <2>3, <2>4 DEF Handled, TypeOK
  <2>. QED BY <1>1, <2>5, <2>6, <2>7
<1>. QED BY <1>4, <1>5

\* A frame that does not announce is read.
LEMMA SpokenHeard ==
  ASSUME NEW f \in Frame, f.mac = NoMac, UNCHANGED missed,
         \A p \in Places : /\ devList'[p].mac = devList[p].mac
                           /\ devList'[p].shortAddr = devList[p].shortAddr
  PROVE  Heard(f) /\ (ListOK => ListOK')
BY KeptFacts DEF Heard

LEMMA LoseHeard ==
  ASSUME TypeOK, Lose, NEW f \in Frame, f = Head(line)
  PROVE  Heard(f) /\ (ListOK => ListOK')
<1>1. UNCHANGED devList /\ missed' = IF f.mac = NoMac THEN missed ELSE missed \cup {f.mac}
  BY DEF Lose
<1>2. (ListOK => ListOK') /\ \A n, a : Holds(n, a)' <=> Holds(n, a)
  BY <1>1, KeptFacts
<1>. QED BY <1>1, <1>2 DEF Heard

LEMMA HeardStep ==
  ASSUME TypeOK, TypeOK', AddressesFit, LineInv, line # <<>>, line' = Tail(line),
         network' = network, NEW f \in Frame, f = Head(line), Heard(f), ListOK'
  PROVE  LineInv'
<1>1. /\ NetworkOK /\ ListOK
      /\ NetworkFollowed /\ AddressOwn /\ UpdateListed /\ ListDistinct
  BY DEF LineInv
<1>2. NetworkOK'
  BY <1>1 DEF NetworkOK
<1>. QED BY <1>1, <1>2, HeardFollowed, HeardOwn, HeardUpdate, HeardDistinct DEF LineInv

-----------------------------------------------------------------------------
(* Steps of the line and the list *)

\* The steps in which a frame leaves the line.
Reading ==
  Lose \/ RxNewDev \/ RxLeave \/ RxUpdateAddr \/ RxReport \/ RxOffline \/ RxOnOffDone

\* The receive thread's answers to what is not an announcement keep devices and addresses.
LEMMA OnLineKept ==
  ASSUME TypeOK, PlacesInHand, RxReport \/ RxOffline \/ RxOnOffDone \/ RxCheck \/ SweepDeclare
  PROVE  \A p \in Places : /\ devList'[p].mac = devList[p].mac
                           /\ devList'[p].shortAddr = devList[p].shortAddr
<1>1. ASSUME NEW q \in Places, NEW b \in {0, 1}, devList' = [devList EXCEPT ![q].onLine = b],
             NEW p \in Places
      PROVE  devList'[p].mac = devList[p].mac /\ devList'[p].shortAddr = devList[p].shortAddr
  <2>1. devList[p] \in Device /\ devList[q] \in Device
    BY DEF TypeOK
  <2>. QED BY <1>1, <2>1 DEF TypeOK, Device
<1>2. CASE UNCHANGED devList
  BY <1>2
<1>3. CASE RxOffline
  <2>1. findInDevListByNwkadd(Head(line).addr) \in Places \cup {NoPlace}
    BY FoundByAddr
  <2>. QED BY <1>1, <1>2, <1>3, <2>1 DEF RxOffline
<1>4. CASE RxCheck
  BY <1>1, <1>2, <1>4 DEF RxCheck, TypeOK, PlacesInHand
<1>5. CASE SweepDeclare
  BY <1>1, <1>2, <1>5 DEF SweepDeclare, DeclaredOffline, TypeOK
<1>. QED BY <1>2, <1>3, <1>4, <1>5 DEF RxReport, RxOnOffDone

LEMMA ReadingHeard ==
  ASSUME TypeOK, PlacesInHand, AddressesFit, ListOK, UpdateListed, Reading
  PROVE  /\ line # <<>> /\ line' = Tail(line) /\ network' = network /\ ListOK'
         /\ \E f \in Frame : f = Head(line) /\ Heard(f)
<1>1. line # <<>> /\ line' = Tail(line) /\ network' = network
  BY DEF Reading, Lose, RxNewDev, RxLeave, RxUpdateAddr, RxReport, RxOffline, RxOnOffDone,
         RxIs, Handled
<1>2. PICK f \in Frame : f = Head(line)
  BY <1>1, HeadTailProperties DEF TypeOK
<1>3. ASSUME RxReport \/ RxOffline \/ RxOnOffDone PROVE Heard(f) /\ ListOK'
  <2>1. f.mac = NoMac /\ UNCHANGED missed
    BY <1>2, <1>3 DEF Frame, Announcing, RxReport, RxOffline, RxOnOffDone, RxIs
  <2>. QED BY <1>3, <2>1, OnLineKept, SpokenHeard
<1>4. ASSUME Lose \/ RxNewDev \/ RxLeave \/ RxUpdateAddr PROVE Heard(f) /\ ListOK'
  BY <1>2, <1>4, LoseHeard, NewDevHeard, LeaveHeard, UpdateHeard
<1>. QED BY <1>1, <1>2, <1>3, <1>4 DEF Reading

LEMMA CoordinatorSent ==
  ASSUME TypeOK, NetworkOK, Coordinator
  PROVE  /\ \E f \in Frame : Sent(f)
         /\ UNCHANGED <<devList, uartCTRLCmd, rx, sweep, lost, missed>>
<1>. PICK m \in Macs : ZcJoin(m) \/ ZcLeave(m) \/ ZcMove(m) \/ ZcSpeak(m)
  BY DEF Coordinator
<1>1. NoMac \notin Macs /\ 0 \notin Addrs /\ network \in [Macs -> Addrs \cup {0}]
  BY SizesAssumption DEF NoMac, TypeOK
<1>2. CASE ZcJoin(m) \/ ZcMove(m)
  <2>1. PICK a \in FreeAddrs, cmd \in {"NEW_DEV", "DEV_UPDATE_SHORT_ADDR"} :
          /\ network' = [network EXCEPT ![m] = a] /\ Announce(cmd, m, a)
          /\ cmd = "DEV_UPDATE_SHORT_ADDR" => network[m] # 0
          /\ UNCHANGED <<devList, uartCTRLCmd, rx, sweep, lost, missed>>
    BY <1>2 DEF ZcJoin, ZcMove
  <2>2. PICK f : f = [cmd |-> cmd, mac |-> m, addr |-> a, from |-> m]
    OBVIOUS
  <2>3. a \in Addrs /\ \A n \in Macs : network[n] # a
    BY DEF FreeAddrs
  <2>4. f \in Frame
    BY <1>1, <2>2, <2>3 DEF Frame, Announcing, Speaking
  <2>5. Sent(f)
    BY <1>1, <2>1, <2>2, <2>3 DEF Sent, Announce, Send
  <2>. QED BY <2>1, <2>4, <2>5
<1>3. CASE ZcLeave(m)
  <2>1. PICK f : f = [cmd |-> "DEV_LEAVE", mac |-> m, addr |-> 0, from |-> m]
    OBVIOUS
  <2>2. f \in Frame
    BY <1>1, <2>1 DEF Frame, Announcing, Speaking
  <2>3. Sent(f)
    BY <1>1, <1>3, <2>1 DEF Sent, ZcLeave, Announce, Send
  <2>. QED BY <1>3, <2>2, <2>3 DEF ZcLeave
<1>4. CASE ZcSpeak(m)
  <2>1. PICK cmd \in Speaking : Send(cmd, NoMac, network[m], m)
    BY <1>4 DEF ZcSpeak, Speaking
  <2>2. PICK f : f = [cmd |-> cmd, mac |-> NoMac, addr |-> network[m], from |-> m]
    OBVIOUS
  <2>3. network[m] # 0 /\ \A n \in Macs \ {m} : network[n] # network[m]
    BY <1>4 DEF ZcSpeak, NetworkOK
  <2>4. f \in Frame
    BY <1>1, <2>2, <2>3 DEF Frame, Announcing, Speaking
  <2>5. network' = [network EXCEPT ![m] = network[m]]
    BY <1>1, <1>4 DEF ZcSpeak
  <2>6. Sent(f)
    BY <1>1, <1>4, <2>1, <2>2, <2>3, <2>5 DEF Sent, ZcSpeak, Send, Speaking
  <2>. QED BY <1>4, <2>4, <2>6 DEF ZcSpeak
<1>. QED BY <1>2, <1>3, <1>4

LEMMA LineInit == Init => LineInv
<1>. SUFFICES ASSUME Init, AddressesFit
              PROVE  /\ NetworkOK /\ ListOK
                     /\ NetworkFollowed /\ AddressOwn /\ UpdateListed /\ ListDistinct
  BY DEF LineInv
<1>1. line = <<>> /\ DOMAIN line = {} /\ \A p \in Places : devList[p] = NoDevice
  BY DEF Init
<1>2. \A m \in Macs : \A a : ~Holds(m, a)
  BY <1>1, SizesAssumption DEF Holds, NoDevice, NoMac
<1>3. NetworkOK /\ ListOK
  BY <1>1 DEF Init, NetworkOK, ListOK, Listed, NoDevice
<1>4. NetworkFollowed
  BY <1>1, <1>2 DEF NetworkFollowed, Init
<1>. QED BY <1>1, <1>2, <1>3, <1>4 DEF AddressOwn, UpdateListed, ListDistinct

LEMMA LineStep ==
  TypeOK /\ PlacesInHand /\ TypeOK' /\ LineInv /\ [Next]_vars => LineInv'
<1>. SUFFICES ASSUME TypeOK, PlacesInHand, TypeOK', LineInv, [Next]_vars PROVE LineInv'
  OBVIOUS
<1>1. CASE ~AddressesFit
  BY <1>1 DEF LineInv, AddressesFit
<1>2. CASE Reading /\ AddressesFit
  <2>1. /\ line # <<>> /\ line' = Tail(line) /\ network' = network /\ ListOK'
        /\ \E f \in Frame : f = Head(line) /\ Heard(f)
    BY <1>2, ReadingHeard DEF LineInv
  <2>2. PICK f \in Frame : f = Head(line) /\ Heard(f)
    BY <2>1
  <2>. QED BY <1>2, <2>1, <2>2, HeardStep
<1>3. CASE Coordinator /\ AddressesFit
  <2>1. PICK f \in Frame : Sent(f)
    BY <1>3, CoordinatorSent DEF LineInv
  <2>2. NetworkOK' /\ NetworkFollowed' /\ AddressOwn' /\ UpdateListed'
    BY <1>3, <2>1, SentStep DEF LineInv
  <2>3. ListOK' /\ ListDistinct'
    <3>1. UNCHANGED <<devList, missed>>
      BY <2>1 DEF Sent
    <3>. QED BY <1>3, <3>1 DEF LineInv, ListOK, Listed, ListDistinct, Holds
  <2>. QED BY <2>2, <2>3 DEF LineInv
<1>4. CASE RxCheck \/ SenderThread \/ UNCHANGED vars
  <2>1. UNCHANGED <<line, network, missed>>
    BY <1>4 DEF RxCheck, SenderThread, Command, SweepEntry, SweepFind, SweepDeclare, vars
  <2>2. CASE RxCheck \/ SweepDeclare
    BY <2>1, <2>2, OnLineKept, QuietStep
  <2>3. CASE UNCHANGED devList
    BY <2>1, <2>3, QuietStep
  <2>. QED BY <1>4, <2>2, <2>3 DEF SenderThread, Command, SweepEntry, SweepFind, vars
<1>. QED BY <1>1, <1>2, <1>3, <1>4 DEF Next, RxThread, Reading

-----------------------------------------------------------------------------
(* Who reports, and who is declared offline *)

\* The device that reports is the one found at the address of its frame, or that one's
\* latest announcement was lost.
LEMMA ReporterFound ==
  ASSUME TypeOK, AddressesFit, AddressOwn, line # <<>>,
         NEW p \in Places, Listed(p), devList[p].shortAddr = Head(line).addr,
         Head(line).mac = NoMac
  PROVE  devList[p].mac = Head(line).from \/ Missed(p)
<1>1. 1 \in DOMAIN line /\ Head(line) = line[1] /\ line[1] \in Frame
  BY LineFacts, EmptySeq, HeadTailProperties DEF TypeOK
<1>2. PICK m \in Macs : m = devList[p].mac
  BY DEF Listed, TypeOK, Device
<1>3. Holds(m, line[1].addr) /\ line[1].addr # 0
  BY <1>1, <1>2, SizesAssumption DEF Holds, Frame, Announcing, NoMac
<1>4. Silent(m, 1)
  BY LineFacts DEF Silent
<1>. QED BY <1>1, <1>2, <1>3, <1>4 DEF AddressOwn, Missed

LEMMA SenderStep ==
  TypeOK /\ PlacesInHand /\ LineInv /\ SenderFound /\ [Next]_vars => SenderFound'
<1>. SUFFICES ASSUME TypeOK, PlacesInHand, LineInv, SenderFound, [Next]_vars,
                     AddressesFit', rx'.at = "check"
              PROVE  (devList[rx.pRam].mac = rx.from \/ Missed(rx.pRam))'
  BY DEF SenderFound
<1>0. AddressesFit
  BY DEF AddressesFit
<1>1. CASE RxNewDev \/ RxLeave \/ RxOffline \/ RxOnOffDone \/ RxCheck
  BY <1>1 DEF RxNewDev, RxLeave, RxOffline, RxOnOffDone, RxCheck, Handled, RxIdle, NoPlace
<1>2. CASE RxUpdateAddr
  <2>1. PICK f \in Frame : f = Head(line)
    BY <1>2, HeadTailProperties DEF RxUpdateAddr, RxIs, TypeOK
  <2>. QED BY <1>0, <1>2, <2>1, UpdateHeard DEF LineInv
<1>3. CASE RxReport
  <2>1. /\ line # <<>> /\ Head(line).mac = NoMac /\ UNCHANGED <<devList, missed>>
    BY <1>3, HeadTailProperties DEF RxReport, RxIs, TypeOK, Frame, Announcing
  <2>2. PICK p : p = findInDevListByNwkadd(Head(line).addr) /\ Handled(p)
    BY <1>3 DEF RxReport
  <2>3. p # NoPlace /\ rx'.pRam = p /\ rx'.from = Head(line).from
    BY <2>2 DEF Handled, RxIdle
  <2>4. p \in Places /\ Listed(p) /\ devList[p].shortAddr = Head(line).addr
    BY <2>2, <2>3, FoundByAddr
  <2>5. devList[p].mac = Head(line).from \/ Missed(p)
    BY <1>0, <2>1, <2>4, ReporterFound DEF LineInv
  <2>. QED BY <2>1, <2>3, <2>5 DEF Missed
<1>4. CASE Lose \/ Coordinator \/ SenderThread \/ UNCHANGED vars
  <2>1. UNCHANGED rx /\ missed \subseteq missed' /\ rx.at = "check" /\ rx.pRam \in Places
    <3>1. UNCHANGED rx /\ missed \subseteq missed'
      BY <1>4 DEF Lose, Coordinator, ZcJoin, ZcLeave, ZcMove, ZcSpeak, SenderThread, Command,
                  SweepEntry, SweepFind, SweepDeclare, vars
    <3>. QED BY <3>1 DEF TypeOK, PlacesInHand
  <2>2. \A p \in Places : devList'[p].mac = devList[p].mac
    <3>1. CASE SweepDeclare
      BY <3>1, OnLineKept
    <3>. QED BY <1>4, <3>1 DEF Lose, Coordinator, ZcJoin, ZcLeave, ZcMove, ZcSpeak,
                  SenderThread, Command, SweepEntry, SweepFind, vars
  <2>. QED BY <1>0, <2>1, <2>2 DEF SenderFound, Missed
<1>. QED BY <1>1, <1>2, <1>3, <1>4 DEF Next, RxThread

\* What a step must keep for the commands to stay meant for the devices at their addresses.
LEMMA SteadyKept ==
  ASSUME TypeOK, AddressesFit, SteadyMeant, missed \subseteq missed',
         \A m \in Macs, a \in Shorts : Holds(m, a)' <=> Holds(m, a),
         \A i \in Controls : uartCTRLCmd'[i] = uartCTRLCmd[i] \/ uartCTRLCmd'[i].steady = 0
  PROVE  SteadyMeant'
<1>. SUFFICES ASSUME NEW i \in Controls, NEW m \in Macs, uartCTRLCmd'[i].steady = 1,
                     Holds(m, uartCTRLCmd[i].shortAddr)'
              PROVE  \/ m = uartCTRLCmd'[i].mac
                     \/ {m, uartCTRLCmd'[i].mac} \cap missed' # {}
  BY DEF SteadyMeant
<1>1. uartCTRLCmd'[i] = uartCTRLCmd[i]
  BY 1 # 0
<1>2. PICK a \in Shorts : a = uartCTRLCmd[i].shortAddr
  BY DEF TypeOK, Control, Shorts
<1>3. Holds(m, a)
  <2>1. Holds(m, a)'
    BY <1>1, <1>2 DEF Holds
  <2>. QED BY <2>1
<1>4. Holds(m, uartCTRLCmd[i].shortAddr)
  BY <1>2, <1>3 DEF Holds
<1>. QED BY <1>1, <1>4 DEF SteadyMeant

\* What is announced makes the commands unsteady for whose device or address it matters.
LEMMA SteadyHeard ==
  ASSUME TypeOK, AddressesFit, SteadyMeant, NEW f \in Frame, f.mac # NoMac, Heard(f),
         Unsteady(f.mac, f.addr)
  PROVE  SteadyMeant'
<1>. SUFFICES ASSUME NEW i \in Controls, NEW m \in Macs, uartCTRLCmd'[i].steady = 1,
                     Holds(m, uartCTRLCmd[i].shortAddr)'
              PROVE  \/ m = uartCTRLCmd'[i].mac
                     \/ {m, uartCTRLCmd'[i].mac} \cap missed' # {}
  BY DEF SteadyMeant
<1>1. uartCTRLCmd[i] \in Control /\ Stored(f.addr) = f.addr
  BY StoredShort DEF TypeOK, Frame
<1>2. /\ uartCTRLCmd'[i] = uartCTRLCmd[i]
      /\ uartCTRLCmd[i].mac # f.mac /\ uartCTRLCmd[i].shortAddr # f.addr
  BY <1>1 DEF Unsteady, Control
<1>3. PICK a \in Shorts : a = uartCTRLCmd[i].shortAddr
  BY <1>1 DEF Control, Shorts
<1>4. Holds(m, a)'
  BY <1>2, <1>3 DEF Holds
<1>5. CASE m = f.mac
  BY <1>2, <1>3, <1>4, <1>5 DEF Heard
<1>6. CASE m # f.mac
  <2>1. Holds(m, a)
    BY <1>4, <1>6 DEF Heard
  <2>2. Holds(m, uartCTRLCmd[i].shortAddr)
    BY <1>3, <2>1 DEF Holds
  <2>3. m = uartCTRLCmd[i].mac \/ {m, uartCTRLCmd[i].mac} \cap missed # {}
    BY <1>2, <2>2 DEF SteadyMeant
  <2>. QED BY <1>2, <1>6, <2>3 DEF Heard, TypeOK
<1>. QED BY <1>5, <1>6

\* A command is entered for the one device at its address.
LEMMA SteadyCommand ==
  ASSUME TypeOK, AddressesFit, ListDistinct, SteadyMeant, Command
  PROVE  SteadyMeant'
<1>1. PICK p \in Places, k \in Controls \cup {NoPlace} :
        /\ Listed(p) /\ k # NoPlace
        /\ uartCTRLCmd' = [uartCTRLCmd EXCEPT ![k] =
             [valid |-> 1, shortAddr |-> devList[p].shortAddr, mac |-> devList[p].mac,
              steady |-> 1]]
  BY FoundControl DEF Command
<1>2. UNCHANGED <<devList, missed>>
  BY DEF Command
<1>. SUFFICES ASSUME NEW i \in Controls, NEW m \in Macs, uartCTRLCmd'[i].steady = 1,
                     Holds(m, uartCTRLCmd[i].shortAddr)'
              PROVE  \/ m = uartCTRLCmd'[i].mac
                     \/ {m, uartCTRLCmd'[i].mac} \cap missed' # {}
  BY DEF SteadyMeant
<1>3. CASE i = k
  <2>1. PICK n \in Macs, a \in Shorts : n = devList[p].mac /\ a = devList[p].shortAddr
    BY <1>1 DEF TypeOK, Device, Listed, Shorts
  <2>2. uartCTRLCmd'[i].shortAddr = a /\ uartCTRLCmd'[i].mac = n
    BY <1>1, <1>3, <2>1 DEF TypeOK
  <2>3. Holds(m, a) /\ Holds(n, a)
    BY <1>2, <2>1, <2>2 DEF Holds
  <2>. QED BY <1>2, <2>2, <2>3 DEF ListDistinct
<1>4. CASE i # k
  <2>1. uartCTRLCmd'[i] = uartCTRLCmd[i]
    BY <1>1, <1>4 DEF TypeOK
  <2>2. Holds(m, uartCTRLCmd[i].shortAddr)
    BY <1>2, <2>1 DEF Holds
  <2>. QED BY <1>2, <2>1, <2>2 DEF SteadyMeant
<1>. QED BY <1>3, <1>4

\* The list's devices and their addresses, and the devices missed, as the sweep sees them.
LEMMA SweepStep ==
  TypeOK /\ PlacesInHand /\ LineInv /\ SweepInv /\ [Next]_vars => SweepInv'
<1>. SUFFICES ASSUME TypeOK, PlacesInHand, LineInv, SweepInv, [Next]_vars, AddressesFit'
              PROVE  SteadyMeant' /\ SweepHolds' /\ OfflineIsMeant'
  BY DEF SweepInv
<1>0. /\ AddressesFit /\ SteadyMeant /\ SweepHolds /\ OfflineIsMeant
      /\ ListOK /\ UpdateListed /\ ListDistinct
  BY DEF SweepInv, LineInv, AddressesFit
<1>1. CASE RxNewDev \/ RxLeave \/ RxUpdateAddr
  <2>1. PICK f \in Frame : f = Head(line) /\ Heard(f)
    BY <1>0, <1>1, ReadingHeard DEF Reading
  <2>2. f.mac # NoMac /\ Unsteady(f.mac, f.addr)
    BY <1>1, <2>1, SizesAssumption
       DEF RxNewDev, RxLeave, RxUpdateAddr, RxIs, Frame, Announcing, NoMac
  <2>3. sweep'.steady = 0
    BY <2>2 DEF Unsteady, TypeOK
  <2>. QED BY <1>0, <2>1, <2>2, <2>3, SteadyHeard DEF SweepHolds, OfflineIsMeant
<1>2. CASE Command
  BY <1>0, <1>2, SteadyCommand DEF Command, SweepHolds, OfflineIsMeant
<1>3. CASE RxReport \/ RxOffline \/ RxOnOffDone \/ RxCheck \/ Lose \/ Coordinator
           \/ SweepEntry \/ SweepFind \/ SweepDeclare \/ UNCHANGED vars
  <2>1. missed \subseteq missed'
    BY <1>3 DEF RxReport, RxOffline, RxOnOffDone, RxCheck, Lose, Coordinator, ZcJoin, ZcLeave,
                ZcMove, ZcSpeak, SweepEntry, SweepFind, SweepDeclare, vars
  <2>2. \A p \in Places : /\ devList'[p].mac = devList[p].mac
                          /\ devList'[p].shortAddr = devList[p].shortAddr
    <3>1. CASE RxReport \/ RxOffline \/ RxOnOffDone \/ RxCheck \/ SweepDeclare
      BY <3>1, OnLineKept
    <3>2. CASE Lose \/ Coordinator \/ SweepEntry \/ SweepFind \/ UNCHANGED vars
      BY <3>2 DEF Lose, Coordinator, ZcJoin, ZcLeave, ZcMove, ZcSpeak, SweepEntry, SweepFind,
                  vars
    <3>. QED BY <1>3, <3>1, <3>2
  <2>3. /\ \A i \in Controls : uartCTRLCmd'[i] = uartCTRLCmd[i] \/ uartCTRLCmd'[i] = NoControl
        /\ sweep' = sweep \/ SweepEntry \/ SweepFind \/ SweepDeclare
    BY <1>3 DEF RxReport, RxOffline, RxOnOffDone, RxCheck, Lose, Coordinator, ZcJoin, ZcLeave,
                ZcMove, ZcSpeak, SweepEntry, SweepFind, SweepDeclare, vars, TypeOK
  <2>4. SteadyMeant'
    <3>1. \A m \in Macs, a \in Shorts : Holds(m, a)' <=> Holds(m, a)
      BY <2>2, KeptFacts
    <3>2. \A i \in Controls : uartCTRLCmd'[i] = uartCTRLCmd[i] \/ uartCTRLCmd'[i].steady = 0
      BY <2>3 DEF NoControl
    <3>. QED BY <1>0, <2>1, <3>1, <3>2, SteadyKept
  <2>5. CASE sweep' = sweep
    <3>1. SweepHolds'
      <4>. SUFFICES ASSUME sweep.at = "find", sweep.steady = 1
                    PROVE  \/ uartCTRLCmd'[sweep.index].shortAddr = 0
                           \/ /\ uartCTRLCmd'[sweep.index].mac = sweep.mac
                              /\ uartCTRLCmd'[sweep.index].steady = 1
        BY <2>5 DEF SweepHolds
      <4>1. sweep.index \in Controls
        BY DEF TypeOK, PlacesInHand
      <4>. QED BY <1>0, <2>3, <4>1 DEF SweepHolds, NoControl
    <3>2. OfflineIsMeant'
      <4>1. sweep.pni # NoPlace => sweep.pni \in Places
        BY DEF TypeOK
      <4>. QED BY <1>0, <2>1, <2>2, <2>5, <4>1 DEF OfflineIsMeant
    <3>. QED BY <2>4, <3>1, <3>2
  <2>6. CASE SweepEntry
    <3>1. PICK i \in Controls :
            sweep' = [at |-> "find", index |-> i, pni |-> NoPlace, mac |-> uartCTRLCmd[i].mac,
                      steady |-> uartCTRLCmd[i].steady]
      BY <2>6 DEF SweepEntry
    <3>2. UNCHANGED uartCTRLCmd
      BY <2>6 DEF SweepEntry
    <3>. QED BY <2>4, <3>1, <3>2 DEF SweepHolds, OfflineIsMeant
  <2>7. CASE SweepFind
    <3>. DEFINE c == uartCTRLCmd[sweep.index]
    <3>1. SweepHolds'
      BY <2>7 DEF SweepFind, SweepHolds, TypeOK
    <3>2. ASSUME sweep.steady = 1, findInDevListByNwkadd(c.shortAddr) # NoPlace
          PROVE  LET p == findInDevListByNwkadd(c.shortAddr) IN
                 devList[p].mac = sweep.mac \/ {devList[p].mac, sweep.mac} \cap missed # {}
      <4>1. PICK p \in Places : /\ p = findInDevListByNwkadd(c.shortAddr)
                                /\ Listed(p) /\ devList[p].shortAddr = c.shortAddr
        BY <3>2, FoundByAddr
      <4>2. sweep.index \in Controls /\ sweep.at = "find"
        BY <2>7 DEF SweepFind, TypeOK, PlacesInHand
      <4>3. c.mac = sweep.mac /\ c.steady = 1
        BY <1>0, <3>2, <4>1, <4>2 DEF SweepHolds, ListOK
      <4>4. PICK m \in Macs : m = devList[p].mac
        BY <4>1 DEF TypeOK, Device, Listed
      <4>5. Holds(m, c.shortAddr)
        BY <4>1, <4>4 DEF Holds
      <4>6. m = c.mac \/ {m, c.mac} \cap missed # {}
        BY <1>0, <4>2, <4>3, <4>5 DEF SteadyMeant
      <4>. QED BY <4>1, <4>3, <4>4, <4>6
    <3>3. /\ UNCHANGED <<devList, missed>> /\ sweep'.mac = sweep.mac
          /\ sweep'.steady = sweep.steady /\ sweep'.pni = findInDevListByNwkadd(c.shortAddr)
      BY <2>7 DEF SweepFind, TypeOK
    <3>. QED BY <2>4, <3>1, <3>2, <3>3 DEF OfflineIsMeant
  <2>8. CASE SweepDeclare
    BY <2>4, <2>8 DEF SweepDeclare, SweepIdle, SweepHolds, OfflineIsMeant
  <2>. QED BY <2>3, <2>5, <2>6, <2>7, <2>8
<1>. QED BY <1>1, <1>2, <1>3 DEF Next, RxThread, SenderThread

DevicesInv == TypeOK /\ PlacesInHand /\ LineInv /\ SenderFound /\ SweepInv

LEMMA DevicesInvariant == Spec => []DevicesInv
<1>1. Init => DevicesInv
  <2>. SUFFICES ASSUME Init PROVE DevicesInv
    OBVIOUS
  <2>1. SenderFound /\ SweepInv
    BY DEF Init, SenderFound, SweepInv, SteadyMeant, SweepHolds, OfflineIsMeant, RxIdle,
           SweepIdle, NoControl
  <2>. QED BY <2>1, TypeInit, LineInit DEF DevicesInv
<1>2. DevicesInv /\ [Next]_vars => DevicesInv'
  BY TypeStep, LineStep, SenderStep, SweepStep DEF DevicesInv
<1>. QED BY <1>1, <1>2, PTL DEF Spec

\* However devices join, leave and take over each other's addresses while frames about
\* them are under way, what a device reports goes to the application as its own and puts
\* no other device on line, unless the other's own latest announcement was lost: for any
\* number of devices, addresses (that the field holds), places and frames under way.
THEOREM SenderAlwaysFound == Spec => []SenderFound
<1>1. DevicesInv => SenderFound
  BY DEF DevicesInv
<1>. QED BY <1>1, DevicesInvariant, PTL

\* Once the line has been read to its end the list holds exactly the devices the network
\* has, each with its address, of all of which no announcement was lost or found no room.
THEOREM ListAlwaysFollows == Spec => []ListFollows
<1>1. DevicesInv => ListFollows
  <2>. SUFFICES ASSUME DevicesInv, AddressesFit, line = <<>>, NEW m \in Macs \ missed
                PROVE  {devList[p].shortAddr : p \in {q \in Places : devList[q].mac = m}}
                         = IF network[m] = 0 THEN {} ELSE {network[m]}
    BY DEF ListFollows
  <2>1. NetworkFollowed /\ TypeOK
    BY DEF DevicesInv, LineInv
  <2>2. Silent(m, End)
    BY DEF Silent
  <2>3. \A a \in Shorts : Holds(m, a) <=> a = network[m] /\ a # 0
    BY <2>1, <2>2 DEF NetworkFollowed
  <2>4. network[m] \in Shorts /\ \A p \in Places : devList[p].shortAddr \in Shorts
    BY <2>1, StoredShort DEF TypeOK, Device, Shorts
  <2>. QED BY <2>3, <2>4 DEF Holds
<1>. QED BY <1>1, DevicesInvariant, PTL

\* The sweep declares offline the very device that an unconfirmed command was meant for,
\* if no announcement of either was lost and the gateway has been told nothing new of the
\* device or of its address since.
THEOREM OfflineAlwaysMeant == Spec => []OfflineIsMeant
<1>1. DevicesInv => OfflineIsMeant
  BY DEF DevicesInv, SweepInv, OfflineIsMeant
<1>. QED BY <1>1, DevicesInvariant, PTL
=============================================================================
