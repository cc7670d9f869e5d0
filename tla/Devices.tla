------------------------------ MODULE Devices ------------------------------
(***************************************************************************)
(* The gateway's list of devices between the frames of the coordinator     *)
(* (uartRcvDataDeal) and the sweep that declares a device offline when an  *)
(* on/off command to it stays unconfirmed (uartManageCmdControlSuccess).   *)
(* Frames name a device by its network address, which the coordinator      *)
(* changes and reuses; the list follows by the frames that announce it.    *)
(* The two threads share the list and the table of commands without a      *)
(* lock: a step is what one of them does between two looks at them.        *)
(*                                                                         *)
(* The list itself and its search are outside the repository (hm_app.h);   *)
(* a pointer to a device (pRam, pni) is the number of its place.  Fields   *)
(* of a device, and flags of the gateway, that are stored and never read   *)
(* here are left out; so is the age of a command, which may expire at any  *)
(* time.                                                                   *)
(***************************************************************************)
EXTENDS Integers, Sequences

CONSTANTS
  Macs,           \* devices, by their IEEE addresses
  Addrs,          \* network addresses the coordinator gives
  AddrSize,       \* values of HM_DEV_RAM_LIST.shortAddr, a uint8_t: 256
  SweptMacs,      \* devices of the types that the sweep declares offline
  ListSize,       \* places of the list
  ControlNum,     \* entries of uartCTRLCmd, 10
  LineMax,        \* bound on the frames under way
  MaxLost         \* bound on the frames that are lost

ASSUME SizesAssumption ==
  /\ "none" \notin Macs
  /\ Addrs \subseteq Nat \ {0}
  /\ AddrSize \in Nat \ {0}
  /\ SweptMacs \subseteq Macs
  /\ ListSize \in Nat \ {0}
  /\ ControlNum \in Nat \ {0}
  /\ LineMax \in Nat
  /\ MaxLost \in Nat

VARIABLES
  network,        \* the address each device has with the coordinator, 0: none
  line,           \* frames under way to the gateway, oldest first
  devList,        \* the list of devices
  uartCTRLCmd,    \* the commands not confirmed yet
  rx,             \* the receive thread: pRam of the frame in hand, and its sender
  sweep,          \* the sender thread's sweep: its place, entry and pni
  lost,           \* history: frames lost
  missed          \* history: devices of which the latest announcement was lost, or found
                  \* the list full

vars == <<network, line, devList, uartCTRLCmd, rx, sweep, lost, missed>>

Places == 1 .. ListSize
Controls == 1 .. ControlNum
NoPlace == 0
NoMac == "none"

NoDevice == [mac |-> NoMac, shortAddr |-> 0, onLine |-> 0]

\* mac is history: the device the command was meant for.  steady, history too, is 1 as
\* long as no frame handled since has changed what the gateway knows of that device or
\* of that address.
NoControl == [valid |-> 0, shortAddr |-> 0, mac |-> NoMac, steady |-> 0]

RxIdle == [at |-> "idle", pRam |-> NoPlace, from |-> NoMac]
SweepIdle == [at |-> "idle", index |-> 0, pni |-> NoPlace, mac |-> NoMac, steady |-> 0]

Init ==
  /\ network = [m \in Macs |-> 0]
  /\ line = <<>>
  /\ devList = [p \in Places |-> NoDevice]
  /\ uartCTRLCmd = [i \in Controls |-> NoControl]
  /\ rx = RxIdle
  /\ sweep = SweepIdle
  /\ lost = 0
  /\ missed = {}

FirstOf(S) == IF S = {} THEN NoPlace ELSE CHOOSE p \in S : \A q \in S : p <= q

Listed(p) == devList[p].mac # NoMac

\* The searches of the list: an address of 16 bits is compared with a field of 8.
findInDevListByNwkadd(a) == FirstOf({p \in Places : Listed(p) /\ devList[p].shortAddr = a})
findInDevListByMac(m) == FirstOf({p \in Places : devList[p].mac = m})

\* An address as the field of a device holds it.
Stored(a) == a % AddrSize

-----------------------------------------------------------------------------
(* The coordinator and its devices *)

FreeAddrs == {a \in Addrs : \A m \in Macs : network[m] # a}

\* from is history: the device a frame is about, which its address stands for.
Send(cmd, m, a, from) ==
  /\ Len(line) < LineMax
  /\ line' = Append(line, [cmd |-> cmd, mac |-> m, addr |-> a, from |-> from])

Announce(cmd, m, a) == Send(cmd, m, a, m)

\* A device joins, leaves, or is given another address.
ZcJoin(m) ==
  /\ network[m] = 0
  /\ \E a \in FreeAddrs : network' = [network EXCEPT ![m] = a] /\ Announce("NEW_DEV", m, a)
  /\ UNCHANGED <<devList, uartCTRLCmd, rx, sweep, lost, missed>>

ZcLeave(m) ==
  /\ network[m] # 0
  /\ network' = [network EXCEPT ![m] = 0]
  /\ Announce("DEV_LEAVE", m, 0)
  /\ UNCHANGED <<devList, uartCTRLCmd, rx, sweep, lost, missed>>

ZcMove(m) ==
  /\ network[m] # 0
  /\ \E a \in FreeAddrs :
       network' = [network EXCEPT ![m] = a] /\ Announce("DEV_UPDATE_SHORT_ADDR", m, a)
  /\ UNCHANGED <<devList, uartCTRLCmd, rx, sweep, lost, missed>>

\* A device reports something, or has obeyed an on/off command, or the coordinator has
\* not heard it or heard it again.
ZcSpeak(m) ==
  /\ network[m] # 0
  /\ \E cmd \in {"REPORT", "ONOFF_DONE", "OFFLINE", "ONLINE"} :
       Send(cmd, NoMac, network[m], m)
  /\ UNCHANGED <<network, devList, uartCTRLCmd, rx, sweep, lost, missed>>

\* A frame cut between two reads, or damaged, is lost.
Lose ==
  /\ line # <<>> /\ lost < MaxLost
  /\ line' = Tail(line)
  /\ lost' = lost + 1
  /\ missed' = IF Head(line).mac = NoMac THEN missed ELSE missed \cup {Head(line).mac}
  /\ UNCHANGED <<network, devList, uartCTRLCmd, rx, sweep>>

-----------------------------------------------------------------------------
(* The receive thread: uartRcvDataDeal *)

\* What the gateway is told of device m or address a changes: the commands meant for
\* either are not steady any more.
Unsteady(m, a) ==
  /\ uartCTRLCmd' = [i \in Controls |->
       IF uartCTRLCmd[i].mac = m \/ uartCTRLCmd[i].shortAddr = Stored(a)
       THEN [uartCTRLCmd[i] EXCEPT !.steady = 0] ELSE uartCTRLCmd[i]]
  /\ sweep' = [sweep EXCEPT !.steady = 0]

\* The frame is done with; pRam, when set, goes to the check at the end.
Handled(p) ==
  /\ line' = Tail(line)
  /\ rx' = IF p = NoPlace THEN RxIdle ELSE [at |-> "check", pRam |-> p, from |-> Head(line).from]
  /\ UNCHANGED <<network, lost>>

RxIs(cmd) == rx.at = "idle" /\ line # <<>> /\ Head(line).cmd = cmd

\* userNewDevJoiningDetectedEvent puts the device in the list, on line, or renews the
\* address of one it has.  pRam stays NULL.  A device for which the list has no room is
\* missed as if its frame had been lost.
RxNewDev ==
  /\ RxIs("NEW_DEV")
  /\ LET f == Head(line)
         p == IF findInDevListByMac(f.mac) # NoPlace THEN findInDevListByMac(f.mac)
              ELSE FirstOf({q \in Places : ~Listed(q)})
     IN  /\ devList' = IF p = NoPlace THEN devList
                       ELSE [devList EXCEPT ![p] = [mac |-> f.mac, shortAddr |-> Stored(f.addr),
                                                    onLine |-> 1]]
         /\ missed' = IF p = NoPlace THEN missed \cup {f.mac} ELSE missed \ {f.mac}
         /\ Unsteady(f.mac, f.addr)
  /\ Handled(NoPlace)

\* Mutant: a device that leaves is declared offline only.
RxLeaveKept ==
  /\ RxIs("DEV_LEAVE")
  /\ LET p == findInDevListByMac(Head(line).mac) IN
     devList' = IF p = NoPlace THEN devList ELSE [devList EXCEPT ![p].onLine = 0]
  /\ Unsteady(Head(line).mac, 0)
  /\ missed' = missed \ {Head(line).mac}
  /\ Handled(NoPlace)

\* The device is taken off the list and pRam set to NULL.
RxLeave ==
  /\ RxIs("DEV_LEAVE")
  /\ LET p == findInDevListByMac(Head(line).mac) IN
     devList' = IF p = NoPlace THEN devList ELSE [devList EXCEPT ![p] = NoDevice]
  /\ Unsteady(Head(line).mac, 0)
  /\ missed' = missed \ {Head(line).mac}
  /\ Handled(NoPlace)

RxUpdateAddr ==
  /\ RxIs("DEV_UPDATE_SHORT_ADDR")
  /\ LET f == Head(line)
         p == findInDevListByMac(f.mac)
     IN  /\ devList' = IF p = NoPlace THEN devList
                       ELSE [devList EXCEPT ![p].shortAddr = Stored(f.addr)]
         /\ missed' = IF p = NoPlace THEN missed ELSE missed \ {f.mac}
         /\ Unsteady(f.mac, f.addr)
         /\ Handled(p)

\* Alarms, reports, door and scene events: their data goes to the application with the
\* device found, and so does an answer to a read; of an unknown device they are dropped.
RxReport ==
  /\ RxIs("REPORT")
  /\ Handled(findInDevListByNwkadd(Head(line).addr))
  /\ UNCHANGED <<devList, uartCTRLCmd, sweep, missed>>

\* Mutant: the state is read from a byte of the address.
RxOfflineByte ==
  /\ \/ RxIs("OFFLINE") \/ RxIs("ONLINE")
  /\ LET p == findInDevListByNwkadd(Head(line).addr) IN
     devList' = IF p = NoPlace THEN devList ELSE [devList EXCEPT ![p].onLine = Head(line).addr]
  /\ Handled(NoPlace)
  /\ UNCHANGED <<uartCTRLCmd, sweep, missed>>

\* The coordinator's own opinion; the check at the end is for the other frames.
RxOffline ==
  /\ \/ RxIs("OFFLINE") \/ RxIs("ONLINE")
  /\ LET p == findInDevListByNwkadd(Head(line).addr) IN
     devList' = IF p = NoPlace THEN devList
                ELSE [devList EXCEPT ![p].onLine = IF Head(line).cmd = "ONLINE" THEN 1 ELSE 0]
  /\ Handled(NoPlace)
  /\ UNCHANGED <<uartCTRLCmd, sweep, missed>>

\* UART_DEAL_STA_EXE_CONTROL_CMD_SUCCESS: the command's entry is cleared.
RxOnOffDone ==
  /\ RxIs("ONOFF_DONE")
  /\ LET i == FirstOf({j \in Controls : /\ uartCTRLCmd[j].valid = 1
                                        /\ uartCTRLCmd[j].shortAddr = Head(line).addr}) IN
     uartCTRLCmd' = IF i = NoPlace THEN uartCTRLCmd
                    ELSE [uartCTRLCmd EXCEPT ![i] = NoControl]
  /\ Handled(NoPlace)
  /\ UNCHANGED <<devList, sweep, missed>>

\* Mutant: a check of the wrong state.
RxCheckOnline ==
  /\ rx.at = "check"
  /\ devList' = IF devList[rx.pRam].onLine = 1
                THEN [devList EXCEPT ![rx.pRam].onLine = 1] ELSE devList
  /\ rx' = RxIdle
  /\ UNCHANGED <<network, line, uartCTRLCmd, sweep, lost, missed>>

\* The end of uartRcvDataDeal: a device that was offline is on line again.
RxCheck ==
  /\ rx.at = "check"
  /\ devList' = IF devList[rx.pRam].onLine = 0
                THEN [devList EXCEPT ![rx.pRam].onLine = 1] ELSE devList
  /\ rx' = RxIdle
  /\ UNCHANGED <<network, line, uartCTRLCmd, sweep, lost, missed>>

RxThread ==
  \/ RxNewDev \/ RxLeave \/ RxUpdateAddr \/ RxReport \/ RxOffline \/ RxOnOffDone \/ RxCheck

-----------------------------------------------------------------------------
(* The sender thread *)

\* An on/off command to a listed device is written and entered (CmdMonitor): in the
\* entry of its address, or in a free one, or in none.
Command ==
  /\ sweep.at = "idle"
  /\ \E p \in Places :
       LET a == devList[p].shortAddr
           same == {i \in Controls : uartCTRLCmd[i].shortAddr = a}
           free == {i \in Controls : uartCTRLCmd[i].valid = 0}
           i == IF same # {} THEN FirstOf(same) ELSE FirstOf(free)
       IN  /\ Listed(p) /\ i # NoPlace
           /\ uartCTRLCmd' = [uartCTRLCmd EXCEPT ![i] =
                [valid |-> 1, shortAddr |-> a, mac |-> devList[p].mac, steady |-> 1]]
  /\ UNCHANGED <<network, line, devList, rx, sweep, lost, missed>>

\* uartManageCmdControlSuccess meets an entry that has expired ...
SweepEntry ==
  /\ sweep.at = "idle"
  /\ \E i \in Controls :
       /\ uartCTRLCmd[i].valid = 1
       /\ sweep' = [at |-> "find", index |-> i, pni |-> NoPlace, mac |-> uartCTRLCmd[i].mac,
                    steady |-> uartCTRLCmd[i].steady]
  /\ UNCHANGED <<network, line, devList, uartCTRLCmd, rx, lost, missed>>

\* Mutant: the device at the place of the entry's number.
SweepFindPlace ==
  /\ sweep.at = "find"
  /\ sweep' = [sweep EXCEPT !.at = "declare",
                 !.pni = FirstOf({p \in Places : Listed(p) /\ p = sweep.index})]
  /\ UNCHANGED <<network, line, devList, uartCTRLCmd, rx, lost, missed>>

\* ... looks up its address, which is 0 if the entry has been cleared meanwhile ...
SweepFind ==
  /\ sweep.at = "find"
  /\ sweep' = [sweep EXCEPT !.at = "declare",
                 !.pni = findInDevListByNwkadd(uartCTRLCmd[sweep.index].shortAddr)]
  /\ UNCHANGED <<network, line, devList, uartCTRLCmd, rx, lost, missed>>

DeclaredOffline(p) == p # NoPlace /\ devList[p].mac \in SweptMacs

\* ... declares the device at that place offline, if get_subdev_logon_complete, whatever
\* is there by now, and clears the entry.
SweepDeclare ==
  /\ sweep.at = "declare"
  /\ \/ /\ DeclaredOffline(sweep.pni)
        /\ devList' = [devList EXCEPT ![sweep.pni].onLine = 0]
     \/ UNCHANGED devList
  /\ uartCTRLCmd' = [uartCTRLCmd EXCEPT ![sweep.index] = NoControl]
  /\ sweep' = SweepIdle
  /\ UNCHANGED <<network, line, rx, lost, missed>>

SenderThread == Command \/ SweepEntry \/ SweepFind \/ SweepDeclare

-----------------------------------------------------------------------------
Coordinator == \E m \in Macs : ZcJoin(m) \/ ZcLeave(m) \/ ZcMove(m) \/ ZcSpeak(m)

Next == RxThread \/ SenderThread \/ Coordinator \/ Lose

Spec == Init /\ [][Next]_vars

\* The receive thread keeps reading.
FairSpec == Spec /\ WF_vars(RxThread)

-----------------------------------------------------------------------------
(* Properties *)

Announcing == {"NEW_DEV", "DEV_LEAVE", "DEV_UPDATE_SHORT_ADDR"}
Speaking == {"REPORT", "ONOFF_DONE", "OFFLINE", "ONLINE"}

\* A frame announces a device by both its addresses, or comes from one of them; only a
\* device that has left has no network address.
Frame ==
  {f \in [cmd : Announcing \cup Speaking, mac : Macs \cup {NoMac}, addr : Addrs \cup {0},
          from : Macs] :
     /\ f.mac = IF f.cmd \in Announcing THEN f.from ELSE NoMac
     /\ f.addr = 0 <=> f.cmd = "DEV_LEAVE"}

Device == [mac : Macs \cup {NoMac}, shortAddr : 0 .. AddrSize - 1, onLine : {0, 1}]

Control == [valid : {0, 1}, shortAddr : 0 .. AddrSize - 1, mac : Macs \cup {NoMac},
            steady : {0, 1}]

\* The types of the list, the table and the threads' places.
TypeOK ==
  /\ network \in [Macs -> Addrs \cup {0}]
  /\ line \in Seq(Frame) /\ Len(line) <= LineMax
  /\ devList \in [Places -> Device]
  /\ uartCTRLCmd \in [Controls -> Control]
  /\ rx \in [at : {"idle", "check"}, pRam : Places \cup {NoPlace}, from : Macs \cup {NoMac}]
  /\ sweep \in [at : {"idle", "find", "declare"}, index : Controls \cup {0},
                pni : Places \cup {NoPlace}, mac : Macs \cup {NoMac}, steady : {0, 1}]
  /\ lost \in 0 .. MaxLost /\ missed \subseteq Macs

\* Network addresses that the 8 bits of a device's shortAddr hold.
AddressesFit == \A a \in Addrs : a < AddrSize

Missed(p) == devList[p].mac \in missed

\* With such addresses what a device reports goes to the application as its own and
\* puts no other device on line, however devices join, leave and take over each other's
\* addresses meanwhile: only a device whose own latest announcement was lost is taken
\* for another one.
SenderFound ==
  AddressesFit /\ rx.at = "check" => devList[rx.pRam].mac = rx.from \/ Missed(rx.pRam)

\* ... and once all that is under way has been handled the list agrees with the network
\* on every device of which no announcement was lost.
ListFollows ==
  AddressesFit /\ line = <<>> =>
    \A m \in Macs \ missed :
      {devList[p].shortAddr : p \in {q \in Places : devList[q].mac = m}}
        = IF network[m] = 0 THEN {} ELSE {network[m]}

\* ... and the sweep declares offline the very device the command was meant for, if no
\* announcement of either was lost, unless what the gateway knows of the device or of its
\* address has changed since the command: the confirmation may arrive between the
\* sweep's steps, and the entry be cleared under it.
OfflineIsMeant ==
  AddressesFit /\ sweep.at = "declare" /\ sweep.steady = 1 /\ sweep.pni # NoPlace
    => devList[sweep.pni].mac = sweep.mac \/ {devList[sweep.pni].mac, sweep.mac} \cap missed # {}

\* "the dev node id was change ,it is update now": once the frame has been handled the
\* device is found under its new address.  (It fails: shortAddr has 8 bits.)
FoundWhenUpdated ==
  [][RxUpdateAddr /\ findInDevListByMac(Head(line).mac) # NoPlace
       => \E p \in Places : devList'[p].mac = Head(line).mac
                            /\ devList'[p].shortAddr = Head(line).addr]_vars

Speaks(m) == \E k \in DOMAIN line : line[k].cmd = "REPORT" /\ line[k].from = m

OnLine(m) == \E p \in Places : devList[p].mac = m /\ devList[p].onLine = 1

\* With such addresses a device the sweep may declare offline and that reports something
\* is on line in the end, whatever the sweep and the coordinator have made of it, unless
\* it is off the list or a frame was lost.
BackOnLine ==
  \A m \in SweptMacs :
    Speaks(m) ~> OnLine(m) \/ ~AddressesFit \/ lost > 0 \/ findInDevListByMac(m) = NoPlace
=============================================================================
