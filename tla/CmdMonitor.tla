----------------------------- MODULE CmdMonitor -----------------------------
(***************************************************************************)
(* The supervision of the commands sent to the Zigbee devices              *)
(* (hm_uartCmdExecute.c).  The sender thread writes a command on the       *)
(* serial line and enters it in the table uartCmdMonito; a sweep resends   *)
(* what stays unanswered and forgets it after two resends.  An on/off      *)
(* command is entered in uartCTRLCmd too, whose sweep declares the device  *)
(* offline.  The receive thread (uartRcvDataDeal) takes the entries out    *)
(* again as the answers come in.  Both threads work on the tables without  *)
(* a lock: a step of this module is what one thread does between a search  *)
(* of a table and the use it makes of the index found.                     *)
(*                                                                         *)
(* A frame is the number of the request it was built for: requests are     *)
(* numbered in the order they are written on the line.  Time is counted in *)
(* the seconds of time(NULL), as ages that stop at the limits compared to. *)
(***************************************************************************)
EXTENDS Integers, Sequences

CONSTANTS
  MonitorNum,     \* MAX_UART_CMD_MONITOR_NUM, 8
  ControlNum,     \* entries of uartCTRLCmd, 10
  MaxResend,      \* 2 in `sendCount < 2`
  ResendAfter,    \* the first second past `> 25` tenths, 3
  OfflineAfter,   \* the first second past `> 10`, 11
  Targets,        \* short addresses and end points commands go to
  Commands,       \* commands in use, among MonitoredCommands
  MaxRequests     \* bound on the commands sent

\* A command the device confirms once the ZC has accepted it: on acceptance the
\* entry's cmd becomes the MONITOR_SUB_CMD_ one.
Confirmed == {"ONOFF", "LEVEL", "COLOR", "RGBLIGHT"}

\* The device's outcome ends the supervision.
Executed == {"WD", "GROUP", "DOOR_UNLOCK", "CURTAIN_CLEAR"}

\* For the ZC itself.
ForZc == {"SET_ZC_TO_FACTORY", "SET_RSSI_REPORT"}

\* Write attribute and air quality control.
Writing == {"WRITE_ATTR", "AIR"}

\* Answers to these end no supervision.
Binding == {"BIND", "UNBIND", "PRIVATEBIND"}

MonitoredCommands ==
  Confirmed \cup Executed \cup ForZc \cup Writing \cup Binding
            \cup {"PERMIT_JOIN", "LEAVE_DEV"}

ASSUME SizesAssumption ==
  /\ MonitorNum \in Nat \ {0}
  /\ ControlNum \in Nat \ {0}
  /\ MaxResend \in Nat
  /\ ResendAfter \in Nat \ {0}
  /\ OfflineAfter \in Nat \ {0}
  /\ MaxRequests \in Nat
  /\ Commands \subseteq MonitoredCommands

ASSUME TargetsAssumption == \A t \in Targets : t = [addr |-> t.addr, ep |-> t.ep]

VARIABLES
  requests,       \* the commands written so far, oldest first
  sent,           \* how often each of them was written
  uartCmdMonito,
  uartCTRLCmd,
  sender,         \* where the sender thread stands, and its index
  rxOps,          \* table operations the answer in hand still asks for
  rxIndex         \* index the current one of them has found

senderVars == <<requests, sent, sender>>
rxVars == <<rxOps, rxIndex>>
tables == <<uartCmdMonito, uartCTRLCmd>>
vars == <<requests, sent, uartCmdMonito, uartCTRLCmd, sender, rxOps, rxIndex>>

Monitors == 0 .. MonitorNum - 1
Controls == 0 .. ControlNum - 1

\* UART_FIND_BUF_INVALID_INDEX, what a search in vain returns.
NoIndex == -1

\* MONITOR_FINE_FOR_ANY_SHORTADDR, and what an entry cleared to zero names.
AnyTarget == [addr |-> "any", ep |-> "any"]
NoTarget == [addr |-> "zero", ep |-> "zero"]

\* An entry cleared by memset.  sub is 1 when cmd is a MONITOR_SUB_CMD_ one.
NoMonitor == [valid |-> 0, cmd |-> "none", sub |-> 0, target |-> NoTarget,
              frame |-> 0, sendCount |-> 0, age |-> 0]
NoControl == [valid |-> 0, addr |-> "zero", age |-> 0]

First(S) == IF S = {} THEN NoIndex ELSE CHOOSE i \in S : \A j \in S : i <= j

Older(age, limit) == IF age < limit THEN age + 1 ELSE age

-----------------------------------------------------------------------------
(* The tables *)

\* Mutant: a free entry preferred to the one with the key.
FillIndexFreeFirst(cmd, target) ==
  LET same == {i \in Monitors : /\ uartCmdMonito[i].cmd = cmd
                                /\ uartCmdMonito[i].sub = 0
                                /\ uartCmdMonito[i].target = target}
      free == {i \in Monitors : uartCmdMonito[i].valid = 0}
  IN  IF free # {} THEN First(free) ELSE First(same)

\* fillUartCmdMonitor: the first entry with the command's key, valid or not, or
\* else the first invalid one.
FillIndex(cmd, target) ==
  LET same == {i \in Monitors : /\ uartCmdMonito[i].cmd = cmd
                                /\ uartCmdMonito[i].sub = 0
                                /\ uartCmdMonito[i].target = target}
      free == {i \in Monitors : uartCmdMonito[i].valid = 0}
  IN  IF same # {} THEN First(same) ELSE First(free)

\* ... which is overwritten, sendCount excepted.  A full table drops the command.
fillUartCmdMonitor(r) ==
  LET i == FillIndex(requests[r].cmd, requests[r].target) IN
  uartCmdMonito' =
    IF i = NoIndex THEN uartCmdMonito
    ELSE [uartCmdMonito EXCEPT ![i] =
            [valid |-> 1, cmd |-> requests[r].cmd, sub |-> 0,
             target |-> requests[r].target, frame |-> r,
             sendCount |-> uartCmdMonito[i].sendCount, age |-> 0]]

findUartCmdMonitor(cmd, sub, target) ==
  First({i \in Monitors : /\ uartCmdMonito[i].valid = 1
                          /\ uartCmdMonito[i].cmd = cmd
                          /\ uartCmdMonito[i].sub = sub
                          /\ target \in {AnyTarget, uartCmdMonito[i].target}})

\* userFillUartCmdForControlState: keyed by the address alone, the end point is
\* commented out, and used for on/off commands alone.
ControlIndex(addr) ==
  LET same == {i \in Controls : uartCTRLCmd[i].addr = addr}
      free == {i \in Controls : uartCTRLCmd[i].valid = 0}
  IN  IF same # {} THEN First(same) ELSE First(free)

userFillUartCmdForControlState(addr) ==
  LET i == ControlIndex(addr) IN
  uartCTRLCmd' =
    IF i = NoIndex THEN uartCTRLCmd
    ELSE [uartCTRLCmd EXCEPT ![i] = [valid |-> 1, addr |-> addr, age |-> 0]]

findUartCmdForControlState(addr) ==
  First({i \in Controls : uartCTRLCmd[i].valid = 1 /\ uartCTRLCmd[i].addr = addr})

deleteUartCmdMonitor(i) == uartCmdMonito' = [uartCmdMonito EXCEPT ![i] = NoMonitor]
deleteUartCmdForControl(i) == uartCTRLCmd' = [uartCTRLCmd EXCEPT ![i] = NoControl]

Init ==
  /\ requests = <<>>
  /\ sent = <<>>
  /\ uartCmdMonito = [i \in Monitors |-> NoMonitor]
  /\ uartCTRLCmd = [i \in Controls |-> NoControl]
  /\ sender = [at |-> "idle", index |-> 0]
  /\ rxOps = <<>>
  /\ rxIndex = NoIndex

-----------------------------------------------------------------------------
(* The sender thread *)

At(place) == sender.at = place
Goto(place, i) == sender' = [at |-> place, index |-> i]

\* uartTxDataCmdDeal, a command that is monitored: a transportUartHexDataFor...
\* function writes the frame.  (A write that fails is monitored by none.)
Transmit ==
  /\ At("idle") /\ Len(requests) < MaxRequests
  /\ \E cmd \in Commands, target \in Targets :
       requests' = Append(requests, [cmd |-> cmd, target |-> target])
  /\ sent' = Append(sent, 1)
  /\ Goto("written", 0)
  /\ UNCHANGED <<tables, rxVars>>

\* Mutant: a frame entered in place of the one written.
EnterOldest ==
  /\ At("written")
  /\ fillUartCmdMonitor(1)
  /\ IF requests[Len(requests)].cmd = "ONOFF" THEN Goto("entered", 0) ELSE Goto("idle", 0)
  /\ UNCHANGED <<requests, sent, uartCTRLCmd, rxVars>>

\* ... and enters it in the table, by when the answer may have been handled.
EnterMonitor ==
  /\ At("written")
  /\ fillUartCmdMonitor(Len(requests))
  /\ IF requests[Len(requests)].cmd = "ONOFF" THEN Goto("entered", 0) ELSE Goto("idle", 0)
  /\ UNCHANGED <<requests, sent, uartCTRLCmd, rxVars>>

EnterControl ==
  /\ At("entered")
  /\ userFillUartCmdForControlState(requests[Len(requests)].target.addr)
  /\ Goto("idle", 0)
  /\ UNCHANGED <<requests, sent, uartCmdMonito, rxVars>>

\* A turn of the sender thread's loop in which userManageUartCmdMonitor is due, every
\* tenth one, or uartManageCmdControlSuccess, whose counter controlAckTime is never reset.
StartSweep ==
  /\ At("idle")
  /\ Goto("sweep", 0)
  /\ UNCHANGED <<requests, sent, tables, rxVars>>

StartControlSweep ==
  /\ At("idle")
  /\ Goto("offline", 0)
  /\ UNCHANGED <<requests, sent, tables, rxVars>>

\* Mutant: a sweep one entry too long.
AfterMonitorTooFar(i) ==
  IF i + 1 <= MonitorNum THEN Goto("sweep", i + 1) ELSE Goto("idle", 0)

\* The place after entry i of a sweep.
AfterMonitor(i) == IF i + 1 \in Monitors THEN Goto("sweep", i + 1) ELSE Goto("idle", 0)
AfterControl(i) == IF i + 1 \in Controls THEN Goto("offline", i + 1) ELSE Goto("idle", 0)

Due(e) == e.valid = 1 /\ e.age >= ResendAfter

SkipEntry ==
  /\ At("sweep") /\ ~Due(uartCmdMonito[sender.index])
  /\ AfterMonitor(sender.index)
  /\ UNCHANGED <<requests, sent, tables, rxVars>>

\* The frame is written again ("monitor resend the cmd") ...
ResendEntry ==
  LET e == uartCmdMonito[sender.index] IN
  /\ At("sweep") /\ Due(e) /\ e.sendCount < MaxResend
  /\ sent' = [sent EXCEPT ![e.frame] = @ + 1]
  /\ Goto("resent", sender.index)
  /\ UNCHANGED <<requests, tables, rxVars>>

\* Mutant: a resend that is not counted.
CountResendAgeOnly ==
  /\ At("resent")
  /\ uartCmdMonito' = [uartCmdMonito EXCEPT ![sender.index].age = 0]
  /\ AfterMonitor(sender.index)
  /\ UNCHANGED <<requests, sent, uartCTRLCmd, rxVars>>

\* ... and the entry brought up to date, even if it has been deleted meanwhile.
CountResend ==
  /\ At("resent")
  /\ uartCmdMonito' = [uartCmdMonito EXCEPT ![sender.index].sendCount = @ + 1,
                                            ![sender.index].age = 0]
  /\ AfterMonitor(sender.index)
  /\ UNCHANGED <<requests, sent, uartCTRLCmd, rxVars>>

\* Mutant: an entry passed over once its resends are used up.
ForgetEntrySkipped ==
  LET e == uartCmdMonito[sender.index] IN
  /\ At("sweep") /\ Due(e) /\ e.sendCount >= MaxResend
  /\ AfterMonitor(sender.index)
  /\ UNCHANGED <<requests, sent, tables, rxVars>>

\* "monitor delete the cmd"
ForgetEntry ==
  LET e == uartCmdMonito[sender.index] IN
  /\ At("sweep") /\ Due(e) /\ e.sendCount >= MaxResend
  /\ deleteUartCmdMonitor(sender.index)
  /\ AfterMonitor(sender.index)
  /\ UNCHANGED <<requests, sent, uartCTRLCmd, rxVars>>

Expired(c) == c.valid = 1 /\ c.age >= OfflineAfter

\* Mutant: an expired entry that is not deleted.
ControlEntryKept ==
  /\ At("offline")
  /\ AfterControl(sender.index)
  /\ UNCHANGED <<requests, sent, tables, rxVars>>

\* uartManageCmdControlSuccess: the device of an expired entry is declared offline
\* (its record is outside this module) and the entry deleted.
ControlEntry ==
  /\ At("offline")
  /\ IF Expired(uartCTRLCmd[sender.index]) THEN deleteUartCmdForControl(sender.index)
                                           ELSE UNCHANGED uartCTRLCmd
  /\ AfterControl(sender.index)
  /\ UNCHANGED <<requests, sent, uartCmdMonito, rxVars>>

Sweeping == sender.at \in {"sweep", "resent", "offline"}

\* A second passes.  The sweeps take less and read the clock once.
Tick ==
  /\ ~Sweeping
  /\ uartCmdMonito' = [i \in Monitors |->
       [uartCmdMonito[i] EXCEPT !.age =
          IF uartCmdMonito[i].valid = 1 THEN Older(@, ResendAfter) ELSE @]]
  /\ uartCTRLCmd' = [i \in Controls |->
       [uartCTRLCmd[i] EXCEPT !.age =
          IF uartCTRLCmd[i].valid = 1 THEN Older(@, OfflineAfter) ELSE @]]
  /\ UNCHANGED <<senderVars, rxVars>>

SenderThread ==
  \/ Transmit \/ EnterMonitor \/ EnterControl \/ StartSweep \/ StartControlSweep
  \/ SkipEntry \/ ResendEntry \/ CountResend \/ ForgetEntry \/ ControlEntry

-----------------------------------------------------------------------------
(* The receive thread: uartRcvDataDeal *)

\* What to do with the first entry a search finds.
Delete(cmd, sub, target) == [do |-> "delete", cmd |-> cmd, sub |-> sub, target |-> target]
Accept(cmd, target) == [do |-> "accept", cmd |-> cmd, sub |-> 0, target |-> target]
Clear(cmd, target) == [do |-> "clearControl", cmd |-> cmd, sub |-> 0, target |-> target]

\* An answer to a command on a device: status UART_DEAL_STA_SUCCESS (the ZC has
\* sent it), ..._EXE_CONTROL_CMD_SUCCESS (the device has obeyed), ..._NO_DEV, or
\* another.  REPORT is an attribute report of the cluster the command is for.
Status == {"SUCCESS", "EXE_SUCCESS", "NO_DEV", "FAILED", "REPORT"}

ConfirmedOps(cmd, status, target) ==
  CASE status = "SUCCESS" -> <<Accept(cmd, target)>>
    [] status = "EXE_SUCCESS" /\ cmd = "ONOFF" ->
         <<Delete(cmd, 1, target), Clear(cmd, target)>>
    [] status = "EXE_SUCCESS" /\ cmd # "ONOFF" -> <<Delete(cmd, 1, target)>>
    [] status = "NO_DEV" -> <<Delete(cmd, 0, target)>>
    [] status = "REPORT" -> <<Delete(cmd, 1, target)>>
    [] OTHER -> <<>>

\* The other answers.  To a write that failed, shortAddr and ep are uninitialised:
\* what is deleted is any entry of the command, or none.
OtherOps(cmd, status, target, wild) ==
  CASE cmd \in Executed /\ status \in {"EXE_SUCCESS", "NO_DEV"} -> <<Delete(cmd, 0, target)>>
    [] cmd \in ForZc /\ status = "SUCCESS" -> <<Delete(cmd, 0, target)>>
    [] cmd = "PERMIT_JOIN" -> <<Delete(cmd, 0, target)>>
    [] cmd = "LEAVE_DEV" -> <<Delete(cmd, 0, AnyTarget)>>
    [] cmd \in Writing /\ status = "SUCCESS" -> <<Delete(cmd, 0, target)>>
    [] cmd \in Writing /\ status # "SUCCESS" -> <<Delete(cmd, 0, wild)>>
    [] OTHER -> <<>>

Operations(cmd, status, target, wild) ==
  IF cmd \in Confirmed THEN ConfirmedOps(cmd, status, target)
                       ELSE OtherOps(cmd, status, target, wild)

\* An answer to a request written at some time, or a report, delayed or repeated at
\* will; what the answer names is what the request named.
RxReceive ==
  /\ rxOps = <<>>
  /\ \E r \in 1 .. Len(requests), status \in Status, wild \in Targets \cup {AnyTarget} :
       rxOps' = Operations(requests[r].cmd, status, requests[r].target, wild)
  /\ rxOps' # <<>>
  /\ UNCHANGED <<senderVars, tables, rxIndex>>

Found(op) == IF op.do = "clearControl" THEN findUartCmdForControlState(op.target.addr)
             ELSE findUartCmdMonitor(op.cmd, op.sub, op.target)

\* The search of the operation in hand, the last of it when it finds nothing.
RxFind ==
  /\ rxOps # <<>> /\ rxIndex = NoIndex
  /\ rxIndex' = Found(Head(rxOps))
  /\ rxOps' = IF Found(Head(rxOps)) = NoIndex THEN Tail(rxOps) ELSE rxOps
  /\ UNCHANGED <<senderVars, tables>>

\* ... and what is done at the index found, whatever sits there by now.
RxApply ==
  /\ rxIndex # NoIndex
  /\ LET op == Head(rxOps) IN
     \/ op.do = "delete" /\ deleteUartCmdMonitor(rxIndex) /\ UNCHANGED uartCTRLCmd
     \/ op.do = "clearControl" /\ deleteUartCmdForControl(rxIndex) /\ UNCHANGED uartCmdMonito
     \/ /\ op.do = "accept"
        /\ uartCmdMonito' = [uartCmdMonito EXCEPT ![rxIndex].cmd = op.cmd,
                                                  ![rxIndex].sub = 1]
        /\ UNCHANGED uartCTRLCmd
  /\ rxOps' = Tail(rxOps)
  /\ rxIndex' = NoIndex
  /\ UNCHANGED senderVars

RxThread == RxReceive \/ RxFind \/ RxApply

-----------------------------------------------------------------------------
Next == SenderThread \/ RxThread \/ Tick

Spec == Init /\ [][Next]_vars

\* The sender thread loops for ever and its loop sweeps the tables again and again;
\* time passes.  Nothing is assumed of the receive thread, nor of the answers.
FairSpec ==
  /\ Spec /\ WF_vars(SenderThread)
  /\ SF_vars(StartSweep) /\ SF_vars(StartControlSweep) /\ SF_vars(Tick)

-----------------------------------------------------------------------------
(* Properties *)

Request == [cmd : Commands, target : Targets]

\* The types of the tables, the requests and the places of the two threads.
RequestTypes ==
  /\ requests \in Seq(Request)
  /\ sent \in Seq(Nat)
  /\ Len(sent) = Len(requests)

Entry == [valid : {0, 1}, cmd : Commands \cup {"none"}, sub : {0, 1},
          target : Targets \cup {NoTarget}, frame : Nat, sendCount : Nat,
          age : 0 .. ResendAfter]

TableTypes ==
  /\ uartCmdMonito \in [Monitors -> Entry]
  /\ uartCTRLCmd \in [Controls -> [valid : {0, 1}, addr : {t.addr : t \in Targets \cup {NoTarget}},
                                   age : 0 .. OfflineAfter]]

Op == [do : {"delete", "accept", "clearControl"}, cmd : Commands, sub : {0, 1},
       target : Targets \cup {AnyTarget}]

ThreadTypes ==
  /\ sender \in [at : {"idle", "written", "entered", "sweep", "resent", "offline"},
                 index : Nat]
  /\ sender.at \in {"sweep", "resent"} => sender.index \in Monitors
  /\ At("offline") => sender.index \in Controls
  /\ sender.at \in {"written", "entered"} => requests # <<>>
  /\ rxOps \in Seq(Op)
  /\ rxIndex # NoIndex =>
       /\ rxOps # <<>>
       /\ rxIndex \in IF Head(rxOps).do = "clearControl" THEN Controls ELSE Monitors

TypeOK == RequestTypes /\ TableTypes /\ ThreadTypes

\* A command is written three times at most, however its supervision, its answers
\* and the reuse of its entry for another command interleave.
SentBounded == \A r \in 1 .. Len(sent) : sent[r] <= 1 + MaxResend

\* What a sweep may resend is, as long as the ZC has not accepted it, the latest
\* command with its key: an older one has been overwritten.  (Once accepted it is
\* kept under another key and may be resent after a newer one.)
Latest(i) ==
  LET e == uartCmdMonito[i] IN
  \A r \in e.frame + 1 .. (IF At("written") THEN Len(requests) - 1 ELSE Len(requests)) :
    requests[r] # [cmd |-> e.cmd, target |-> e.target]

UnacceptedLatest ==
  \A i \in Monitors : uartCmdMonito[i].valid = 1 /\ uartCmdMonito[i].sub = 0 => Latest(i)

Watched(r) == \E i \in Monitors : uartCmdMonito[i].valid = 1 /\ uartCmdMonito[i].frame = r

\* Once the entry of a command is gone, or never was, the command is not written
\* again and no entry comes back for it, but for the one being entered.
ForgottenForGood ==
  [][\A r \in 1 .. Len(requests) :
       ~Watched(r) /\ ~(At("written") /\ r = Len(requests))
         => sent'[r] = sent[r] /\ ~Watched(r)']_vars

\* "level control delete monitor": once an answer that the device is not there has been
\* handled, no level command for it is supervised.  (It fails: the ZC's acceptance has
\* given the entry another key, under which this answer does not look.)
NoDevDeletesLevel ==
  [][\A t \in Targets :
       rxOps = <<Delete("LEVEL", 0, t)>> /\ rxOps' = <<>> =>
         ~\E i \in Monitors : /\ uartCmdMonito'[i].valid = 1
                              /\ uartCmdMonito'[i].cmd = "LEVEL"
                              /\ uartCmdMonito'[i].target = t]_vars

\* No entry of either table stays for ever: what is never answered is forgotten, and
\* the device of an on/off command never confirmed is declared offline.
EntriesFreed == \A i \in Monitors : uartCmdMonito[i].valid = 1 ~> uartCmdMonito[i].valid = 0
ControlsFreed == \A i \in Controls : uartCTRLCmd[i].valid = 1 ~> uartCTRLCmd[i].valid = 0
=============================================================================
