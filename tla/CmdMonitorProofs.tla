--------------------------- MODULE CmdMonitorProofs ---------------------------
(***************************************************************************)
(* Proofs about CmdMonitor, for any number of table entries, devices and   *)
(* requests and any limits: the types, that a command is written 1 +       *)
(* MaxResend times at most, that what has left the table stays out, and    *)
(* that what may be resent before its acceptance is the latest command     *)
(* with its key.                                                           *)
(*                                                                         *)
(* EntryInv ties the valid entries to the requests they were made for, and *)
(* the count kept in an entry to the number of times its frame has been    *)
(* written, whatever the receive thread deletes meanwhile.                 *)
(***************************************************************************)
EXTENDS CmdMonitor, NumberFacts, SequenceTheorems, TLAPS

-----------------------------------------------------------------------------
(* Searches *)

\* A search that is not in vain returns one of the entries looked for.
LEMMA FirstFound ==
  ASSUME NEW S \in SUBSET Nat
  PROVE  (S = {} /\ First(S) = NoIndex) \/ (S # {} /\ First(S) \in S)
<1>1. CASE S = {}
  BY <1>1 DEF First
<1>2. CASE S # {}
  <2>1. \E i \in S : \A j \in S : i <= j
    BY <1>2, LeastNat
  <2>. QED BY <1>2, <2>1 DEF First
<1>. QED BY <1>1, <1>2

LEMMA IndexTypes ==
  /\ \A cmd, target : FillIndex(cmd, target) \in Monitors \cup {NoIndex}
  /\ \A cmd, sub, target : findUartCmdMonitor(cmd, sub, target) \in Monitors \cup {NoIndex}
  /\ \A addr : ControlIndex(addr) \in Controls \cup {NoIndex}
  /\ \A addr : findUartCmdForControlState(addr) \in Controls \cup {NoIndex}
<1>1. \A S \in SUBSET Monitors : First(S) \in Monitors \cup {NoIndex}
  <2>1. SUBSET Monitors \subseteq SUBSET Nat
    BY SizesAssumption DEF Monitors
  <2>. QED BY <2>1, FirstFound
<1>2. \A S \in SUBSET Controls : First(S) \in Controls \cup {NoIndex}
  <2>1. SUBSET Controls \subseteq SUBSET Nat
    BY SizesAssumption DEF Controls
  <2>. QED BY <2>1, FirstFound
<1>. QED BY <1>1, <1>2 DEF FillIndex, findUartCmdMonitor, ControlIndex,
                            findUartCmdForControlState

-----------------------------------------------------------------------------
(* Types *)

\* A cleared entry has the type of an entry.
LEMMA ClearedTypes ==
  /\ NoMonitor \in Entry
  /\ NoControl \in [valid : {0, 1}, addr : {t.addr : t \in Targets \cup {NoTarget}},
                   age : 0 .. OfflineAfter]
<1>. USE SizesAssumption
<1>1. NoMonitor \in Entry
  BY DEF NoMonitor, Entry
<1>2. "zero" \in {t.addr : t \in Targets \cup {NoTarget}}
  <2>1. NoTarget.addr = "zero"
    BY DEF NoTarget
  <2>. QED BY <2>1
<1>. QED BY <1>1, <1>2 DEF NoControl

\* What an update of an entry leaves is an entry.
LEMMA UpdatedTypes ==
  ASSUME NEW e \in Entry, NEW n \in Nat, NEW a \in 0 .. ResendAfter
  PROVE  /\ [e EXCEPT !.sendCount = n, !.age = a] \in Entry
         /\ [e EXCEPT !.age = a] \in Entry
         /\ \A cmd \in Commands : [e EXCEPT !.cmd = cmd, !.sub = 1] \in Entry
  BY DEF Entry

LEMMA TypeInit == Init => TypeOK
<1>. SUFFICES ASSUME Init PROVE TypeOK
  OBVIOUS
<1>. USE SizesAssumption
<1>1. RequestTypes
  BY DEF Init, RequestTypes
<1>3. TableTypes
  BY ClearedTypes DEF Init, TableTypes
<1>4. ThreadTypes
  BY DEF Init, ThreadTypes, At, NoIndex
<1>. QED BY <1>1, <1>3, <1>4 DEF TypeOK

\* The answers ask for operations of the type declared.
LEMMA OperationsType ==
  ASSUME NEW cmd \in Commands, NEW status \in Status, NEW target \in Targets,
         NEW wild \in Targets \cup {AnyTarget}
  PROVE  Operations(cmd, status, target, wild) \in Seq(Op)
<1>1. \A sub \in {0, 1}, t \in Targets \cup {AnyTarget} : Delete(cmd, sub, t) \in Op
  BY DEF Delete, Op
<1>2. Accept(cmd, target) \in Op /\ Clear(cmd, target) \in Op
  BY DEF Accept, Clear, Op
<1>3. ConfirmedOps(cmd, status, target) \in Seq(Op)
  BY <1>1, <1>2 DEF ConfirmedOps
<1>4. OtherOps(cmd, status, target, wild) \in Seq(Op)
  BY <1>1 DEF OtherOps
<1>. QED BY <1>3, <1>4 DEF Operations

LEMMA TypeStep == TypeOK /\ [Next]_vars => TypeOK'
<1>. SUFFICES ASSUME TypeOK, [Next]_vars
              PROVE  TypeOK'
  OBVIOUS
<1>. USE SizesAssumption
<1>0. RequestTypes /\ TableTypes /\ ThreadTypes
  BY DEF TypeOK
<1>1. CASE Transmit
  <2>1. RequestTypes'
    BY <1>0, <1>1 DEF Transmit, RequestTypes, Request
  <2>2. TableTypes'
    BY <1>0, <1>1 DEF Transmit, TableTypes, tables
  <2>3. ThreadTypes'
    <3>1. requests' # <<>>
      BY <1>0, <1>1 DEF Transmit, RequestTypes
    <3>. QED BY <1>0, <1>1, <3>1 DEF Transmit, ThreadTypes, At, Goto, rxVars
  <2>. QED BY <2>1, <2>2, <2>3 DEF TypeOK
<1>2. CASE EnterMonitor
  <2>. DEFINE r == Len(requests)
              i == FillIndex(requests[r].cmd, requests[r].target)
  <2>0. r \in Nat \ {0} /\ requests[r] \in Request
    BY <1>0, <1>2 DEF EnterMonitor, RequestTypes, ThreadTypes, At
  <2>1. RequestTypes'
    BY <1>0, <1>2 DEF EnterMonitor, RequestTypes
  <2>2. i \in Monitors \cup {NoIndex}
    BY IndexTypes
  <2>3. TableTypes'
    <3>1. CASE i = NoIndex
      BY <1>0, <1>2, <3>1 DEF EnterMonitor, fillUartCmdMonitor, TableTypes
    <3>2. CASE i \in Monitors /\ i # NoIndex
      <4>. DEFINE e == [valid |-> 1, cmd |-> requests[r].cmd, sub |-> 0,
                        target |-> requests[r].target, frame |-> r,
                        sendCount |-> uartCmdMonito[i].sendCount, age |-> 0]
      <4>1. uartCmdMonito[i] \in Entry
        BY <1>0, <3>2 DEF TableTypes
      <4>2. e \in Entry
        BY <2>0, <4>1 DEF Entry, Request
      <4>3. uartCmdMonito' = [uartCmdMonito EXCEPT ![i] = e]
        BY <1>2, <3>2 DEF EnterMonitor, fillUartCmdMonitor
      <4>. QED BY <1>0, <1>2, <4>2, <4>3 DEF EnterMonitor, TableTypes
    <3>. QED BY <2>2, <3>1, <3>2
  <2>4. ThreadTypes'
    BY <1>0, <1>2 DEF EnterMonitor, ThreadTypes, At, Goto, rxVars
  <2>. QED BY <2>1, <2>3, <2>4 DEF TypeOK
<1>3. CASE EnterControl
  <2>. DEFINE r == Len(requests)
              i == ControlIndex(requests[r].target.addr)
  <2>0. r \in Nat \ {0} /\ requests[r] \in Request
    BY <1>0, <1>3 DEF EnterControl, RequestTypes, ThreadTypes, At
  <2>1. RequestTypes'
    BY <1>0, <1>3 DEF EnterControl, RequestTypes
  <2>2. i \in Controls \cup {NoIndex}
    BY IndexTypes
  <2>3. TableTypes'
    BY <1>0, <1>3, <2>0, <2>2
      DEF EnterControl, userFillUartCmdForControlState, TableTypes, Request
  <2>4. ThreadTypes'
    BY <1>0, <1>3 DEF EnterControl, ThreadTypes, At, Goto, rxVars
  <2>. QED BY <2>1, <2>3, <2>4 DEF TypeOK
<1>4. CASE StartSweep \/ StartControlSweep
  <2>1. RequestTypes' /\ TableTypes'
    BY <1>0, <1>4 DEF StartSweep, StartControlSweep, RequestTypes, TableTypes, tables
  <2>2. ThreadTypes'
    BY <1>0, <1>4 DEF StartSweep, StartControlSweep, ThreadTypes, At, Goto, rxVars,
                      Monitors, Controls
  <2>. QED BY <2>1, <2>2 DEF TypeOK
<1>5. CASE SkipEntry
  <2>1. RequestTypes' /\ TableTypes'
    BY <1>0, <1>5 DEF SkipEntry, RequestTypes, TableTypes, tables
  <2>2. ThreadTypes'
    BY <1>0, <1>5 DEF SkipEntry, AfterMonitor, ThreadTypes, At, Goto, rxVars, Monitors
  <2>. QED BY <2>1, <2>2 DEF TypeOK
<1>6. CASE ResendEntry
  <2>1. RequestTypes'
    <3>1. sent \in Seq(Nat)
      BY <1>0 DEF RequestTypes
    <3>2. \A k : [sent EXCEPT ![k] = sent[k] + 1] \in Seq(Nat)
               /\ Len([sent EXCEPT ![k] = sent[k] + 1]) = Len(sent)
      <4>. TAKE k
      <4>1. CASE k \in 1 .. Len(sent)
        <5>1. sent[k] + 1 \in Nat
          BY <3>1, <4>1
        <5>. QED BY <3>1, <4>1, <5>1, ExceptSeq
      <4>2. CASE k \notin 1 .. Len(sent)
        <5>1. [sent EXCEPT ![k] = sent[k] + 1] = sent
          BY <3>1, <4>2
        <5>. QED BY <3>1, <5>1
      <4>. QED BY <4>1, <4>2
    <3>. QED BY <1>0, <1>6, <3>2 DEF ResendEntry, RequestTypes
  <2>2. TableTypes'
    BY <1>0, <1>6 DEF ResendEntry, TableTypes, tables
  <2>3. ThreadTypes'
    BY <1>0, <1>6 DEF ResendEntry, ThreadTypes, At, Goto, rxVars
  <2>. QED BY <2>1, <2>2, <2>3 DEF TypeOK
<1>7. CASE CountResend
  <2>1. RequestTypes'
    BY <1>0, <1>7 DEF CountResend, RequestTypes
  <2>2. TableTypes'
    <3>1. sender.index \in Monitors /\ uartCmdMonito[sender.index] \in Entry
      BY <1>0, <1>7 DEF CountResend, ThreadTypes, TableTypes, At
    <3>2. [uartCmdMonito[sender.index] EXCEPT
             !.sendCount = uartCmdMonito[sender.index].sendCount + 1, !.age = 0] \in Entry
      <4>1. uartCmdMonito[sender.index].sendCount + 1 \in Nat
        BY <3>1 DEF Entry
      <4>2. 0 \in 0 .. ResendAfter
        OBVIOUS
      <4>. QED BY <3>1, <4>1, <4>2, UpdatedTypes
    <3>3. uartCmdMonito' = [uartCmdMonito EXCEPT ![sender.index] =
            [uartCmdMonito[sender.index] EXCEPT
               !.sendCount = uartCmdMonito[sender.index].sendCount + 1, !.age = 0]]
      BY <1>0, <1>7, <3>1 DEF CountResend, TableTypes, Entry
    <3>. QED BY <1>0, <1>7, <3>2, <3>3 DEF CountResend, TableTypes
  <2>3. ThreadTypes'
    BY <1>0, <1>7 DEF CountResend, AfterMonitor, ThreadTypes, At, Goto, rxVars, Monitors
  <2>. QED BY <2>1, <2>2, <2>3 DEF TypeOK
<1>8. CASE ForgetEntry
  <2>1. RequestTypes'
    BY <1>0, <1>8 DEF ForgetEntry, RequestTypes
  <2>2. TableTypes'
    BY <1>0, <1>8, ClearedTypes DEF ForgetEntry, deleteUartCmdMonitor, TableTypes
  <2>3. ThreadTypes'
    BY <1>0, <1>8 DEF ForgetEntry, AfterMonitor, ThreadTypes, At, Goto, rxVars, Monitors
  <2>. QED BY <2>1, <2>2, <2>3 DEF TypeOK
<1>9. CASE ControlEntry
  <2>1. RequestTypes'
    BY <1>0, <1>9 DEF ControlEntry, RequestTypes
  <2>2. TableTypes'
    BY <1>0, <1>9, ClearedTypes DEF ControlEntry, deleteUartCmdForControl, TableTypes
  <2>3. ThreadTypes'
    BY <1>0, <1>9 DEF ControlEntry, AfterControl, ThreadTypes, At, Goto, rxVars, Controls
  <2>. QED BY <2>1, <2>2, <2>3 DEF TypeOK
<1>10. CASE Tick
  <2>1. RequestTypes' /\ ThreadTypes'
    BY <1>0, <1>10 DEF Tick, senderVars, rxVars, RequestTypes, ThreadTypes, At
  <2>2. TableTypes'
    <3>1. uartCmdMonito' \in [Monitors -> Entry]
      <4>. SUFFICES ASSUME NEW i \in Monitors
                    PROVE  [uartCmdMonito[i] EXCEPT !.age =
                              IF uartCmdMonito[i].valid = 1
                              THEN Older(uartCmdMonito[i].age, ResendAfter)
                              ELSE uartCmdMonito[i].age] \in Entry
        BY <1>10 DEF Tick
      <4>1. uartCmdMonito[i] \in Entry
        BY <1>0 DEF TableTypes
      <4>2. uartCmdMonito[i].age \in 0 .. ResendAfter
            /\ Older(uartCmdMonito[i].age, ResendAfter) \in 0 .. ResendAfter
        BY <4>1 DEF Entry, Older
      <4>. QED BY <4>1, <4>2 DEF Entry
    <3>2. uartCTRLCmd' \in [Controls -> [valid : {0, 1},
                              addr : {t.addr : t \in Targets \cup {NoTarget}},
                              age : 0 .. OfflineAfter]]
      <4>1. \A t \in 0 .. OfflineAfter : Older(t, OfflineAfter) \in 0 .. OfflineAfter
        BY DEF Older
      <4>. QED BY <1>0, <1>10, <4>1 DEF Tick, TableTypes
    <3>. QED BY <3>1, <3>2 DEF TableTypes
  <2>. QED BY <2>1, <2>2 DEF TypeOK
<1>11. CASE RxReceive
  <2>1. RequestTypes' /\ TableTypes'
    BY <1>0, <1>11 DEF RxReceive, senderVars, tables, RequestTypes, TableTypes
  <2>2. rxOps' \in Seq(Op)
    <3>1. PICK r \in 1 .. Len(requests), status \in Status, wild \in Targets \cup {AnyTarget} :
            rxOps' = Operations(requests[r].cmd, status, requests[r].target, wild)
      BY <1>11 DEF RxReceive
    <3>2. requests[r].cmd \in Commands /\ requests[r].target \in Targets
      <4>1. requests[r] \in Request
        BY <1>0, ElementOfSeq DEF RequestTypes
      <4>. QED BY <4>1 DEF Request
    <3>. QED BY <3>1, <3>2, OperationsType
  <2>3. ThreadTypes'
    BY <1>0, <1>11, <2>2 DEF RxReceive, senderVars, ThreadTypes, At
  <2>. QED BY <2>1, <2>3 DEF TypeOK
<1>12. CASE RxFind
  <2>1. RequestTypes' /\ TableTypes'
    BY <1>0, <1>12 DEF RxFind, senderVars, tables, RequestTypes, TableTypes
  <2>2. rxIndex' # NoIndex =>
          rxIndex' \in IF Head(rxOps).do = "clearControl" THEN Controls ELSE Monitors
    BY <1>12, IndexTypes DEF RxFind, Found
  <2>3. ThreadTypes'
    BY <1>0, <1>12, <2>2 DEF RxFind, senderVars, ThreadTypes, At
  <2>. QED BY <2>1, <2>3 DEF TypeOK
<1>13. CASE RxApply
  <2>1. RequestTypes'
    BY <1>0, <1>13 DEF RxApply, senderVars, RequestTypes
  <2>2. ThreadTypes'
    BY <1>0, <1>13 DEF RxApply, senderVars, ThreadTypes, At
  <2>3. TableTypes'
    <3>1. rxOps # <<>> /\ Head(rxOps) \in Op
          /\ rxIndex \in IF Head(rxOps).do = "clearControl" THEN Controls ELSE Monitors
      BY <1>0, <1>13 DEF RxApply, ThreadTypes
    <3>2. CASE Head(rxOps).do = "delete" /\ deleteUartCmdMonitor(rxIndex)
               /\ UNCHANGED uartCTRLCmd
      BY <1>0, <3>2, ClearedTypes DEF deleteUartCmdMonitor, TableTypes
    <3>3. CASE Head(rxOps).do = "clearControl" /\ deleteUartCmdForControl(rxIndex)
               /\ UNCHANGED uartCmdMonito
      BY <1>0, <3>3, ClearedTypes DEF deleteUartCmdForControl, TableTypes
    <3>4. CASE /\ Head(rxOps).do = "accept"
               /\ uartCmdMonito' = [uartCmdMonito EXCEPT ![rxIndex].cmd = Head(rxOps).cmd,
                                                         ![rxIndex].sub = 1]
               /\ UNCHANGED uartCTRLCmd
      <4>1. rxIndex \in Monitors /\ uartCmdMonito[rxIndex] \in Entry
        BY <1>0, <3>1, <3>4 DEF TableTypes
      <4>2. [uartCmdMonito[rxIndex] EXCEPT !.cmd = Head(rxOps).cmd, !.sub = 1] \in Entry
        <5>1. Head(rxOps).cmd \in Commands
          BY <3>1 DEF Op
        <5>2. 0 \in Nat /\ 0 \in 0 .. ResendAfter
          OBVIOUS
        <5>. QED BY <4>1, <5>1, <5>2, UpdatedTypes
      <4>3. uartCmdMonito' = [uartCmdMonito EXCEPT ![rxIndex] =
              [uartCmdMonito[rxIndex] EXCEPT !.cmd = Head(rxOps).cmd, !.sub = 1]]
        BY <1>0, <3>4, <4>1 DEF TableTypes, Entry
      <4>. QED BY <1>0, <3>4, <4>2, <4>3 DEF TableTypes
    <3>. QED BY <1>13, <3>2, <3>3, <3>4 DEF RxApply
  <2>. QED BY <2>1, <2>2, <2>3 DEF TypeOK
<1>14. CASE UNCHANGED vars
  BY <1>0, <1>14 DEF vars, TypeOK, RequestTypes, TableTypes, ThreadTypes, At
<1>. QED
  BY <1>1, <1>2, <1>3, <1>4, <1>5, <1>6, <1>7, <1>8, <1>9, <1>10, <1>11, <1>12, <1>13,
     <1>14 DEF Next, SenderThread, RxThread

\* Every state the two threads reach has the types of TypeOK.
THEOREM TypeCorrect == Spec => []TypeOK
  BY TypeInit, TypeStep, PTL DEF Spec

-----------------------------------------------------------------------------
(* Entries and requests *)

Valid(i) == uartCmdMonito[i].valid = 1
Frame(i) == uartCmdMonito[i].frame

\* A valid entry is for a request made, and no two are for the same one.
Frames ==
  /\ \A i \in Monitors : Valid(i) => Frame(i) \in 1 .. Len(requests)
  /\ \A i, j \in Monitors : Valid(i) /\ Valid(j) /\ Frame(i) = Frame(j) => i = j

\* The command just written has been written once and is in no entry yet.
NotYet ==
  At("written") =>
    /\ sent[Len(requests)] = 1
    /\ \A i \in Monitors : Valid(i) => Frame(i) # Len(requests)

\* The count kept in a valid entry, ahead of sendCount while a resend is being counted.
Counted ==
  \A i \in Monitors : Valid(i) =>
    sent[Frame(i)] <= 1 + uartCmdMonito[i].sendCount
                        + (IF At("resent") /\ sender.index = i THEN 1 ELSE 0)

\* What is being counted was below the limit.
Room ==
  At("resent") /\ Valid(sender.index) => uartCmdMonito[sender.index].sendCount < MaxResend

EntryInv == Frames /\ NotYet /\ Counted /\ Room /\ SentBounded

\* Steps after which every valid entry is one that was valid, with its frame and count.
Shrunk ==
  \A i \in Monitors : Valid(i)' =>
    /\ Valid(i)
    /\ Frame(i)' = Frame(i)
    /\ uartCmdMonito'[i].sendCount = uartCmdMonito[i].sendCount

LEMMA EntryInit == Init => EntryInv
<1>. SUFFICES ASSUME Init PROVE EntryInv
  OBVIOUS
<1>1. \A i \in Monitors : ~Valid(i)
  BY DEF Init, Valid, NoMonitor
<1>2. ~At("written") /\ ~At("resent") /\ Len(sent) = 0
  BY DEF Init, At
<1>. QED BY <1>1, <1>2 DEF EntryInv, Frames, NotYet, Counted, Room, SentBounded

\* A step that writes nothing, enters nothing and counts nothing.
LEMMA QuietStep ==
  ASSUME TypeOK, TypeOK', EntryInv, Shrunk, UNCHANGED <<requests, sent>>,
         sender' = sender \/ (~At("resent") /\ ~At("resent")' /\ ~At("written")')
  PROVE  EntryInv'
<1>1. Frames'
  BY DEF EntryInv, Frames, Shrunk
<1>2. NotYet'
  BY DEF EntryInv, NotYet, Shrunk, At
<1>3. Counted'
  BY DEF EntryInv, Counted, Shrunk, At
<1>4. Room'
  BY DEF EntryInv, Room, Shrunk, At, TypeOK, ThreadTypes
<1>5. SentBounded'
  BY DEF EntryInv, SentBounded
<1>. QED BY <1>1, <1>2, <1>3, <1>4, <1>5 DEF EntryInv

\* The steps of either thread that leave the valid entries as they are, or fewer.
QuietActions ==
  \/ EnterControl \/ StartSweep \/ StartControlSweep \/ SkipEntry \/ ForgetEntry
  \/ ControlEntry \/ Tick \/ RxThread \/ UNCHANGED vars

LEMMA QuietShrunk ==
  ASSUME TypeOK, QuietActions
  PROVE  /\ Shrunk /\ UNCHANGED <<requests, sent>>
         /\ sender' = sender \/ (~At("resent") /\ ~At("resent")' /\ ~At("written")')
<1>. USE SizesAssumption
<1>0. uartCmdMonito \in [Monitors -> Entry]
  BY DEF TypeOK, TableTypes
<1>1. CASE EnterControl \/ StartSweep \/ StartControlSweep \/ SkipEntry \/ ControlEntry
           \/ UNCHANGED vars
  <2>1. uartCmdMonito' = uartCmdMonito
    BY <1>1 DEF EnterControl, StartSweep, StartControlSweep, SkipEntry, ControlEntry, tables,
                vars
  <2>2. UNCHANGED <<requests, sent>>
    BY <1>1 DEF EnterControl, StartSweep, StartControlSweep, SkipEntry, ControlEntry, vars
  <2>3. sender' = sender \/ (~At("resent") /\ ~At("resent")' /\ ~At("written")')
    BY <1>1 DEF EnterControl, StartSweep, StartControlSweep, SkipEntry, ControlEntry, vars,
                At, Goto, AfterMonitor, AfterControl
  <2>. QED BY <2>1, <2>2, <2>3 DEF Shrunk, Valid, Frame
<1>2. CASE ForgetEntry
  <2>1. Shrunk
    BY <1>0, <1>2 DEF ForgetEntry, deleteUartCmdMonitor, NoMonitor, Shrunk, Valid, Frame
  <2>. QED BY <1>2, <2>1 DEF ForgetEntry, At, Goto, AfterMonitor
<1>3. CASE Tick
  <2>1. Shrunk
    BY <1>0, <1>3 DEF Tick, Shrunk, Valid, Frame, Entry
  <2>. QED BY <1>3, <2>1 DEF Tick, senderVars
<1>4. CASE RxThread
  <2>1. UNCHANGED <<requests, sent, sender>>
    BY <1>4 DEF RxThread, RxReceive, RxFind, RxApply, senderVars
  <2>2. CASE RxReceive \/ RxFind
    BY <2>1, <2>2 DEF RxReceive, RxFind, tables, Shrunk, Valid, Frame
  <2>3. CASE RxApply
    <3>1. CASE deleteUartCmdMonitor(rxIndex)
      BY <1>0, <2>1, <3>1 DEF deleteUartCmdMonitor, NoMonitor, Shrunk, Valid, Frame
    <3>2. CASE UNCHANGED uartCmdMonito
      BY <2>1, <3>2 DEF Shrunk, Valid, Frame
    <3>3. CASE uartCmdMonito' = [uartCmdMonito EXCEPT ![rxIndex].cmd = Head(rxOps).cmd,
                                                      ![rxIndex].sub = 1]
      BY <1>0, <2>1, <3>3 DEF Shrunk, Valid, Frame, Entry
    <3>. QED BY <2>3, <3>1, <3>2, <3>3 DEF RxApply
  <2>. QED BY <1>4, <2>2, <2>3 DEF RxThread
<1>. QED BY <1>1, <1>2, <1>3, <1>4 DEF QuietActions

LEMMA EntryStep == TypeOK /\ TypeOK' /\ EntryInv /\ [Next]_vars => EntryInv'
<1>. SUFFICES ASSUME TypeOK, TypeOK', EntryInv, [Next]_vars
              PROVE  EntryInv'
  OBVIOUS
<1>. USE SizesAssumption
<1>0. /\ uartCmdMonito \in [Monitors -> Entry] /\ uartCmdMonito' \in [Monitors -> Entry]
      /\ requests \in Seq(Request) /\ sent \in Seq(Nat) /\ Len(sent) = Len(requests)
      /\ Frames /\ NotYet /\ Counted /\ Room /\ SentBounded
  BY DEF TypeOK, TableTypes, RequestTypes, EntryInv
<1>1. CASE Transmit
  <2>. DEFINE n == Len(requests)
  <2>1. /\ UNCHANGED uartCmdMonito
        /\ Len(requests') = n + 1
        /\ sent' = Append(sent, 1)
    BY <1>0, <1>1 DEF Transmit, tables
  <2>2. \A k \in 1 .. n : sent'[k] = sent[k]
    BY <1>0, <2>1
  <2>3. sent'[n + 1] = 1 /\ Len(sent') = n + 1
    BY <1>0, <2>1
  <2>4. ~At("resent") /\ ~At("resent")'
    BY <1>1 DEF Transmit, At, Goto
  <2>5. Frames'
    BY <1>0, <2>1 DEF Frames, Valid, Frame
  <2>6. NotYet'
    BY <1>0, <2>1, <2>3 DEF Frames, NotYet, Valid, Frame
  <2>7. Counted'
    BY <1>0, <2>1, <2>2, <2>4 DEF Counted, Frames, Valid, Frame
  <2>8. Room'
    BY <2>4 DEF Room
  <2>9. SentBounded'
    <3>. SUFFICES ASSUME NEW r \in 1 .. Len(sent')
                  PROVE  sent'[r] <= 1 + MaxResend
      BY DEF SentBounded
    <3>1. CASE r \in 1 .. n
      BY <1>0, <2>2, <3>1 DEF SentBounded
    <3>2. CASE r = n + 1
      BY <2>3, <3>2
    <3>. QED BY <1>0, <2>3, <3>1, <3>2
  <2>. QED BY <2>5, <2>6, <2>7, <2>8, <2>9 DEF EntryInv
<1>2. CASE EnterMonitor
  <2>. DEFINE n == Len(requests)
              index == FillIndex(requests[n].cmd, requests[n].target)
  <2>1. UNCHANGED <<requests, sent>> /\ At("written") /\ ~At("resent") /\ ~At("resent")'
        /\ ~At("written")'
    BY <1>2 DEF EnterMonitor, At, Goto
  <2>2. CASE index = NoIndex
    <3>1. uartCmdMonito' = uartCmdMonito
      BY <1>2, <2>2 DEF EnterMonitor, fillUartCmdMonitor
    <3>2. Shrunk
      BY <3>1 DEF Shrunk, Valid, Frame
    <3>. QED BY <2>1, <3>2, QuietStep
  <2>3. CASE index # NoIndex
    <3>1. PICK k \in Monitors : k = index
      BY <2>3, IndexTypes
    <3>2. /\ Valid(k)' /\ Frame(k)' = n
          /\ uartCmdMonito'[k].sendCount = uartCmdMonito[k].sendCount
          /\ \A i \in Monitors \ {k} : uartCmdMonito'[i] = uartCmdMonito[i]
      <4>. DEFINE e == [valid |-> 1, cmd |-> requests[n].cmd, sub |-> 0,
                        target |-> requests[n].target, frame |-> n,
                        sendCount |-> uartCmdMonito[k].sendCount, age |-> 0]
      <4>1. uartCmdMonito' = [uartCmdMonito EXCEPT ![k] = e]
        BY <1>2, <2>3, <3>1 DEF EnterMonitor, fillUartCmdMonitor
      <4>2. uartCmdMonito'[k] = e /\ requests' = requests
        BY <1>0, <2>1, <3>1, <4>1
      <4>. QED BY <1>0, <3>1, <4>1, <4>2 DEF Valid, Frame
    <3>3. n \in 1 .. n
      BY <1>0, <2>1 DEF TypeOK, ThreadTypes, At
    <3>4. \A i \in Monitors \ {k} : Valid(i)' => Valid(i) /\ Frame(i)' = Frame(i) /\ Frame(i) # n
      BY <1>0, <2>1, <3>2 DEF NotYet, Valid, Frame
    <3>5. Frames'
      <4>1. \A i \in Monitors : Valid(i)' => Frame(i)' \in 1 .. Len(requests')
        BY <1>0, <2>1, <3>2, <3>3, <3>4 DEF Frames, Valid, Frame
      <4>2. ASSUME NEW i \in Monitors, NEW j \in Monitors,
                   Valid(i)', Valid(j)', Frame(i)' = Frame(j)'
            PROVE  i = j
        <5>1. CASE i = k \/ j = k
          BY <3>2, <3>4, <4>2, <5>1 DEF Valid, Frame
        <5>2. CASE i # k /\ j # k
          BY <1>0, <3>4, <4>2, <5>2 DEF Frames
        <5>. QED BY <5>1, <5>2
      <4>. QED BY <4>1, <4>2 DEF Frames
    <3>6. Counted'
      <4>1. uartCmdMonito[k].sendCount \in Nat /\ sent[n] = 1
        BY <1>0, <2>1, <3>1 DEF Entry, NotYet
      <4>. SUFFICES ASSUME NEW i \in Monitors, Valid(i)'
                    PROVE  sent[Frame(i)'] <= 1 + uartCmdMonito'[i].sendCount + 0
        BY <2>1 DEF Counted, Frame
      <4>2. CASE i = k
        BY <3>2, <4>1, <4>2 DEF Frame
      <4>3. CASE i # k
        <5>1. sent[Frame(i)] <= 1 + uartCmdMonito[i].sendCount + 0
          BY <1>0, <2>1, <3>4, <4>3 DEF Counted
        <5>. QED BY <3>2, <3>4, <4>3, <5>1
      <4>. QED BY <4>2, <4>3
    <3>7. NotYet' /\ Room' /\ SentBounded'
      BY <1>0, <2>1 DEF NotYet, Room, SentBounded
    <3>. QED BY <3>5, <3>6, <3>7 DEF EntryInv
  <2>. QED BY <2>2, <2>3
<1>3. CASE ResendEntry
  <2>. DEFINE k == sender.index
              f == Frame(k)
  <2>1. /\ UNCHANGED <<requests, uartCmdMonito>>
        /\ At("sweep") /\ At("resent")' /\ sender'.index = k /\ ~At("written")'
        /\ Valid(k) /\ uartCmdMonito[k].sendCount < MaxResend
        /\ sent' = [sent EXCEPT ![f] = sent[f] + 1]
    BY <1>3 DEF ResendEntry, Due, At, Goto, Valid, Frame, tables
  <2>2. k \in Monitors /\ f \in 1 .. Len(sent)
    BY <1>0, <2>1 DEF TypeOK, ThreadTypes, At, Frames
  <2>3. /\ sent[f] \in Nat /\ uartCmdMonito[k].sendCount \in Nat
        /\ sent[f] <= 1 + uartCmdMonito[k].sendCount
    <3>1. (IF At("resent") /\ sender.index = k THEN 1 ELSE 0) = 0
      BY <2>1 DEF At
    <3>2. sent[f] \in Nat /\ uartCmdMonito[k].sendCount \in Nat
      <4>1. sent[f] \in Nat
        BY <1>0, <2>2
      <4>2. uartCmdMonito[k] \in Entry
        BY <1>0, <2>2
      <4>. QED BY <4>1, <4>2 DEF Entry
    <3>3. Counted /\ Valid(k) /\ k \in Monitors /\ f = Frame(k)
      BY <1>0, <2>1, <2>2
    <3>4. sent[f] <= 1 + uartCmdMonito[k].sendCount
                       + (IF At("resent") /\ sender.index = k THEN 1 ELSE 0)
      BY <3>3, Zenon DEF Counted
    <3>. QED BY <3>1, <3>2, <3>4
  <2>4. /\ Len(sent') = Len(sent) /\ sent'[f] = sent[f] + 1
        /\ \A r \in 1 .. Len(sent) : r # f => sent'[r] = sent[r]
    BY <1>0, <2>1, <2>2
  <2>5. SentBounded'
    <3>1. ASSUME NEW r \in 1 .. Len(sent) PROVE sent'[r] <= 1 + MaxResend
      <4>1. CASE r # f
        <5>1. sent'[r] = sent[r]
          BY <2>4, <4>1
        <5>2. sent[r] <= 1 + MaxResend
          BY <1>0 DEF EntryInv, SentBounded
        <5>. QED BY <5>1, <5>2
      <4>2. CASE r = f
        <5>0. uartCmdMonito[k].sendCount < MaxResend
          BY <2>1
        <5>1. sent[f] + 1 <= 1 + MaxResend
          BY <2>3, <5>0
        <5>. QED BY <2>4, <4>2, <5>1
      <4>. QED BY <4>1, <4>2
    <3>. QED BY <2>4, <3>1 DEF SentBounded
  <2>6. Counted'
    <3>. SUFFICES ASSUME NEW i \in Monitors, Valid(i)
                  PROVE  sent'[Frame(i)] <= 1 + uartCmdMonito[i].sendCount
                                              + (IF k = i THEN 1 ELSE 0)
      BY <2>1 DEF Counted, Valid, Frame
    <3>1. CASE i = k
      BY <2>2, <2>3, <2>4, <3>1
    <3>2. CASE i # k
      <4>1. Frame(i) # f /\ Frame(i) \in 1 .. Len(sent)
        BY <1>0, <2>1, <2>2, <3>2 DEF Frames
      <4>2. ~At("resent")
        BY <2>1 DEF At
      <4>3. sent[Frame(i)] <= 1 + uartCmdMonito[i].sendCount + 0
        BY <1>0, <4>2 DEF Counted
      <4>. QED BY <2>4, <3>2, <4>1, <4>3
    <3>. QED BY <3>1, <3>2
  <2>7. Frames' /\ NotYet' /\ Room'
    BY <1>0, <2>1 DEF Frames, NotYet, Room, Valid, Frame
  <2>. QED BY <2>5, <2>6, <2>7 DEF EntryInv
<1>4. CASE CountResend
  <2>. DEFINE k == sender.index
  <2>1. /\ UNCHANGED <<requests, sent>> /\ At("resent") /\ ~At("resent")' /\ ~At("written")'
        /\ k \in Monitors
    BY <1>4 DEF CountResend, AfterMonitor, Goto, At, TypeOK, ThreadTypes
  <2>2. /\ uartCmdMonito'[k].valid = uartCmdMonito[k].valid
        /\ uartCmdMonito'[k].frame = uartCmdMonito[k].frame
        /\ uartCmdMonito'[k].sendCount = uartCmdMonito[k].sendCount + 1
        /\ \A i \in Monitors \ {k} : uartCmdMonito'[i] = uartCmdMonito[i]
    <3>1. uartCmdMonito[k] \in Entry
      BY <1>0, <2>1
    <3>. QED BY <1>0, <1>4, <2>1, <3>1 DEF CountResend, Entry
  <2>3. Frames'
    BY <1>0, <2>1, <2>2 DEF Frames, Valid, Frame
  <2>4. Counted'
    <3>. SUFFICES ASSUME NEW i \in Monitors, Valid(i)
                  PROVE  sent[Frame(i)] <= 1 + uartCmdMonito'[i].sendCount + 0
      BY <2>1, <2>2 DEF Counted, Valid, Frame
    <3>1. sent[Frame(i)] <= 1 + uartCmdMonito[i].sendCount + (IF k = i THEN 1 ELSE 0)
      BY <1>0, <2>1 DEF Counted
    <3>2. uartCmdMonito[i].sendCount \in Nat /\ sent[Frame(i)] \in Nat
      BY <1>0 DEF Entry, Frames
    <3>3. CASE i = k
      BY <2>2, <3>1, <3>2, <3>3
    <3>4. CASE i # k
      BY <2>2, <3>1, <3>2, <3>4
    <3>. QED BY <3>3, <3>4
  <2>5. NotYet' /\ Room' /\ SentBounded'
    BY <1>0, <2>1 DEF NotYet, Room, SentBounded
  <2>. QED BY <2>3, <2>4, <2>5 DEF EntryInv
<1>5. CASE QuietActions
  BY <1>5, QuietShrunk, QuietStep
<1>. QED
  BY <1>1, <1>2, <1>3, <1>4, <1>5 DEF Next, SenderThread, QuietActions

\* A command is written 1 + MaxResend times at most.
THEOREM SentAlwaysBounded == Spec => []SentBounded
<1>1. EntryInv => SentBounded
  BY DEF EntryInv
<1>. QED BY <1>1, TypeInit, TypeStep, EntryInit, EntryStep, PTL DEF Spec

\* Once out of the table a command is neither written nor entered again.
LEMMA ForgottenStep ==
  ASSUME TypeOK, EntryInv, [Next]_vars, NEW r \in 1 .. Len(requests),
         ~Watched(r), ~(At("written") /\ r = Len(requests))
  PROVE  sent'[r] = sent[r] /\ ~Watched(r)'
<1>. USE SizesAssumption
<1>0. /\ uartCmdMonito \in [Monitors -> Entry]
      /\ requests \in Seq(Request) /\ sent \in Seq(Nat) /\ Len(sent) = Len(requests)
      /\ Frames
  BY DEF TypeOK, TableTypes, RequestTypes, EntryInv
<1>1. CASE Transmit
  BY <1>0, <1>1 DEF Transmit, tables, Watched
<1>2. CASE EnterMonitor
  <2>. DEFINE n == Len(requests)
              index == FillIndex(requests[n].cmd, requests[n].target)
  <2>1. r # n /\ UNCHANGED sent
    BY <1>2 DEF EnterMonitor
  <2>2. CASE index = NoIndex
    BY <1>2, <2>1, <2>2 DEF EnterMonitor, fillUartCmdMonitor, Watched
  <2>3. CASE index # NoIndex
    <3>1. PICK k \in Monitors : k = index
      BY <2>3, IndexTypes
    <3>. DEFINE e == [valid |-> 1, cmd |-> requests[n].cmd, sub |-> 0,
                      target |-> requests[n].target, frame |-> n,
                      sendCount |-> uartCmdMonito[k].sendCount, age |-> 0]
    <3>2. uartCmdMonito' = [uartCmdMonito EXCEPT ![k] = e]
      BY <1>2, <2>3, <3>1 DEF EnterMonitor, fillUartCmdMonitor
    <3>3. \A i \in Monitors : uartCmdMonito'[i].frame = r => uartCmdMonito'[i] = uartCmdMonito[i]
      BY <1>0, <2>1, <3>2
    <3>. QED BY <2>1, <3>3 DEF Watched
  <2>. QED BY <2>2, <2>3
<1>3. CASE ResendEntry
  <2>1. PICK k \in Monitors :
          /\ Valid(k)
          /\ sent' = [sent EXCEPT ![Frame(k)] = sent[Frame(k)] + 1]
          /\ UNCHANGED uartCmdMonito
    BY <1>3 DEF ResendEntry, TypeOK, ThreadTypes, At, Due, Valid, Frame, tables
  <2>2. Frame(k) # r /\ Frame(k) \in 1 .. Len(sent)
    BY <1>0, <2>1 DEF Frames, Watched, Valid, Frame
  <2>. QED BY <1>0, <2>1, <2>2 DEF Watched
<1>4. CASE CountResend
  <2>1. sender.index \in Monitors /\ UNCHANGED sent
    BY <1>4 DEF CountResend, TypeOK, ThreadTypes, At
  <2>2. \A i \in Monitors : /\ uartCmdMonito'[i].valid = uartCmdMonito[i].valid
                            /\ uartCmdMonito'[i].frame = uartCmdMonito[i].frame
    BY <1>0, <1>4, <2>1 DEF CountResend, Entry
  <2>. QED BY <2>1, <2>2 DEF Watched
<1>5. CASE QuietActions
  <2>1. Shrunk /\ UNCHANGED sent
    BY <1>5, QuietShrunk
  <2>. QED BY <2>1 DEF Shrunk, Valid, Frame, Watched
<1>. QED
  BY <1>1, <1>2, <1>3, <1>4, <1>5 DEF Next, SenderThread, QuietActions

\* A command whose entry is gone, or that never had one, is not written again.
THEOREM ForgottenAlwaysForGood == Spec => ForgottenForGood
<1>1. TypeOK /\ EntryInv /\ [Next]_vars =>
        [\A r \in 1 .. Len(requests) :
           ~Watched(r) /\ ~(At("written") /\ r = Len(requests))
             => sent'[r] = sent[r] /\ ~Watched(r)']_vars
  BY ForgottenStep
<1>. QED BY <1>1, TypeInit, TypeStep, EntryInit, EntryStep, PTL DEF Spec, ForgottenForGood

-----------------------------------------------------------------------------
(* Keys *)

Unaccepted(i) == Valid(i) /\ uartCmdMonito[i].sub = 0

\* An entry the ZC has not accepted has the key of its request; one that is not valid
\* has the key of none.
Keys ==
  /\ \A i \in Monitors : Unaccepted(i) =>
       requests[Frame(i)] = [cmd |-> uartCmdMonito[i].cmd, target |-> uartCmdMonito[i].target]
  /\ \A i \in Monitors : ~Valid(i) => uartCmdMonito[i].cmd = "none" \/ uartCmdMonito[i].sub = 1

KeyInv == Keys /\ UnacceptedLatest

\* Steps after which every entry not accepted is one that was not, with its key and
\* frame, and an entry that is not valid still has no key.
KeysKept ==
  \A i \in Monitors :
    /\ Unaccepted(i)' =>
         /\ Unaccepted(i)
         /\ uartCmdMonito'[i].cmd = uartCmdMonito[i].cmd
         /\ uartCmdMonito'[i].target = uartCmdMonito[i].target
         /\ uartCmdMonito'[i].frame = uartCmdMonito[i].frame
    /\ ~Valid(i)' =>
         \/ /\ ~Valid(i)
            /\ uartCmdMonito'[i].cmd = uartCmdMonito[i].cmd
            /\ uartCmdMonito'[i].sub = uartCmdMonito[i].sub
         \/ uartCmdMonito'[i].cmd = "none"
         \/ uartCmdMonito'[i].sub = 1

LEMMA KeyInit == Init => KeyInv
<1>. SUFFICES ASSUME Init PROVE KeyInv
  OBVIOUS
<1>1. \A i \in Monitors : uartCmdMonito[i] = NoMonitor
  BY DEF Init
<1>. QED BY <1>1 DEF KeyInv, Keys, Unaccepted, Valid, UnacceptedLatest, NoMonitor

LEMMA KeptStep ==
  ASSUME TypeOK, KeyInv, KeysKept, UNCHANGED requests, At("written")' = At("written")
  PROVE  KeyInv'
<1>1. Keys'
  BY DEF KeyInv, Keys, KeysKept, Unaccepted, Valid, Frame
<1>2. UnacceptedLatest'
  <2>. SUFFICES ASSUME NEW i \in Monitors, Unaccepted(i)'
                PROVE  Latest(i)'
    BY DEF UnacceptedLatest, Unaccepted, Valid
  <2>1. Latest(i)
    BY DEF KeyInv, UnacceptedLatest, KeysKept, Unaccepted, Valid
  <2>. QED BY <2>1 DEF KeysKept, Unaccepted, Valid, Latest
<1>. QED BY <1>1, <1>2 DEF KeyInv

LEMMA ActionsKeepKeys ==
  ASSUME TypeOK, QuietActions \/ ResendEntry \/ CountResend
  PROVE  KeysKept /\ UNCHANGED requests /\ At("written")' = At("written")
<1>. USE SizesAssumption
<1>0. uartCmdMonito \in [Monitors -> Entry]
  BY DEF TypeOK, TableTypes
<1>1. CASE EnterControl \/ StartSweep \/ StartControlSweep \/ SkipEntry \/ ControlEntry
           \/ ResendEntry \/ UNCHANGED vars
  <2>1. UNCHANGED <<uartCmdMonito, requests>>
    BY <1>1 DEF EnterControl, StartSweep, StartControlSweep, SkipEntry, ControlEntry,
                ResendEntry, tables, vars
  <2>2. At("written")' = At("written")
    BY <1>1 DEF EnterControl, StartSweep, StartControlSweep, SkipEntry, ControlEntry,
                ResendEntry, vars, At, Goto, AfterMonitor, AfterControl
  <2>. QED BY <2>1, <2>2 DEF KeysKept, Unaccepted, Valid
<1>2. CASE ForgetEntry
  <2>1. KeysKept
    BY <1>0, <1>2 DEF ForgetEntry, deleteUartCmdMonitor, NoMonitor, KeysKept, Unaccepted, Valid
  <2>. QED BY <1>2, <2>1 DEF ForgetEntry, At, Goto, AfterMonitor
<1>3. CASE CountResend
  <2>1. sender.index \in Monitors
    BY <1>3 DEF CountResend, TypeOK, ThreadTypes, At
  <2>2. KeysKept
    BY <1>0, <1>3, <2>1 DEF CountResend, Entry, KeysKept, Unaccepted, Valid
  <2>. QED BY <1>3, <2>2 DEF CountResend, At, Goto, AfterMonitor
<1>4. CASE Tick
  <2>1. KeysKept
    BY <1>0, <1>4 DEF Tick, KeysKept, Unaccepted, Valid, Entry
  <2>. QED BY <1>4, <2>1 DEF Tick, senderVars, At
<1>5. CASE RxThread
  <2>1. UNCHANGED <<requests, sender>>
    BY <1>5 DEF RxThread, RxReceive, RxFind, RxApply, senderVars
  <2>2. CASE UNCHANGED uartCmdMonito
    BY <2>1, <2>2 DEF KeysKept, Unaccepted, Valid, At
  <2>3. CASE deleteUartCmdMonitor(rxIndex)
    BY <1>0, <2>1, <2>3 DEF deleteUartCmdMonitor, NoMonitor, KeysKept, Unaccepted, Valid, At
  <2>4. CASE uartCmdMonito' = [uartCmdMonito EXCEPT ![rxIndex].cmd = Head(rxOps).cmd,
                                                    ![rxIndex].sub = 1]
    BY <1>0, <2>1, <2>4 DEF KeysKept, Unaccepted, Valid, Entry, At
  <2>. QED BY <1>5, <2>2, <2>3, <2>4 DEF RxThread, RxReceive, RxFind, RxApply, tables
<1>. QED BY <1>1, <1>2, <1>3, <1>4, <1>5 DEF QuietActions

\* An entry of the key of the command being entered is the one that takes it.
LEMMA FilledAlone ==
  ASSUME TypeOK, EntryInv, KeyInv, At("written"), NEW i \in Monitors, Unaccepted(i),
         requests[Len(requests)] =
           [cmd |-> uartCmdMonito[i].cmd, target |-> uartCmdMonito[i].target]
  PROVE  i = FillIndex(requests[Len(requests)].cmd, requests[Len(requests)].target)
<1>. USE SizesAssumption
<1>. DEFINE n == Len(requests)
            same == {j \in Monitors : /\ uartCmdMonito[j].cmd = requests[n].cmd
                                      /\ uartCmdMonito[j].sub = 0
                                      /\ uartCmdMonito[j].target = requests[n].target}
            k == First(same)
<1>1. i \in same
  BY DEF Unaccepted
<1>2. k \in same /\ FillIndex(requests[n].cmd, requests[n].target) = k
  <2>1. same \in SUBSET Nat
    BY DEF Monitors
  <2>. QED BY <1>1, <2>1, FirstFound DEF FillIndex
<1>3. /\ uartCmdMonito[k].cmd = uartCmdMonito[i].cmd
      /\ uartCmdMonito[k].target = uartCmdMonito[i].target
      /\ uartCmdMonito[k].sub = 0 /\ k \in Monitors
  <2>1. k \in same
    BY <1>2
  <2>. HIDE DEF k
  <2>. QED BY <2>1
<1>4. uartCmdMonito[k].cmd # "none"
  <2>1. n \in 1 .. n /\ requests[n].cmd \in Commands
    BY DEF TypeOK, RequestTypes, ThreadTypes, At, Request
  <2>2. "none" \notin Commands
    BY DEF MonitoredCommands, Confirmed, Executed, ForZc, Writing, Binding
  <2>. QED BY <1>2, <2>1, <2>2
<1>5. Unaccepted(k)
  <2>. HIDE DEF k
  <2>1. Valid(k)
    BY <1>3, <1>4 DEF KeyInv, Keys
  <2>. QED BY <1>3, <2>1 DEF Unaccepted
<1>. SUFFICES ASSUME i # k PROVE FALSE
  BY <1>2
<1>6. /\ Frame(i) \in 1 .. n - 1 /\ Frame(k) \in 1 .. n - 1 /\ Frame(i) # Frame(k)
  <2>1. /\ Frame(i) \in 1 .. n /\ Frame(k) \in 1 .. n
        /\ Frame(i) # n /\ Frame(k) # n /\ Frame(i) # Frame(k)
    BY <1>3, <1>5 DEF EntryInv, Frames, NotYet, Unaccepted
  <2>2. n \in Nat
    BY DEF TypeOK, RequestTypes
  <2>. QED BY <2>1, <2>2
<1>7. /\ requests[Frame(k)] = [cmd |-> uartCmdMonito[i].cmd, target |-> uartCmdMonito[i].target]
      /\ requests[Frame(i)] = [cmd |-> uartCmdMonito[k].cmd, target |-> uartCmdMonito[k].target]
  BY <1>3, <1>5 DEF KeyInv, Keys
<1>8. Latest(i) /\ Latest(k)
  BY <1>3, <1>5 DEF KeyInv, UnacceptedLatest, Unaccepted, Valid
<1>9. n \in Nat
  BY DEF TypeOK, RequestTypes
<1>12. \A x, y \in 1 .. n - 1 : x < y => y \in x + 1 .. n - 1
  BY <1>9
<1>. HIDE DEF n
<1>10. CASE Frame(i) < Frame(k)
  <2>1. Frame(k) \in Frame(i) + 1 .. n - 1
    BY <1>6, <1>10, <1>12
  <2>. QED BY <1>7, <1>8, <2>1 DEF Latest, Frame, n
<1>11. CASE Frame(k) < Frame(i)
  <2>1. Frame(i) \in Frame(k) + 1 .. n - 1
    BY <1>6, <1>11, <1>12
  <2>. QED BY <1>7, <1>8, <2>1 DEF Latest, Frame, n
<1>. QED BY <1>6, <1>9, <1>10, <1>11

LEMMA KeyStep == TypeOK /\ EntryInv /\ KeyInv /\ [Next]_vars => KeyInv'
<1>. SUFFICES ASSUME TypeOK, EntryInv, KeyInv, [Next]_vars
              PROVE  KeyInv'
  OBVIOUS
<1>. USE SizesAssumption
<1>0. /\ uartCmdMonito \in [Monitors -> Entry] /\ requests \in Seq(Request)
      /\ Frames /\ Keys /\ UnacceptedLatest
  BY DEF TypeOK, TableTypes, RequestTypes, EntryInv, KeyInv
<1>. DEFINE n == Len(requests)
<1>1. CASE Transmit
  <2>1. /\ UNCHANGED uartCmdMonito /\ ~At("written") /\ At("written")'
        /\ Len(requests') = n + 1 /\ n \in Nat
        /\ \A r \in 1 .. n : requests'[r] = requests[r]
    <3>1. PICK x : requests' = Append(requests, x)
      BY <1>1 DEF Transmit
    <3>. QED BY <1>0, <1>1, <3>1 DEF Transmit, At, Goto, tables
  <2>2. Keys'
    BY <1>0, <2>1 DEF Keys, Frames, Unaccepted, Valid, Frame
  <2>3. UnacceptedLatest'
    <3>. SUFFICES ASSUME NEW i \in Monitors, Unaccepted(i),
                         NEW r \in Frame(i) + 1 .. n
                  PROVE  requests'[r] # [cmd |-> uartCmdMonito[i].cmd,
                                         target |-> uartCmdMonito[i].target]
      BY <2>1 DEF UnacceptedLatest, Latest, Unaccepted, Valid, Frame
    <3>1. requests[r] # [cmd |-> uartCmdMonito[i].cmd, target |-> uartCmdMonito[i].target]
      BY <1>0, <2>1 DEF UnacceptedLatest, Latest, Unaccepted, Valid, Frame
    <3>2. r \in 1 .. n
      BY <1>0, <2>1 DEF Frames, Unaccepted
    <3>. QED BY <2>1, <3>1, <3>2
  <2>. QED BY <2>2, <2>3 DEF KeyInv
<1>2. CASE EnterMonitor
  <2>. DEFINE index == FillIndex(requests[n].cmd, requests[n].target)
  <2>1. UNCHANGED requests /\ At("written") /\ ~At("written")'
    BY <1>2 DEF EnterMonitor, At, Goto
  <2>2. n \in 1 .. n /\ requests[n] \in Request
    BY <1>0, <2>1 DEF TypeOK, ThreadTypes, At
  <2>3. \A i \in Monitors : Unaccepted(i) /\ i # index =>
          \A r \in Frame(i) + 1 .. n :
            requests[r] # [cmd |-> uartCmdMonito[i].cmd, target |-> uartCmdMonito[i].target]
    <3>. SUFFICES ASSUME NEW i \in Monitors, Unaccepted(i), i # index,
                         NEW r \in Frame(i) + 1 .. n
                  PROVE  requests[r] # [cmd |-> uartCmdMonito[i].cmd,
                                        target |-> uartCmdMonito[i].target]
      OBVIOUS
    <3>1. CASE r = n
      BY <2>1, <3>1, FilledAlone
    <3>2. CASE r # n
      <4>1. r \in Frame(i) + 1 .. n - 1
        BY <1>0, <2>2, <3>2 DEF Frames, Unaccepted
      <4>. QED BY <1>0, <2>1, <4>1 DEF UnacceptedLatest, Latest, Unaccepted, Valid, Frame
    <3>. QED BY <3>1, <3>2
  <2>4. CASE index = NoIndex
    <3>1. uartCmdMonito' = uartCmdMonito
      BY <1>2, <2>4 DEF EnterMonitor, fillUartCmdMonitor
    <3>2. \A i \in Monitors : i # index
      BY <2>4 DEF NoIndex, Monitors
    <3>3. Keys'
      BY <1>0, <2>1, <3>1 DEF Keys, Unaccepted, Valid, Frame
    <3>4. UnacceptedLatest'
      BY <2>1, <2>3, <3>1, <3>2 DEF UnacceptedLatest, Latest, Unaccepted, Valid, Frame
    <3>. QED BY <3>3, <3>4 DEF KeyInv
  <2>5. CASE index # NoIndex
    <3>1. PICK k \in Monitors : k = index
      BY <2>5, IndexTypes
    <3>. DEFINE e == [valid |-> 1, cmd |-> requests[n].cmd, sub |-> 0,
                      target |-> requests[n].target, frame |-> n,
                      sendCount |-> uartCmdMonito[k].sendCount, age |-> 0]
    <3>2. uartCmdMonito' = [uartCmdMonito EXCEPT ![k] = e]
      BY <1>2, <2>5, <3>1 DEF EnterMonitor, fillUartCmdMonitor
    <3>3. /\ uartCmdMonito'[k] = e
          /\ \A i \in Monitors \ {k} : uartCmdMonito'[i] = uartCmdMonito[i]
      BY <1>0, <3>2
    <3>4. Keys'
      <4>1. requests[n] = [cmd |-> e.cmd, target |-> e.target]
        BY <2>2 DEF Request
      <4>. QED BY <1>0, <2>1, <3>3, <4>1 DEF Keys, Unaccepted, Valid, Frame
    <3>5. UnacceptedLatest'
      <4>. SUFFICES ASSUME NEW i \in Monitors, Unaccepted(i)',
                           NEW r \in uartCmdMonito'[i].frame + 1 .. n
                    PROVE  requests[r] # [cmd |-> uartCmdMonito'[i].cmd,
                                          target |-> uartCmdMonito'[i].target]
        BY <2>1 DEF UnacceptedLatest, Latest, Unaccepted, Valid
      <4>1. i # k
        BY <2>2, <3>3
      <4>. QED BY <2>3, <3>1, <3>3, <4>1 DEF Unaccepted, Valid, Frame
    <3>. QED BY <3>4, <3>5 DEF KeyInv
  <2>. QED BY <2>4, <2>5
<1>3. CASE QuietActions \/ ResendEntry \/ CountResend
  BY <1>3, ActionsKeepKeys, KeptStep
<1>. QED
  BY <1>1, <1>2, <1>3 DEF Next, SenderThread, QuietActions

\* What may be resent before the ZC accepts it is the latest command with its key.
THEOREM UnacceptedAlwaysLatest == Spec => []UnacceptedLatest
<1>1. KeyInv => UnacceptedLatest
  BY DEF KeyInv
<1>. QED BY <1>1, TypeInit, TypeStep, EntryInit, EntryStep, KeyInit, KeyStep, PTL DEF Spec
==============================================================================
