------------------------------ MODULE TxQueue ------------------------------
(***************************************************************************)
(* The buffer uartTXCmd (hm_uartCmdExecute.c) through which the threads of *)
(* the gateway hand commands to the thread that writes the serial line.    *)
(* A filling function takes the first slot whose cmdValid is 0, stores the *)
(* header, sets cmdValid and stores the payload; the sender thread         *)
(* (uart_sent_thread, uartTxDataCmdDeal) writes the command of each valid  *)
(* slot and clears it.  There is no lock: a step is one store of a filling *)
(* function or of userClearValidUartTxBufIndex.                            *)
(*                                                                         *)
(* A field holds the number of the request that stored it, 0 when cleared. *)
(***************************************************************************)
EXTENDS Integers, Sequences

CONSTANTS
  SlotNum,       \* MAX_UART_TX_CMD_BUF_NUM, 10
  Producers,     \* threads that fill slots, "sender" among them for the heart beat
  Fills,         \* filling functions in use, among AllFills
  MaxRequests    \* bound on the calls of filling functions

-----------------------------------------------------------------------------
(* The filling functions, with the command each one stores in inCmd and
   whether it stores a payload (after cmdValid). *)

Bare(name, cmd) == [name |-> name, cmd |-> cmd, loaded |-> 0]
Loaded(name, cmd) == [name |-> name, cmd |-> cmd, loaded |-> 1]

HeartFill == Bare("Heart", "SEND_ZC_HEART")

\* Commands for the ZC itself, and LeaveDev.
ZcFills ==
  {Loaded("PermitJoin", "PERMIT_JOIN"), Bare("ReadZCnfo", "READ_ZC_INFO"),
   Bare("LeaveDev", "LEAVE_DEV"), Loaded("ZCOta", "UPDATE_ZC_SOFT"),
   Bare("SetZCToFactory", "SET_ZC_TO_FACTORY"),
   Bare("ReadToIlluminance", "ILLUMINANCE_DATA")}

\* On/off, the door lock and the air quality sensor.
SensorFills ==
  {Loaded("OnOff", "ONOFF_CONTROL"), Loaded("DoorUnlock", "DOOR_UNLOCK_CONTROL"),
   Loaded("AirQualityTime", "WRITE_ATTR"), Loaded("AirQualityLG", "AIR_CONTROL"),
   Loaded("AirQualitySetNotDisturb", "WRITE_ATTR"), Loaded("AirQualityTUI", "AIR_CONTROL")}

\* The curtain motor, zone sensitivity, remote opening, on/off of a group.
MotorFills ==
  {Loaded("CurtainMotorClearPhyLimit", "CURTAIN_MOTOR_CLEAR_PHY_LIMIT"),
   Loaded("NodeSensitivityLevel", "WRITE_ATTR"), Loaded("CurtainMotorDirect", "WRITE_ATTR"),
   Loaded("DoorLockRemoteOpenEnable", "WRITE_ATTR"),
   Loaded("OnOffByGroupsOrBroadcast", "ONOFF_CONTROL_BY_GROUP")}

\* Level, colour and warning devices.
LightFills ==
  {Loaded("Level", "LEVEL_CONTROL"), Loaded("ColorControl", "COLOR_CONTROL"),
   Loaded("ColorTemperatureWY", "COLOR_CONTROL"), Loaded("Wd", "WD_CONTROL")}

\* Attributes and bindings.
AttrFills ==
  {Loaded("WriteAttr", "WRITE_ATTR"), Loaded("ReadAttr", "READ_ATTR"),
   Loaded("Bind", "BIND"), Loaded("UNBind", "UNBIND"), Loaded("PrivateBind", "UNBIND")}

AllFills == {HeartFill} \cup ZcFills \cup SensorFills \cup MotorFills \cup LightFills
                        \cup AttrFills

\* Mutant: a dispatcher without a case for the heart beat.
DispatchedNoHeart == {f.cmd : f \in AllFills \ {HeartFill}}

\* The commands uartTxDataCmdDeal has a frame for.
Dispatched ==
  {"PERMIT_JOIN", "SEND_ZC_HEART", "DEV_INFO", "READ_ZC_INFO", "LEAVE_DEV", "UPDATE_ZC_SOFT",
   "WRITE_ATTR", "AIR_CONTROL", "READ_ATTR", "SET_ZC_TO_FACTORY", "ONOFF_CONTROL",
   "LEVEL_CONTROL", "WD_CONTROL", "COLOR_CONTROL", "ONOFF_CONTROL_BY_GROUP",
   "RGBLIGHT_CONTROL", "DOOR_UNLOCK_CONTROL", "CURTAIN_MOTOR_CLEAR_PHY_LIMIT",
   "SET_RSSI_REPORT", "ILLUMINANCE_DATA", "BIND", "UNBIND", "PRIVATEBIND"}

ASSUME SizesAssumption ==
  /\ SlotNum \in Nat \ {0}
  /\ MaxRequests \in Nat
  /\ Fills \subseteq AllFills

VARIABLES
  uartTXCmd,      \* the slots
  requests,       \* the filling functions called so far, oldest first
  producer,       \* where each thread stands in a filling function
  sender,         \* where the sender thread stands in uartTxDataCmdDeal
  frame,          \* the slot handed last to a frame function (transportUartHexDataFor...)
  written,        \* how often the command of each request was handed to one
  shared,         \* history, 1: two fills have held the same slot at once
  clash           \* history, 1: a slot was taken while it was being cleared

queueVars == <<uartTXCmd, requests, producer, sender>>
lineVars == <<frame, written>>
history == <<shared, clash>>
vars == <<uartTXCmd, requests, producer, sender, frame, written, shared, clash>>

Slots == 0 .. SlotNum - 1
NoIndex == 255       \* UART_FIND_BUF_INVALID_INDEX

FirstSlot(S) == IF S = {} THEN NoIndex ELSE CHOOSE i \in S : \A j \in S : i <= j

EmptySlot == [cmdValid |-> 0, dstAddr |-> 0, dstEp |-> 0, inCmd |-> 0, inPayload |-> 0]

Idle == [at |-> "idle", slot |-> NoIndex, req |-> 0]

Init ==
  /\ uartTXCmd = [i \in Slots |-> EmptySlot]
  /\ requests = <<>>
  /\ producer = [p \in Producers |-> Idle]
  /\ sender = [at |-> "idle", index |-> 0]
  /\ frame = EmptySlot
  /\ written = <<>>
  /\ shared = 0
  /\ clash = 0

-----------------------------------------------------------------------------
(* The filling functions *)

\* Mutant: a search in vain that returns the index past the end.
FreeOrPastEnd ==
  LET free == {i \in Slots : uartTXCmd[i].cmdValid = 0}
  IN  IF free = {} THEN SlotNum ELSE FirstSlot(free)

userFindFreeTxBufIndex == FirstSlot({i \in Slots : uartTXCmd[i].cmdValid = 0})

Clearing == {"clearAddr", "clearEp", "clearCmd"}

\* The sender thread fills a slot between two passes only.
MayFill(p) == p = "sender" => sender.at = "idle"

\* The search of a slot.  When none is free the command is dropped ("not find free tx
\* buf") and nothing changes.  userManageUartHeart is the only caller of a filling
\* function in the sender thread.
TakeSlot(p) ==
  LET i == userFindFreeTxBufIndex IN
  /\ producer[p].at = "idle" /\ MayFill(p) /\ Len(requests) < MaxRequests
  /\ i # NoIndex
  /\ \E f \in Fills :
       /\ f = HeartFill <=> p = "sender"
       /\ requests' = Append(requests, f)
  /\ written' = Append(written, 0)
  /\ producer' = [producer EXCEPT ![p] =
                    [at |-> "addr", slot |-> i, req |-> Len(requests) + 1]]
  /\ shared' = IF \E q \in Producers : producer[q].slot = i THEN 1 ELSE shared
  /\ clash' = IF sender.at \in Clearing /\ sender.index = i THEN 1 ELSE clash
  /\ UNCHANGED <<uartTXCmd, sender, frame>>

\* One store of a filling function in the slot found, and the place it leads to.
Store(p, place, slots, next) ==
  /\ producer[p].at = place
  /\ uartTXCmd' = slots
  /\ producer' = [producer EXCEPT ![p] = next]
  /\ UNCHANGED <<requests, sender, lineVars, history>>

At(p, place) == [producer[p] EXCEPT !.at = place]
AfterValid(p) == IF requests[producer[p].req].loaded = 1 THEN At(p, "payload") ELSE Idle

\* Mutant: cmdValid stored with the first field.
StoreAddrAndValid(p) ==
  Store(p, "addr", [uartTXCmd EXCEPT ![producer[p].slot].dstAddr = producer[p].req,
                                     ![producer[p].slot].cmdValid = 1], At(p, "ep"))

StoreAddr(p) ==
  Store(p, "addr", [uartTXCmd EXCEPT ![producer[p].slot].dstAddr = producer[p].req],
        At(p, "ep"))
StoreEp(p) ==
  Store(p, "ep", [uartTXCmd EXCEPT ![producer[p].slot].dstEp = producer[p].req],
        At(p, "cmd"))
StoreCmd(p) ==
  Store(p, "cmd", [uartTXCmd EXCEPT ![producer[p].slot].inCmd = producer[p].req],
        At(p, "valid"))
StoreValid(p) ==
  Store(p, "valid", [uartTXCmd EXCEPT ![producer[p].slot].cmdValid = 1], AfterValid(p))
StorePayload(p) ==
  Store(p, "payload", [uartTXCmd EXCEPT ![producer[p].slot].inPayload = producer[p].req],
        Idle)

Fill(p) ==
  TakeSlot(p) \/ StoreAddr(p) \/ StoreEp(p) \/ StoreCmd(p) \/ StoreValid(p) \/ StorePayload(p)

-----------------------------------------------------------------------------
(* The sender thread *)

Goto(place, i) == sender' = [at |-> place, index |-> i]

\* uartTxDataCmdDeal, from the first slot.
BeginPass ==
  /\ sender.at = "idle"
  /\ "sender" \in Producers => producer["sender"].at = "idle"
  /\ Goto("find", 0)
  /\ UNCHANGED <<uartTXCmd, requests, producer, lineVars, history>>

\* Mutant: a search that starts after the current slot.
FindValidAfter ==
  /\ sender.at = "find"
  /\ LET i == FirstSlot({j \in Slots : j > sender.index /\ uartTXCmd[j].cmdValid = 1}) IN
     IF i = NoIndex THEN Goto("idle", 0) ELSE Goto("dispatch", i)
  /\ UNCHANGED <<uartTXCmd, requests, producer, lineVars, history>>

\* userFromInFineValidUartTxBufIndex: the first valid slot from the current one on,
\* which may have been filled again; the pass ends when there is none.
FindValid ==
  /\ sender.at = "find"
  /\ LET i == FirstSlot({j \in Slots : j >= sender.index /\ uartTXCmd[j].cmdValid = 1}) IN
     IF i = NoIndex THEN Goto("idle", 0) ELSE Goto("dispatch", i)
  /\ UNCHANGED <<uartTXCmd, requests, producer, lineVars, history>>

\* The switch over inCmd; the slot is passed on by value.  A cleared inCmd has no
\* case, and what is in the slot goes unwritten.
Dispatch ==
  LET slot == uartTXCmd[sender.index] IN
  /\ sender.at = "dispatch"
  /\ IF slot.inCmd # 0 /\ requests[slot.inCmd].cmd \in Dispatched
     THEN /\ frame' = slot
          /\ written' = [written EXCEPT ![slot.inCmd] = @ + 1]
     ELSE UNCHANGED lineVars
  /\ Goto("clearValid", sender.index)
  /\ UNCHANGED <<uartTXCmd, requests, producer, history>>

\* userClearValidUartTxBufIndex, store by store.
ClearField(place, slots, next) ==
  /\ sender.at = place
  /\ uartTXCmd' = slots
  /\ Goto(next, sender.index)
  /\ UNCHANGED <<requests, producer, lineVars, history>>

\* Mutant: a slot that keeps its inCmd.
ClearValidOnly ==
  ClearField("clearValid", [uartTXCmd EXCEPT ![sender.index].cmdValid = 0], "find")

userClearValidUartTxBufIndex ==
  \/ ClearField("clearValid", [uartTXCmd EXCEPT ![sender.index].cmdValid = 0], "clearAddr")
  \/ ClearField("clearAddr", [uartTXCmd EXCEPT ![sender.index].dstAddr = 0], "clearEp")
  \/ ClearField("clearEp", [uartTXCmd EXCEPT ![sender.index].dstEp = 0], "clearCmd")
  \/ ClearField("clearCmd", [uartTXCmd EXCEPT ![sender.index].inCmd = 0], "find")

SenderThread == BeginPass \/ FindValid \/ Dispatch \/ userClearValidUartTxBufIndex

-----------------------------------------------------------------------------
Next == SenderThread \/ \E p \in Producers : Fill(p)

Spec == Init /\ [][Next]_vars

\* The sender thread keeps running (it only sleeps), and a filling function that has
\* begun runs to its end.
FairSpec ==
  /\ Spec
  /\ WF_vars(SenderThread)
  /\ \A p \in Producers : WF_vars(producer[p].at # "idle" /\ Fill(p))

-----------------------------------------------------------------------------
(* Properties *)

RequestNum == 0 .. MaxRequests

Slot == [cmdValid : {0, 1}, dstAddr : RequestNum, dstEp : RequestNum, inCmd : RequestNum,
         inPayload : RequestNum]

\* The types of the slots and of the places of the threads.
TypeOK ==
  /\ uartTXCmd \in [Slots -> Slot]
  /\ requests \in Seq(Fills) /\ Len(requests) <= MaxRequests
  /\ producer \in [Producers ->
       [at : {"idle", "addr", "ep", "cmd", "valid", "payload"},
        slot : Slots \cup {NoIndex}, req : RequestNum]]
  /\ sender \in [at : {"idle", "find", "dispatch", "clearValid"} \cup Clearing, index : Slots]
  /\ frame \in Slot
  /\ written \in Seq(Nat) /\ Len(written) = Len(requests)
  /\ shared \in {0, 1} /\ clash \in {0, 1}

\* No command is written twice, however the fills and the clearing interleave, even
\* when two threads have taken the same slot.
AtMostOnce == \A r \in 1 .. Len(written) : written[r] <= 1

\* As long as no two fills have held a slot together and none has taken a slot while
\* it was being cleared, a frame goes to the address and end point of its command.
HeaderWhole ==
  shared = 0 /\ clash = 0 => frame.dstAddr = frame.inCmd /\ frame.dstEp = frame.inCmd

\* Under the same condition no command is lost: once its cmdValid has been stored it
\* is in a valid slot until it is written.
Pending(r) == \E i \in Slots : uartTXCmd[i].cmdValid = 1 /\ uartTXCmd[i].inCmd = r

Stored(r) ==
  \A p \in Producers : producer[p].req = r => producer[p].at \in {"idle", "payload"}

LostOnlyByOverlap ==
  shared = 0 /\ clash = 0 =>
    \A r \in 1 .. Len(requests) : Stored(r) => Pending(r) \/ written[r] = 1

\* Every valid slot is eventually cleared: no slot starves while the threads make
\* finitely many requests.
SlotsCleared == \A i \in Slots : uartTXCmd[i].cmdValid = 1 ~> uartTXCmd[i].cmdValid = 0
=============================================================================
