------------------------------ MODULE Gateway ------------------------------
(***************************************************************************)
(* The loop of the sender thread (uart_sent_thread) around the transmit    *)
(* buffer of TxQueue, against the firmware upgrades that the receive       *)
(* thread starts and the OTA thread ends.  A turn of the loop tests        *)
(* devOtaUpdateingFlag once, at its top; then it writes what is in the     *)
(* buffer, every MonitorEvery-th time calls userManageUartHeart and        *)
(* userManageUartCmdMonitor, and late in each round of controlAckTime      *)
(* uartManageCmdControlSuccess.  An upgrade that starts after the test     *)
(* shares the line with the rest of the turn.                              *)
(*                                                                         *)
(* What the calls do is in TxQueue, Heart and CmdMonitor, what happens in  *)
(* an upgrade in XmodemOta.  zbSysStartFlag is 0 when the thread is        *)
(* created and is never set again.                                         *)
(***************************************************************************)
EXTENDS TxQueue

CONSTANTS
  MonitorEvery,   \* 10 in `monitorTime >= 10`
  ControlAfter,   \* 150 in `controlAckTime >= 150`
  ControlWrap,    \* values of the uint8_t controlAckTime, 256
  MaxUpgrades     \* bound on the upgrades started

ASSUME LoopAssumption ==
  /\ MonitorEvery \in Nat \ {0}
  /\ ControlWrap \in Nat \ {0}
  /\ ControlAfter \in 0 .. ControlWrap - 1
  /\ MaxUpgrades \in Nat
  /\ "sender" \in Producers

VARIABLES
  devOtaUpdateingFlag,
  loop,             \* where the sender thread stands in a turn
  monitorTime,
  controlAckTime,
  upgrades,         \* history: upgrades started
  stray,            \* history: commands written in the upgrade under way
  refilled          \* history: slots made valid in it while a turn was under way

otaVars == <<devOtaUpdateingFlag, upgrades>>
loopVars == <<loop, monitorTime, controlAckTime>>
strayVars == <<stray, refilled>>
gatewayVars == <<vars, otaVars, loopVars, strayVars>>

GatewayInit ==
  /\ Init
  /\ devOtaUpdateingFlag = 0
  /\ loop = "top"
  /\ monitorTime = 0
  /\ controlAckTime = 0
  /\ upgrades = 0
  /\ stray = 0
  /\ refilled = 0

-----------------------------------------------------------------------------
(* A turn of the sender thread *)

\* Mutant: a turn that does not wait for the end of an upgrade.
TestFlagAlways ==
  /\ loop = "top"
  /\ loop' = "tested"
  /\ UNCHANGED <<vars, otaVars, monitorTime, controlAckTime, strayVars>>

\* The only test of the flag.  While it is set the thread sleeps and tests again.
TestFlag ==
  /\ loop = "top" /\ devOtaUpdateingFlag = 0
  /\ loop' = "tested"
  /\ UNCHANGED <<vars, otaVars, monitorTime, controlAckTime, strayVars>>

StartPass ==
  /\ loop = "tested"
  /\ BeginPass
  /\ loop' = "pass"
  /\ UNCHANGED <<otaVars, monitorTime, controlAckTime, strayVars>>

\* Mutant: a counter that is reset before it is due.
AfterPassEarly ==
  /\ loop' = IF monitorTime > MonitorEvery THEN "heart" ELSE "control"
  /\ monitorTime' = IF monitorTime + 1 >= MonitorEvery THEN 0 ELSE monitorTime + 1

\* monitorTime is counted, and compared.
AfterPass ==
  /\ loop' = IF monitorTime + 1 >= MonitorEvery THEN "heart" ELSE "control"
  /\ monitorTime' = IF monitorTime + 1 >= MonitorEvery THEN 0 ELSE monitorTime + 1

\* uartTxDataCmdDeal, up to the end of the pass; a command may go into an upload.
Pass ==
  /\ loop = "pass"
  /\ FindValid \/ Dispatch \/ userClearValidUartTxBufIndex
  /\ stray' = IF written' # written /\ devOtaUpdateingFlag = 1 THEN stray + 1 ELSE stray
  /\ IF sender'.at = "idle" THEN AfterPass ELSE UNCHANGED <<loop, monitorTime>>
  /\ UNCHANGED <<otaVars, controlAckTime, refilled>>

\* userManageUartHeart: a beat is put in the buffer, slot permitting ...
Beat ==
  /\ loop = "heart"
  /\ TakeSlot("sender")
  /\ loop' = "beating"
  /\ UNCHANGED <<otaVars, monitorTime, controlAckTime, strayVars>>

\* ... or none is due, or the slot's last store was made.
HeartDone ==
  /\ loop \in {"heart", "beating"} /\ producer["sender"].at = "idle"
  /\ loop' = "monitor"
  /\ UNCHANGED <<vars, otaVars, monitorTime, controlAckTime, strayVars>>

\* userManageUartCmdMonitor
Monitor ==
  /\ loop = "monitor"
  /\ loop' = "control"
  /\ UNCHANGED <<vars, otaVars, monitorTime, controlAckTime, strayVars>>

\* controlAckTime counts on past its limit and wraps.
Control ==
  /\ loop = "control"
  /\ controlAckTime' = (controlAckTime + 1) % ControlWrap
  /\ loop' = IF controlAckTime' >= ControlAfter THEN "sweep" ELSE "top"
  /\ UNCHANGED <<vars, otaVars, monitorTime, strayVars>>

\* uartManageCmdControlSuccess
ControlSweep ==
  /\ loop = "sweep"
  /\ loop' = "top"
  /\ UNCHANGED <<vars, otaVars, monitorTime, controlAckTime, strayVars>>

\* A store of a filling function, the sender thread's own among them.
FillStep(p) ==
  /\ \/ p # "sender" /\ TakeSlot(p)
     \/ StoreAddr(p) \/ StoreEp(p) \/ StoreCmd(p) \/ StoreValid(p) \/ StorePayload(p)
  /\ refilled' = IF producer[p].at = "valid" /\ devOtaUpdateingFlag = 1 /\ loop # "top"
                 THEN refilled + 1 ELSE refilled
  /\ UNCHANGED <<otaVars, loopVars, stray>>

SenderTurn ==
  \/ TestFlag \/ StartPass \/ Pass \/ Beat \/ HeartDone \/ Monitor \/ Control
  \/ ControlSweep
  \/ loop = "beating" /\ FillStep("sender")

-----------------------------------------------------------------------------
(* Upgrades *)

\* uart_work_task_init: two single bytes, or text that ends in a line feed and C.
StartUpgrade ==
  /\ devOtaUpdateingFlag = 0 /\ upgrades < MaxUpgrades
  /\ devOtaUpdateingFlag' = 1
  /\ upgrades' = upgrades + 1
  /\ UNCHANGED <<vars, loopVars, strayVars>>

\* userXmodemTransport, each of its ways out.
EndUpgrade ==
  /\ devOtaUpdateingFlag = 1
  /\ devOtaUpdateingFlag' = 0
  /\ stray' = 0
  /\ refilled' = 0
  /\ UNCHANGED <<vars, loopVars, upgrades>>

-----------------------------------------------------------------------------
GatewayNext ==
  SenderTurn \/ StartUpgrade \/ EndUpgrade \/ \E p \in Producers \ {"sender"} : FillStep(p)

GatewaySpec == GatewayInit /\ [][GatewayNext]_gatewayVars

\* The sender thread keeps running, a filling function that has begun runs to its end,
\* and every upgrade ends (CallReturns of XmodemOta).
GatewayFairSpec ==
  /\ GatewaySpec
  /\ WF_gatewayVars(SenderTurn)
  /\ WF_gatewayVars(EndUpgrade)
  /\ \A p \in Producers \ {"sender"} : WF_gatewayVars(producer[p].at # "idle" /\ FillStep(p))

-----------------------------------------------------------------------------
(* Properties *)

LoopTypes ==
  /\ devOtaUpdateingFlag \in {0, 1}
  /\ loop \in {"top", "tested", "pass", "heart", "beating", "monitor", "control",
               "sweep"}
  /\ monitorTime \in 0 .. MonitorEvery - 1
  /\ controlAckTime \in 0 .. ControlWrap - 1
  /\ upgrades \in 0 .. MaxUpgrades
  /\ stray \in Nat /\ refilled \in Nat
  /\ sender.at # "idle" => loop = "pass"
  /\ producer["sender"].at # "idle" => loop = "beating"

\* The types of the buffer and of the loop's state; a pass of the buffer is made in a
\* turn's pass only, and the sender thread's own fills in its heart beat only.
GatewayTypeOK == TypeOK /\ LoopTypes

\* The flag is tested at the top of the loop alone, so that commands do go into an
\* upload: no more than one for each slot, and one for each slot that a thread has made
\* valid while the turn that had passed the test was under way.  In particular what is
\* asked for once that turn is over is held back.
StrayBounded == stray <= SlotNum + refilled

\* Upgrades do not keep the sweeps of CmdMonitor from recurring: both are due again and
\* again, although the counter of the second one is never reset.
SweepsRecur == []<>(loop = "monitor") /\ []<>(loop = "sweep")
=============================================================================
