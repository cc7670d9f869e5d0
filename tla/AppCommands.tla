---------------------------- MODULE AppCommands ----------------------------
(***************************************************************************)
(* What the application keeps for the commands whose outcome it waits for  *)
(* (hm_uartCmdExecute.c): an entry of wifiCmdWaitRspBuf for a command that *)
(* a device answers, and one timer for a warning, which ends by itself.    *)
(* The threads that call these functions, the receive thread and the timer *)
(* share the buffer and the variables of the timer without a lock.  A step *)
(* is what one of them does between two looks at them.                     *)
(*                                                                         *)
(* The callers, the timers, and what handles an answer                     *)
(* (userDealWaitCmdRspEvent) are outside the repository.  The command      *)
(* itself goes through the buffer of TxQueue before anything here is done, *)
(* so the answer may come at any time.                                     *)
(***************************************************************************)
EXTENDS Integers, Sequences, FiniteSets

CONSTANTS
  Apps,           \* threads of the application
  WaitNum,        \* SPECIALCMDNUM, 3
  Keys,           \* what an answer is told by: command, address and end point
  Devices,        \* addresses of warning devices
  Durations,      \* durations asked for
  TimesMod,       \* values of setWDTimes, a uint8_t: 256
  MaxCalls        \* bound on the commands of the application

ASSUME SizesAssumption ==
  /\ WaitNum \in Nat \ {0}
  /\ Durations \subseteq Nat
  /\ TimesMod \in Nat \ {0}
  /\ MaxCalls \in Nat

ASSUME KeysAssumption == \A k \in Keys : k = [cmd |-> k.cmd, to |-> k.to, ep |-> k.ep]

VARIABLES
  asks,               \* history: the key of each command asked, oldest first
  wifiCmdWaitRspBuf,
  app,                \* where each thread of the application stands
  warnings,           \* number of warnings started or stopped
  wd,                 \* setWDTimes, WDShortAddr and g_hTimerWDDelay
  timers,             \* the timers that run
  callback            \* AlarmWDStateCbk in its thread

waiting == <<asks, wifiCmdWaitRspBuf>>
warning == <<warnings, wd, timers, callback>>
vars == <<asks, wifiCmdWaitRspBuf, app, warnings, wd, timers, callback>>

Slots == 0 .. WaitNum - 1
NoKey == [cmd |-> "none", to |-> "none", ep |-> 0]
NoTimer == 0

\* alone is history: 0 if another thread was in the same part of the code while the
\* entry, or the timer, was made.
NoEntry == [valid |-> 0, key |-> NoKey, ask |-> 0, alone |-> 1]

Place(at, n, to, duration, alone) ==
  [at |-> at, n |-> n, slot |-> 0, to |-> to, duration |-> duration, alone |-> alone]

Idle == Place("idle", 0, "none", 0, 1)
NoCallback == [at |-> "idle", to |-> "none", alone |-> 1]

Init ==
  /\ asks = <<>>
  /\ wifiCmdWaitRspBuf = [i \in Slots |-> NoEntry]
  /\ app = [a \in Apps |-> Idle]
  /\ warnings = 0
  /\ wd = [setWDTimes |-> 0, WDShortAddr |-> "none", timer |-> NoTimer]
  /\ timers = {}
  /\ callback = NoCallback

Goto(a, place) == app' = [app EXCEPT ![a].at = place]

\* Other threads at these places.
Others(a, places) == {b \in Apps \ {a} : app[b].at \in places}

\* a goes on as v says; it and those it meets are not alone.
Meet(a, v, met) ==
  app' = [b \in Apps |-> IF b = a THEN [v EXCEPT !.alone = IF met = {} THEN @ ELSE 0]
                         ELSE IF b \in met THEN [app[b] EXCEPT !.alone = 0] ELSE app[b]]

-----------------------------------------------------------------------------
(* Commands that wait: userFillSpecialWatiRspCmdBuf *)

\* The command has been put in the transmit buffer.
Ask(a) ==
  /\ app[a].at = "idle" /\ Len(asks) + warnings < MaxCalls
  /\ \E k \in Keys : asks' = Append(asks, k)
  /\ app' = [app EXCEPT ![a] = Place("search", Len(asks) + 1, "none", 0, 1)]
  /\ UNCHANGED <<wifiCmdWaitRspBuf, warning>>

Matching(k) == {i \in Slots : wifiCmdWaitRspBuf[i].valid = 1 /\ wifiCmdWaitRspBuf[i].key = k}
Free == {i \in Slots : wifiCmdWaitRspBuf[i].valid = 0}

FirstSlot(S) == CHOOSE i \in S : \A j \in S : i <= j

\* Mutant: the search ends at the first free entry.
AwaitedFreeFirst(k) ==
  Matching(k) # {} /\ \A i \in Free : FirstSlot(Matching(k)) < i

\* A command with this key is awaited already.
Awaited(k) == Matching(k) # {}

\* Its time is renewed; its number and its user stay.
SearchAwaited(a) ==
  /\ app[a].at = "search" /\ Awaited(asks[app[a].n])
  /\ app' = [app EXCEPT ![a] = Idle]
  /\ UNCHANGED <<waiting, warning>>

Filling == {"key", "user", "valid"}

\* Mutant: an entry in use when none is free.
SearchFreeOrUsed(a) ==
  /\ app[a].at = "search" /\ ~Awaited(asks[app[a].n])
  /\ Meet(a, [app[a] EXCEPT !.at = "key", !.slot = IF Free = {} THEN 0 ELSE FirstSlot(Free)],
          Others(a, Filling))
  /\ UNCHANGED <<waiting, warning>>

\* The first free entry is taken; it stays free for others until it is valid.
SearchFree(a) ==
  /\ app[a].at = "search" /\ ~Awaited(asks[app[a].n]) /\ Free # {}
  /\ Meet(a, [app[a] EXCEPT !.at = "key", !.slot = FirstSlot(Free)], Others(a, Filling))
  /\ UNCHANGED <<waiting, warning>>

\* With every entry in use the command is not awaited; its caller does not look at -1.
SearchFull(a) ==
  /\ app[a].at = "search" /\ ~Awaited(asks[app[a].n]) /\ Free = {}
  /\ app' = [app EXCEPT ![a] = Idle]
  /\ UNCHANGED <<waiting, warning>>

\* Mutant: the entry is valid before its user is stored.
StoreKeyAndValid(a) ==
  /\ app[a].at = "key"
  /\ wifiCmdWaitRspBuf' = [wifiCmdWaitRspBuf EXCEPT ![app[a].slot].key = asks[app[a].n],
                                                    ![app[a].slot].alone = app[a].alone,
                                                    ![app[a].slot].valid = 1]
  /\ Goto(a, "user")
  /\ UNCHANGED <<asks, warning>>

StoreKey(a) ==
  /\ app[a].at = "key"
  /\ wifiCmdWaitRspBuf' = [wifiCmdWaitRspBuf EXCEPT ![app[a].slot].key = asks[app[a].n],
                                                    ![app[a].slot].alone = app[a].alone]
  /\ Goto(a, "user")
  /\ UNCHANGED <<asks, warning>>

\* Data set, name and number of the user.
StoreUser(a) ==
  /\ app[a].at = "user"
  /\ wifiCmdWaitRspBuf' = [wifiCmdWaitRspBuf EXCEPT ![app[a].slot].ask = app[a].n]
  /\ Goto(a, "valid")
  /\ UNCHANGED <<asks, warning>>

StoreValid(a) ==
  /\ app[a].at = "valid"
  /\ wifiCmdWaitRspBuf' = [wifiCmdWaitRspBuf EXCEPT ![app[a].slot].valid = 1,
                                                    ![app[a].slot].alone = app[a].alone]
  /\ app' = [app EXCEPT ![a] = Idle]
  /\ UNCHANGED <<asks, warning>>

\* The receive thread handles the answer to a command, and its user is told: the answer
\* of a door lock is taken for any end point, for the variable ep is not set.
RxAnswer ==
  /\ \E n \in 1 .. Len(asks) :
       \E ep \in IF asks[n].cmd = "DOOR_UNLOCK" THEN {k.ep : k \in Keys} ELSE {asks[n].ep} :
         LET found == Matching([asks[n] EXCEPT !.ep = ep])
             i == FirstSlot(found)
         IN  /\ found # {}
             /\ wifiCmdWaitRspBuf' = [wifiCmdWaitRspBuf EXCEPT ![i].valid = 0]
  /\ UNCHANGED <<asks, app, warning>>

\* An entry not answered in time is given up.
Expire ==
  /\ \E i \in Slots :
       /\ wifiCmdWaitRspBuf[i].valid = 1
       /\ wifiCmdWaitRspBuf' = [wifiCmdWaitRspBuf EXCEPT ![i].valid = 0]
  /\ UNCHANGED <<asks, app, warning>>

-----------------------------------------------------------------------------
(* Warnings: userAppControlWDFunc *)

Starting == {"stop", "times", "addr", "start"}

InCallback == callback.at # "idle"

\* A warning is started (to a device, for a duration) or stopped; the command has been
\* put in the transmit buffer.
Warn(a) ==
  /\ app[a].at = "idle" /\ Len(asks) + warnings < MaxCalls
  /\ warnings' = warnings + 1
  /\ \/ \E d \in Devices, t \in Durations :
          Meet(a, Place("stop", warnings + 1, d, t, IF InCallback THEN 0 ELSE 1),
               Others(a, Starting))
     \/ Meet(a, Place("off", 0, "none", 0, 1), {})
  /\ callback' = IF InCallback THEN [callback EXCEPT !.alone = 0] ELSE callback
  /\ UNCHANGED <<waiting, wd, timers>>

\* The timer of the handle, if it runs, is stopped ...
StopTimer(h) == timers' = {t \in timers : t.id # h}

\* Mutant: an older timer runs on.
StopOldKept(a) ==
  /\ app[a].at = "stop"
  /\ Goto(a, "times")
  /\ UNCHANGED <<waiting, warning>>

\* ... before another is started ...
StopOld(a) ==
  /\ app[a].at = "stop"
  /\ StopTimer(wd.timer)
  /\ Goto(a, "times")
  /\ UNCHANGED <<waiting, warnings, wd, callback>>

\* ... or because the warning is over: setWDTimes and the handle stay as they are.
StopOnly(a) ==
  /\ app[a].at = "off"
  /\ StopTimer(wd.timer)
  /\ app' = [app EXCEPT ![a] = Idle]
  /\ UNCHANGED <<waiting, warnings, wd, callback>>

\* Mutant: the duration is stored as it is asked.
StoredTimesWide(t) == t

\* setWDTimes = duration
StoredTimes(t) == t % TimesMod

\* Mutant: a duration that is set already stays.
SetTimesOnce(a) ==
  /\ app[a].at = "times"
  /\ wd' = [wd EXCEPT !.setWDTimes = IF @ = 0 THEN StoredTimes(app[a].duration) ELSE @]
  /\ Goto(a, "addr")
  /\ UNCHANGED <<waiting, warnings, timers, callback>>

SetTimes(a) ==
  /\ app[a].at = "times"
  /\ wd' = [wd EXCEPT !.setWDTimes = StoredTimes(app[a].duration)]
  /\ Goto(a, "addr")
  /\ UNCHANGED <<waiting, warnings, timers, callback>>

SetAddr(a) ==
  /\ app[a].at = "addr"
  /\ wd' = [wd EXCEPT !.WDShortAddr = app[a].to]
  /\ Goto(a, "start")
  /\ UNCHANGED <<waiting, warnings, timers, callback>>

\* StartTimer(setWDTimes, ...): what is there by now.
StartTimer(a) ==
  /\ app[a].at = "start"
  /\ timers' = timers \cup {[id |-> app[a].n, length |-> wd.setWDTimes, to |-> app[a].to,
                             asked |-> app[a].duration, alone |-> app[a].alone]}
  /\ wd' = [wd EXCEPT !.timer = app[a].n]
  /\ app' = [app EXCEPT ![a] = Idle]
  /\ UNCHANGED <<waiting, warnings, callback>>

\* A timer ends, and AlarmWDStateCbk runs: the threads that are starting another
\* warning meet it.
TimerEnds ==
  /\ callback.at = "idle"
  /\ \E t \in timers :
       LET met == {a \in Apps : app[a].at \in Starting} IN
       /\ timers' = timers \ {t}
       /\ callback' = [at |-> "clear", to |-> t.to,
                       alone |-> IF met = {} THEN t.alone ELSE 0]
       /\ app' = [a \in Apps |-> IF a \in met THEN [app[a] EXCEPT !.alone = 0] ELSE app[a]]
  /\ UNCHANGED <<waiting, warnings, wd>>

CallbackClears ==
  /\ callback.at = "clear"
  /\ wd' = [wd EXCEPT !.setWDTimes = 0]
  /\ callback' = [callback EXCEPT !.at = "report"]
  /\ UNCHANGED <<waiting, app, warnings, timers>>

\* The end of the alarm of the device of WDShortAddr goes to the cloud.
CallbackReports ==
  /\ callback.at = "report"
  /\ callback' = NoCallback
  /\ UNCHANGED <<waiting, app, warnings, wd, timers>>

-----------------------------------------------------------------------------
Waiting(a) ==
  \/ Ask(a) \/ SearchAwaited(a) \/ SearchFree(a) \/ SearchFull(a)
  \/ StoreKey(a) \/ StoreUser(a) \/ StoreValid(a)

Warning(a) ==
  \/ Warn(a) \/ StopOld(a) \/ StopOnly(a) \/ SetTimes(a) \/ SetAddr(a) \/ StartTimer(a)

Callback == TimerEnds \/ CallbackClears \/ CallbackReports

Next == (\E a \in Apps : Waiting(a) \/ Warning(a)) \/ RxAnswer \/ Expire \/ Callback

Spec == Init /\ [][Next]_vars

-----------------------------------------------------------------------------
(* Properties *)

Entry == [valid : {0, 1}, key : Keys \cup {NoKey}, ask : 0 .. MaxCalls, alone : {0, 1}]

Thread == [at : {"idle", "search", "off"} \cup Filling \cup Starting, n : Nat, slot : Slots,
           to : Devices \cup {"none"}, duration : Durations \cup {0}, alone : {0, 1}]

WaitTypes ==
  /\ asks \in Seq(Keys) /\ Len(asks) <= MaxCalls
  /\ wifiCmdWaitRspBuf \in [Slots -> Entry]

WarnTypes ==
  /\ warnings \in 0 .. MaxCalls
  /\ wd \in [setWDTimes : 0 .. TimesMod - 1, WDShortAddr : Devices \cup {"none"},
             timer : 0 .. MaxCalls]
  /\ \A t \in timers : t \in [id : 1 .. MaxCalls, length : 0 .. TimesMod - 1, to : Devices,
                             asked : Durations, alone : {0, 1}]
  /\ callback \in [at : {"idle", "clear", "report"}, to : Devices \cup {"none"}, alone : {0, 1}]

\* The types of the buffer, the timer and the threads' places.
TypeOK == WaitTypes /\ WarnTypes /\ app \in [Apps -> Thread]

\* The user of an entry is one who asked for its key, so that nobody is told the outcome
\* of another's command, unless two threads filled the entry at once: then the key of
\* one may stand with the user of the other.
UserAskedForKey ==
  \A i \in Slots :
    LET e == wifiCmdWaitRspBuf[i] IN
      e.valid = 1 /\ e.alone = 1 => e.ask # 0 /\ asks[e.ask] = e.key

\* A key is awaited in one entry at most, and its answer leaves none behind, unless two
\* threads were filling at once: an entry freed between their searches gives them two.
OneEntryPerKey ==
  \A i, j \in Slots :
    LET e == wifiCmdWaitRspBuf[i]
        f == wifiCmdWaitRspBuf[j]
    IN  i # j /\ e.valid = 1 /\ f.valid = 1 /\ e.alone = 1 /\ f.alone = 1 => e.key # f.key

\* Under the same condition an entry stays what it is until it is answered or given up,
\* however full the buffer is.
KeptUntilDone ==
  [][\A i \in Slots :
       LET e == wifiCmdWaitRspBuf[i] IN
       e.valid = 1 /\ e.alone = 1 => wifiCmdWaitRspBuf'[i] \in {e, [e EXCEPT !.valid = 0]}]_vars

TimerAsAsked == \A t \in timers : t.alone = 1 /\ t.asked < TimesMod => t.length = t.asked

OneTimer == \A t, u \in timers : t.alone = 1 /\ u.alone = 1 => t = u

\* A timer runs for the duration its warning was asked for, if that is one of 8 bits, and
\* no older one runs beside it, unless another start, or the callback of an older timer,
\* met its start: the callback sets setWDTimes to 0.
WarningTimed == TimerAsAsked /\ OneTimer

\* Under the same condition the device reported to the cloud is the one its timer was
\* started for, unless the callback meets the start of another warning.
ReportsWarned ==
  callback.at = "report" /\ callback.alone = 1 => wd.WDShortAddr = callback.to
=============================================================================
