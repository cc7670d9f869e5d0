-------------------------- MODULE AppCommandsProofs --------------------------
(***************************************************************************)
(* Proofs about AppCommands, for any number of threads, entries, commands  *)
(* and devices: the types, and what the histories alone promise of the     *)
(* entries of wifiCmdWaitRspBuf and of the timers.                         *)
(*                                                                         *)
(* WaitInv says what a fill that has met no other may rely on: its slot is *)
(* free and no entry has its key.  WarnInv says the same of a warning that *)
(* is being started: what it has stored stands, and no timer of another    *)
(* warning runs that started alone.                                        *)
(***************************************************************************)
EXTENDS AppCommands, NumberFacts, SequenceTheorems

LEMMA FirstSlotFound ==
  ASSUME NEW S \in SUBSET Slots, S # {}
  PROVE  FirstSlot(S) \in S
<1>1. S \in SUBSET Nat
  BY SizesAssumption DEF Slots
<1>2. \E i \in S : \A j \in S : i <= j
  BY <1>1, LeastNat
<1>. QED BY <1>2 DEF FirstSlot

\* Where a thread stands it knows its command.
Knows(v) ==
  /\ v.at \in {"search"} \cup Filling => v.n \in 1 .. Len(asks)
  /\ v.at \in Starting => v.n \in 1 .. warnings /\ v.to \in Devices /\ v.duration \in Durations

PlaceInv == \A a \in Apps : Knows(app[a])

-----------------------------------------------------------------------------
(* Types *)

LEMMA TypeInit == Init => TypeOK /\ PlaceInv
<1>. SUFFICES ASSUME Init PROVE TypeOK /\ PlaceInv
  OBVIOUS
<1>. USE SizesAssumption
<1>1. WaitTypes
  BY DEF Init, WaitTypes, Entry, NoEntry, Slots
<1>2. WarnTypes
  BY DEF Init, WarnTypes, NoTimer, NoCallback
<1>3. app \in [Apps -> Thread] /\ PlaceInv
  BY DEF Init, Idle, Place, Thread, Slots, PlaceInv, Knows, Filling, Starting
<1>. QED BY <1>1, <1>2, <1>3 DEF TypeOK

\* A thread that goes on, and those it meets.
LEMMA MeetTypes ==
  ASSUME app \in [Apps -> Thread], NEW a \in Apps, NEW v \in Thread, NEW met, Meet(a, v, met)
  PROVE  /\ app' \in [Apps -> Thread]
         /\ app'[a].at = v.at /\ app'[a].n = v.n /\ app'[a].to = v.to /\ app'[a].slot = v.slot
         /\ app'[a].duration = v.duration
         /\ app'[a].alone = IF met = {} THEN v.alone ELSE 0
         /\ \A b \in Apps \ {a} :
              /\ app'[b].at = app[b].at /\ app'[b].n = app[b].n /\ app'[b].to = app[b].to
              /\ app'[b].slot = app[b].slot /\ app'[b].duration = app[b].duration
              /\ app'[b].alone = IF b \in met THEN 0 ELSE app[b].alone
<1>1. app'[a] = [v EXCEPT !.alone = IF met = {} THEN v.alone ELSE 0]
  BY DEF Meet
<1>2. /\ app'[a] \in Thread
      /\ app'[a].at = v.at /\ app'[a].n = v.n /\ app'[a].to = v.to /\ app'[a].slot = v.slot
      /\ app'[a].duration = v.duration
      /\ app'[a].alone = IF met = {} THEN v.alone ELSE 0
  BY <1>1 DEF Thread
<1>3. ASSUME NEW b \in Apps \ {a}
      PROVE  /\ app'[b] \in Thread
             /\ app'[b].at = app[b].at /\ app'[b].n = app[b].n /\ app'[b].to = app[b].to
             /\ app'[b].slot = app[b].slot /\ app'[b].duration = app[b].duration
             /\ app'[b].alone = IF b \in met THEN 0 ELSE app[b].alone
  <2>1. app[b] \in Thread
    OBVIOUS
  <2>2. app'[b] = IF b \in met THEN [app[b] EXCEPT !.alone = 0] ELSE app[b]
    BY DEF Meet
  <2>3. CASE b \in met
    BY <2>1, <2>2, <2>3 DEF Thread
  <2>4. CASE b \notin met
    BY <2>1, <2>2, <2>4 DEF Thread
  <2>. QED BY <2>3, <2>4
<1>4. app' = [b \in Apps |-> app'[b]]
  BY DEF Meet
<1>. QED BY <1>2, <1>3, <1>4

LEMMA GotoTypes ==
  ASSUME app \in [Apps -> Thread], NEW a \in Apps,
         NEW p \in {"idle", "search", "off"} \cup Filling \cup Starting, Goto(a, p)
  PROVE  /\ app' \in [Apps -> Thread]
         /\ app'[a] = [app[a] EXCEPT !.at = p]
         /\ \A b \in Apps \ {a} : app'[b] = app[b]
<1>1. app[a] \in Thread /\ [app[a] EXCEPT !.at = p] \in Thread
  BY DEF Thread
<1>. QED BY <1>1 DEF Goto

\* A step of one thread leaves what the others know.
LEMMA PlaceStep ==
  ASSUME PlaceInv, NEW a \in Apps, Knows(app[a])',
         Len(asks) \in Nat, Len(asks') \in Nat, Len(asks) <= Len(asks'),
         warnings \in Nat, warnings' \in Nat, warnings <= warnings',
         \A b \in Apps \ {a} :
           /\ app'[b].at = app[b].at /\ app'[b].n = app[b].n
           /\ app'[b].to = app[b].to /\ app'[b].duration = app[b].duration
  PROVE  PlaceInv'
<1>1. ASSUME NEW b \in Apps \ {a} PROVE Knows(app[b])'
  <2>1. Knows(app[b])
    BY DEF PlaceInv
  <2>2. \A n : n \in 1 .. Len(asks) => n \in 1 .. Len(asks')
    OBVIOUS
  <2>3. \A n : n \in 1 .. warnings => n \in 1 .. warnings'
    OBVIOUS
  <2>. QED BY <2>1, <2>2, <2>3 DEF Knows
<1>. QED BY <1>1 DEF PlaceInv

LEMMA WaitingTypes ==
  ASSUME TypeOK, PlaceInv, NEW a \in Apps, Waiting(a)
  PROVE  TypeOK' /\ PlaceInv'
<1>. USE SizesAssumption
<1>0. /\ WarnTypes' /\ warnings' = warnings /\ warnings \in Nat /\ Len(asks) \in Nat
      /\ app \in [Apps -> Thread] /\ app[a] \in Thread /\ Knows(app[a])
  <2>1. UNCHANGED warning
    BY DEF Waiting, Ask, SearchAwaited, SearchFree, SearchFull, StoreKey, StoreUser, StoreValid
  <2>. QED BY <2>1 DEF warning, TypeOK, WarnTypes, WaitTypes, PlaceInv
<1>1. Idle \in Thread /\ ~ Idle.at \in {"search"} \cup Filling \cup Starting
  BY DEF Idle, Place, Thread, Slots, Filling, Starting
<1>2. CASE Ask(a)
  <2>. DEFINE v == Place("search", Len(asks) + 1, "none", 0, 1)
  <2>1. PICK k \in Keys : asks' = Append(asks, k)
    BY <1>2 DEF Ask
  <2>2. asks' \in Seq(Keys) /\ Len(asks') = Len(asks) + 1
    BY <2>1 DEF TypeOK, WaitTypes
  <2>3. WaitTypes'
    BY <1>2, <2>2 DEF Ask, TypeOK, WaitTypes, WarnTypes
  <2>4. app' = [app EXCEPT ![a] = v]
    BY <1>2 DEF Ask
  <2>5. v \in Thread /\ v.at = "search" /\ v.n = Len(asks) + 1
    BY <1>0 DEF Place, Thread, Slots
  <2>. HIDE DEF v
  <2>6. app' \in [Apps -> Thread] /\ app'[a] = v /\ \A b \in Apps \ {a} : app'[b] = app[b]
    BY <1>0, <2>4, <2>5
  <2>7. PlaceInv'
    <3>1. Knows(app[a])'
      BY <1>0, <2>2, <2>5, <2>6 DEF Knows, Starting
    <3>. QED BY <1>0, <2>2, <2>6, <3>1, PlaceStep
  <2>. QED BY <1>0, <2>3, <2>6, <2>7 DEF TypeOK
<1>3. CASE SearchAwaited(a) \/ SearchFull(a)
  <2>1. app' = [app EXCEPT ![a] = Idle] /\ UNCHANGED <<asks, wifiCmdWaitRspBuf>>
    BY <1>3 DEF SearchAwaited, SearchFull, waiting
  <2>2. app' \in [Apps -> Thread] /\ app'[a] = Idle /\ \A b \in Apps \ {a} : app'[b] = app[b]
    BY <1>0, <1>1, <2>1
  <2>3. Knows(app[a])'
    BY <1>1, <2>2 DEF Knows
  <2>4. PlaceInv'
    BY <1>0, <2>1, <2>2, <2>3, PlaceStep
  <2>. QED BY <1>0, <2>1, <2>2, <2>4 DEF TypeOK, WaitTypes
<1>4. CASE SearchFree(a)
  <2>. DEFINE v == [app[a] EXCEPT !.at = "key", !.slot = FirstSlot(Free)]
  <2>1. UNCHANGED <<asks, wifiCmdWaitRspBuf>> /\ FirstSlot(Free) \in Slots
    BY <1>4, FirstSlotFound DEF SearchFree, waiting, Free
  <2>2. v \in Thread /\ v.at = "key" /\ v.n = app[a].n
    BY <1>0, <2>1 DEF Thread, Filling
  <2>3. Meet(a, v, Others(a, Filling))
    BY <1>4 DEF SearchFree
  <2>4. app' \in [Apps -> Thread]
    BY <1>0, <2>2, <2>3, MeetTypes
  <2>5. app'[a].at = "key" /\ app'[a].n = app[a].n
    <3>. HIDE DEF v
    <3>. QED BY <1>0, <2>2, <2>3, MeetTypes
  <2>6. \A b \in Apps \ {a} :
          /\ app'[b].at = app[b].at /\ app'[b].n = app[b].n
          /\ app'[b].to = app[b].to /\ app'[b].duration = app[b].duration
    <3>. HIDE DEF v
    <3>. QED BY <1>0, <2>2, <2>3, MeetTypes
  <2>7. Knows(app[a])'
    BY <1>0, <1>4, <2>1, <2>5 DEF Knows, SearchFree, Starting
  <2>8. PlaceInv'
    BY <1>0, <2>1, <2>6, <2>7, PlaceStep
  <2>. QED BY <1>0, <2>1, <2>4, <2>8 DEF TypeOK, WaitTypes
<1>5. CASE StoreKey(a)
  <2>. DEFINE s == app[a].slot
  <2>1. /\ s \in Slots /\ asks[app[a].n] \in Keys /\ app[a].alone \in {0, 1}
        /\ wifiCmdWaitRspBuf' = [wifiCmdWaitRspBuf EXCEPT ![s].key = asks[app[a].n],
                                                          ![s].alone = app[a].alone]
        /\ asks' = asks /\ Goto(a, "user")
    BY <1>0, <1>5 DEF StoreKey, TypeOK, Knows, Thread, Filling, WaitTypes
  <2>2. wifiCmdWaitRspBuf' \in [Slots -> Entry]
    BY <2>1 DEF TypeOK, WaitTypes, Entry
  <2>3. /\ app' \in [Apps -> Thread] /\ app'[a] = [app[a] EXCEPT !.at = "user"]
        /\ \A b \in Apps \ {a} : app'[b] = app[b]
    BY <1>0, <2>1, GotoTypes DEF Filling
  <2>4. Knows(app[a])'
    BY <1>0, <1>5, <2>1, <2>3 DEF Knows, StoreKey, Filling, Starting, Thread
  <2>5. PlaceInv'
    BY <1>0, <2>1, <2>3, <2>4, PlaceStep
  <2>. QED BY <1>0, <2>1, <2>2, <2>3, <2>5 DEF TypeOK, WaitTypes
<1>6. CASE StoreUser(a)
  <2>. DEFINE s == app[a].slot
  <2>1. /\ s \in Slots /\ app[a].n \in 0 .. MaxCalls
        /\ wifiCmdWaitRspBuf' = [wifiCmdWaitRspBuf EXCEPT ![s].ask = app[a].n]
        /\ asks' = asks /\ Goto(a, "valid")
    BY <1>0, <1>6 DEF StoreUser, TypeOK, Knows, Thread, Filling, WaitTypes
  <2>2. wifiCmdWaitRspBuf' \in [Slots -> Entry]
    BY <2>1 DEF TypeOK, WaitTypes, Entry
  <2>3. /\ app' \in [Apps -> Thread] /\ app'[a] = [app[a] EXCEPT !.at = "valid"]
        /\ \A b \in Apps \ {a} : app'[b] = app[b]
    BY <1>0, <2>1, GotoTypes DEF Filling
  <2>4. Knows(app[a])'
    BY <1>0, <1>6, <2>1, <2>3 DEF Knows, StoreUser, Filling, Starting, Thread
  <2>5. PlaceInv'
    BY <1>0, <2>1, <2>3, <2>4, PlaceStep
  <2>. QED BY <1>0, <2>1, <2>2, <2>3, <2>5 DEF TypeOK, WaitTypes
<1>7. CASE StoreValid(a)
  <2>. DEFINE s == app[a].slot
  <2>1. /\ s \in Slots /\ app[a].alone \in {0, 1}
        /\ wifiCmdWaitRspBuf' = [wifiCmdWaitRspBuf EXCEPT ![s].valid = 1,
                                                          ![s].alone = app[a].alone]
        /\ asks' = asks /\ app' = [app EXCEPT ![a] = Idle]
    BY <1>0, <1>7 DEF StoreValid, Thread
  <2>2. wifiCmdWaitRspBuf' \in [Slots -> Entry]
    BY <2>1 DEF TypeOK, WaitTypes, Entry
  <2>3. app' \in [Apps -> Thread] /\ app'[a] = Idle /\ \A b \in Apps \ {a} : app'[b] = app[b]
    BY <1>0, <1>1, <2>1
  <2>4. Knows(app[a])'
    BY <1>1, <2>3 DEF Knows
  <2>5. PlaceInv'
    BY <1>0, <2>1, <2>3, <2>4, PlaceStep
  <2>. QED BY <1>0, <2>1, <2>2, <2>3, <2>5 DEF TypeOK, WaitTypes
<1>. QED BY <1>2, <1>3, <1>4, <1>5, <1>6, <1>7 DEF Waiting

\* The warning's thread, and the threads it meets.
LEMMA WarnMeets ==
  ASSUME TypeOK, NEW a \in Apps, Warn(a)
  PROVE  \E v, met :
           /\ Meet(a, v, met) /\ v \in Thread /\ v.at \in {"stop", "off"}
           /\ v.at = "stop" =>
                /\ v.n = warnings + 1 /\ v.to \in Devices /\ v.duration \in Durations
                /\ v.alone = IF InCallback THEN 0 ELSE 1
                /\ met = Others(a, Starting)
           /\ v.at = "off" => met = {}
<1>0. warnings + 1 \in Nat /\ 0 \in Slots
  BY SizesAssumption DEF TypeOK, WarnTypes, Slots
<1>1. CASE \E d \in Devices, t \in Durations :
             Meet(a, Place("stop", warnings + 1, d, t, IF InCallback THEN 0 ELSE 1),
                  Others(a, Starting))
  <2>1. PICK d \in Devices, t \in Durations :
             Meet(a, Place("stop", warnings + 1, d, t, IF InCallback THEN 0 ELSE 1),
                  Others(a, Starting))
    BY <1>1
  <2>. DEFINE v == Place("stop", warnings + 1, d, t, IF InCallback THEN 0 ELSE 1)
  <2>2. v \in Thread
    BY <1>0 DEF Place, Thread, Starting
  <2>3. /\ v.at = "stop" /\ v.n = warnings + 1 /\ v.to \in Devices /\ v.duration \in Durations
        /\ v.alone = IF InCallback THEN 0 ELSE 1
    BY DEF Place
  <2>4. Meet(a, v, Others(a, Starting))
    BY <2>1
  <2>. HIDE DEF v
  <2>. QED BY <2>2, <2>3, <2>4
<1>2. CASE Meet(a, Place("off", 0, "none", 0, 1), {})
  <2>. DEFINE v == Place("off", 0, "none", 0, 1)
  <2>1. v \in Thread /\ v.at = "off"
    BY <1>0 DEF Place, Thread
  <2>2. Meet(a, v, {})
    BY <1>2
  <2>. HIDE DEF v
  <2>. QED BY <2>1, <2>2
<1>. QED BY <1>1, <1>2 DEF Warn

LEMMA WarningTypes ==
  ASSUME TypeOK, PlaceInv, NEW a \in Apps, Warning(a)
  PROVE  TypeOK' /\ PlaceInv'
<1>. USE SizesAssumption
<1>0. /\ asks' = asks /\ wifiCmdWaitRspBuf' = wifiCmdWaitRspBuf /\ WaitTypes'
      /\ Len(asks) \in Nat /\ warnings \in Nat
      /\ app \in [Apps -> Thread] /\ app[a] \in Thread /\ Knows(app[a])
  <2>1. UNCHANGED waiting
    BY DEF Warning, Warn, StopOld, StopOnly, SetTimes, SetAddr, StartTimer
  <2>. QED BY <2>1 DEF waiting, TypeOK, WarnTypes, WaitTypes, PlaceInv
<1>1. Idle \in Thread /\ ~ Idle.at \in {"search"} \cup Filling \cup Starting
  BY DEF Idle, Place, Thread, Slots, Filling, Starting
<1>2. CASE Warn(a)
  <2>1. /\ warnings' = warnings + 1 /\ warnings' \in 0 .. MaxCalls
        /\ WarnTypes'
    <3>1. warnings' = warnings + 1 /\ warnings' \in 0 .. MaxCalls /\ UNCHANGED <<wd, timers>>
      BY <1>0, <1>2 DEF Warn, TypeOK, WarnTypes
    <3>2. callback' \in [at : {"idle", "clear", "report"}, to : Devices \cup {"none"}, alone : {0, 1}]
      BY <1>2 DEF Warn, TypeOK, WarnTypes
    <3>. QED BY <3>1, <3>2 DEF TypeOK, WarnTypes
  <2>2. PICK v, met :
           /\ Meet(a, v, met) /\ v \in Thread /\ v.at \in {"stop", "off"}
           /\ v.at = "stop" =>
                v.n = warnings + 1 /\ v.to \in Devices /\ v.duration \in Durations
    BY <1>2, WarnMeets
  <2>3. /\ app' \in [Apps -> Thread]
        /\ app'[a].at = v.at /\ app'[a].n = v.n /\ app'[a].to = v.to
        /\ app'[a].duration = v.duration
        /\ \A b \in Apps \ {a} :
             /\ app'[b].at = app[b].at /\ app'[b].n = app[b].n
             /\ app'[b].to = app[b].to /\ app'[b].duration = app[b].duration
    BY <1>0, <2>2, MeetTypes
  <2>4. Knows(app[a])'
    BY <1>0, <2>1, <2>2, <2>3 DEF Knows, Filling, Starting
  <2>5. PlaceInv'
    BY <1>0, <2>1, <2>3, <2>4, PlaceStep
  <2>. QED BY <1>0, <2>1, <2>3, <2>5 DEF TypeOK
<1>3. CASE StopOld(a) \/ StopOnly(a)
  <2>1. WarnTypes' /\ warnings' = warnings
    BY <1>3 DEF StopOld, StopOnly, StopTimer, TypeOK, WarnTypes
  <2>2. CASE StopOld(a)
    <3>1. /\ app' \in [Apps -> Thread] /\ app'[a] = [app[a] EXCEPT !.at = "times"]
          /\ \A b \in Apps \ {a} : app'[b] = app[b]
      BY <1>0, <2>2, GotoTypes DEF StopOld, Starting
    <3>2. Knows(app[a])'
      BY <1>0, <2>1, <2>2, <3>1 DEF Knows, StopOld, Filling, Starting, Thread
    <3>. QED BY <1>0, <2>1, <3>1, <3>2, PlaceStep DEF TypeOK
  <2>3. CASE StopOnly(a)
    <3>1. app' \in [Apps -> Thread] /\ app'[a] = Idle /\ \A b \in Apps \ {a} : app'[b] = app[b]
      BY <1>0, <1>1, <2>3 DEF StopOnly
    <3>2. Knows(app[a])'
      BY <1>1, <3>1 DEF Knows
    <3>. QED BY <1>0, <2>1, <3>1, <3>2, PlaceStep DEF TypeOK
  <2>. QED BY <1>3, <2>2, <2>3
<1>4. CASE SetTimes(a) \/ SetAddr(a)
  <2>1. app[a].to \in Devices /\ StoredTimes(app[a].duration) \in 0 .. TimesMod - 1
    <3>1. app[a].to \in Devices /\ app[a].duration \in Nat
      BY <1>0, <1>4 DEF SetTimes, SetAddr, Knows, Starting
    <3>2. \A t \in Nat : t % TimesMod \in 0 .. TimesMod - 1
      BY DivMod
    <3>. QED BY <3>1, <3>2 DEF StoredTimes
  <2>2. WarnTypes' /\ warnings' = warnings
    BY <1>4, <2>1 DEF SetTimes, SetAddr, TypeOK, WarnTypes
  <2>3. PICK p \in {"addr", "start"} : Goto(a, p) /\ app[a].at \in Starting
    BY <1>4 DEF SetTimes, SetAddr, Starting
  <2>4. /\ app' \in [Apps -> Thread] /\ app'[a] = [app[a] EXCEPT !.at = p]
        /\ \A b \in Apps \ {a} : app'[b] = app[b]
    BY <1>0, <2>3, GotoTypes DEF Starting
  <2>5. Knows(app[a])'
    BY <1>0, <2>2, <2>3, <2>4 DEF Knows, Filling, Thread
  <2>. QED BY <1>0, <2>2, <2>4, <2>5, PlaceStep DEF TypeOK
<1>5. CASE StartTimer(a)
  <2>1. /\ app[a].n \in 1 .. MaxCalls /\ app[a].to \in Devices /\ app[a].duration \in Durations
        /\ app[a].alone \in {0, 1}
    BY <1>0, <1>5 DEF StartTimer, Knows, Starting, Thread, TypeOK, WarnTypes
  <2>2. WarnTypes' /\ warnings' = warnings
    BY <1>5, <2>1 DEF StartTimer, TypeOK, WarnTypes
  <2>3. app' \in [Apps -> Thread] /\ app'[a] = Idle /\ \A b \in Apps \ {a} : app'[b] = app[b]
    BY <1>0, <1>1, <1>5 DEF StartTimer
  <2>4. Knows(app[a])'
    BY <1>1, <2>3 DEF Knows
  <2>. QED BY <1>0, <2>2, <2>3, <2>4, PlaceStep DEF TypeOK
<1>. QED BY <1>2, <1>3, <1>4, <1>5 DEF Warning

\* An answer, or the end of the time for it, frees one entry.
LEMMA EntryFreed ==
  ASSUME TypeOK, RxAnswer \/ Expire
  PROVE  \E i \in Slots :
           /\ wifiCmdWaitRspBuf[i].valid = 1
           /\ wifiCmdWaitRspBuf' = [wifiCmdWaitRspBuf EXCEPT ![i].valid = 0]
<1>1. CASE Expire
  BY <1>1 DEF Expire
<1>2. CASE RxAnswer
  <2>1. PICK k : LET i == FirstSlot(Matching(k)) IN
          /\ Matching(k) # {}
          /\ wifiCmdWaitRspBuf' = [wifiCmdWaitRspBuf EXCEPT ![i].valid = 0]
    BY <1>2 DEF RxAnswer
  <2>2. FirstSlot(Matching(k)) \in Matching(k)
    BY <2>1, FirstSlotFound DEF Matching
  <2>. QED BY <2>1, <2>2 DEF Matching
<1>. QED BY <1>1, <1>2

LEMMA OthersTypes ==
  ASSUME TypeOK, PlaceInv, RxAnswer \/ Expire \/ Callback
  PROVE  TypeOK' /\ PlaceInv'
<1>1. CASE RxAnswer \/ Expire
  <2>1. UNCHANGED <<asks, app, warnings, wd, timers, callback>>
    BY <1>1 DEF RxAnswer, Expire, warning
  <2>2. wifiCmdWaitRspBuf' \in [Slots -> Entry]
    BY <1>1, EntryFreed DEF TypeOK, WaitTypes, Entry
  <2>. QED BY <2>1, <2>2 DEF TypeOK, WaitTypes, WarnTypes, PlaceInv, Knows
<1>2. CASE Callback
  <2>1. UNCHANGED <<asks, wifiCmdWaitRspBuf, warnings>>
    BY <1>2 DEF Callback, TimerEnds, CallbackClears, CallbackReports, waiting
  <2>2. WarnTypes'
    <3>1. CASE TimerEnds
      BY <3>1 DEF TimerEnds, TypeOK, WarnTypes
    <3>2. CASE CallbackClears
      BY <3>2, SizesAssumption DEF CallbackClears, TypeOK, WarnTypes
    <3>3. CASE CallbackReports
      BY <3>3 DEF CallbackReports, NoCallback, TypeOK, WarnTypes
    <3>. QED BY <1>2, <3>1, <3>2, <3>3 DEF Callback
  <2>3. /\ app' \in [Apps -> Thread]
        /\ \A b \in Apps : /\ app'[b].at = app[b].at /\ app'[b].n = app[b].n
                           /\ app'[b].to = app[b].to /\ app'[b].duration = app[b].duration
    <3>1. CASE TimerEnds
      <4>1. PICK met : app' = [a \in Apps |-> IF a \in met THEN [app[a] EXCEPT !.alone = 0]
                                              ELSE app[a]]
        BY <3>1 DEF TimerEnds
      <4>2. ASSUME NEW b \in Apps
            PROVE  /\ app'[b] \in Thread
                   /\ app'[b].at = app[b].at /\ app'[b].n = app[b].n
                   /\ app'[b].to = app[b].to /\ app'[b].duration = app[b].duration
        BY <4>1 DEF TypeOK, Thread
      <4>. QED BY <4>1, <4>2
    <3>2. CASE CallbackClears \/ CallbackReports
      BY <3>2 DEF CallbackClears, CallbackReports, TypeOK
    <3>. QED BY <1>2, <3>1, <3>2 DEF Callback
  <2>. QED BY <2>1, <2>2, <2>3 DEF TypeOK, WaitTypes, PlaceInv, Knows
<1>. QED BY <1>1, <1>2

LEMMA TypeStutter == TypeOK /\ PlaceInv /\ UNCHANGED vars => TypeOK' /\ PlaceInv'
BY DEF vars, TypeOK, WaitTypes, WarnTypes, PlaceInv, Knows

\* The buffer, the timer and the places of the threads keep their types.
THEOREM AppCommandsTypes == Spec => [](TypeOK /\ PlaceInv)
<1>1. TypeOK /\ PlaceInv /\ [Next]_vars => (TypeOK /\ PlaceInv)'
  BY WaitingTypes, WarningTypes, OthersTypes, TypeStutter DEF Next
<1>. QED BY <1>1, TypeInit, PTL DEF Spec

-----------------------------------------------------------------------------
(* Entries that wait *)

Fills(a) == app[a].at \in Filling

\* A fill that met no other: its slot is free, no entry has its key, and what it has
\* stored stands.
FillInv(a) ==
  LET e == wifiCmdWaitRspBuf[app[a].slot] IN
  Fills(a) /\ app[a].alone = 1 =>
    /\ e.valid = 0
    /\ \A j \in Slots :
         wifiCmdWaitRspBuf[j].valid = 1 => wifiCmdWaitRspBuf[j].key # asks[app[a].n]
    /\ app[a].at \in {"user", "valid"} => e.key = asks[app[a].n]
    /\ app[a].at = "valid" => e.ask = app[a].n

FillsMeet == \A a, b \in Apps : a # b /\ Fills(a) /\ Fills(b) => app[a].alone = 0

FilledMarked ==
  \A a \in Apps :
    LET e == wifiCmdWaitRspBuf[app[a].slot] IN Fills(a) /\ e.valid = 1 => e.alone = 0

AskNumbers == \A i \in Slots : wifiCmdWaitRspBuf[i].ask \in 0 .. Len(asks)

WaitInv ==
  /\ FillsMeet /\ (\A a \in Apps : FillInv(a)) /\ FilledMarked /\ AskNumbers
  /\ UserAskedForKey /\ OneEntryPerKey

LEMMA WaitInit == Init => WaitInv
BY DEF Init, WaitInv, FillsMeet, FillInv, FilledMarked, AskNumbers, Fills, Filling, Idle, Place,
       UserAskedForKey, OneEntryPerKey, NoEntry

\* Steps that fill nothing: entries stay, or are freed.
LEMMA WaitQuiet ==
  ASSUME TypeOK, TypeOK', PlaceInv, WaitInv,
         \A n \in 1 .. Len(asks) : asks'[n] = asks[n], Len(asks) <= Len(asks'),
         \A b \in Apps : Fills(b)' => app'[b] = app[b],
         \A i \in Slots :
           /\ wifiCmdWaitRspBuf'[i].key = wifiCmdWaitRspBuf[i].key
           /\ wifiCmdWaitRspBuf'[i].ask = wifiCmdWaitRspBuf[i].ask
           /\ wifiCmdWaitRspBuf'[i].alone = wifiCmdWaitRspBuf[i].alone
           /\ wifiCmdWaitRspBuf'[i].valid \in {wifiCmdWaitRspBuf[i].valid, 0}
  PROVE  WaitInv'
<1>0. Len(asks) \in Nat /\ Len(asks') \in Nat /\ app \in [Apps -> Thread]
  BY DEF TypeOK, WaitTypes
<1>1. \A b \in Apps : Fills(b)' => /\ Fills(b) /\ app'[b] = app[b] /\ app[b].slot \in Slots
                                   /\ app[b].n \in 1 .. Len(asks)
  BY <1>0 DEF Fills, Thread, PlaceInv, Knows
<1>2. FillsMeet'
  BY <1>1 DEF WaitInv, FillsMeet
<1>3. ASSUME NEW b \in Apps PROVE FillInv(b)'
  <2>1. SUFFICES ASSUME Fills(b)', app'[b].alone = 1 PROVE FillInv(b)'
    BY DEF FillInv
  <2>2. /\ Fills(b) /\ app'[b] = app[b] /\ app[b].slot \in Slots
        /\ asks'[app[b].n] = asks[app[b].n]
    BY <1>1, <2>1
  <2>3. FillInv(b) /\ app[b].alone = 1
    BY <2>1, <2>2 DEF WaitInv
  <2>4. \A j \in Slots : wifiCmdWaitRspBuf'[j].valid = 1 => wifiCmdWaitRspBuf[j].valid = 1
    OBVIOUS
  <2>. QED BY <2>2, <2>3, <2>4 DEF FillInv
<1>4. FilledMarked'
  BY <1>1 DEF WaitInv, FilledMarked
<1>5. AskNumbers'
  BY <1>0 DEF WaitInv, AskNumbers
<1>6. UserAskedForKey'
  <2>. SUFFICES ASSUME NEW i \in Slots, wifiCmdWaitRspBuf'[i].valid = 1,
                       wifiCmdWaitRspBuf'[i].alone = 1
                PROVE  /\ wifiCmdWaitRspBuf'[i].ask # 0
                       /\ asks'[wifiCmdWaitRspBuf'[i].ask] = wifiCmdWaitRspBuf'[i].key
    BY DEF UserAskedForKey
  <2>. QED BY <1>0 DEF WaitInv, UserAskedForKey, AskNumbers
<1>7. OneEntryPerKey'
  BY DEF WaitInv, OneEntryPerKey
<1>. QED BY <1>2, <1>3, <1>4, <1>5, <1>6, <1>7 DEF WaitInv

LEMMA WaitSearchFree ==
  ASSUME TypeOK, TypeOK', PlaceInv, WaitInv, NEW a \in Apps, SearchFree(a)
  PROVE  WaitInv'
<1>. DEFINE v == [app[a] EXCEPT !.at = "key", !.slot = FirstSlot(Free)]
            met == Others(a, Filling)
<1>0. app \in [Apps -> Thread] /\ app[a] \in Thread /\ asks' = asks
      /\ wifiCmdWaitRspBuf' = wifiCmdWaitRspBuf
  BY DEF TypeOK, SearchFree, waiting
<1>1. FirstSlot(Free) \in Slots /\ wifiCmdWaitRspBuf[FirstSlot(Free)].valid = 0
  BY FirstSlotFound DEF SearchFree, Free
<1>2. v \in Thread /\ v.at = "key" /\ v.n = app[a].n /\ v.slot = FirstSlot(Free)
      /\ v.alone = app[a].alone
  BY <1>0, <1>1 DEF Thread, Filling
<1>3. Meet(a, v, met)
  BY DEF SearchFree
<1>4. /\ app'[a].at = "key" /\ app'[a].n = app[a].n /\ app'[a].slot = FirstSlot(Free)
      /\ app'[a].alone = IF met = {} THEN app[a].alone ELSE 0
      /\ \A b \in Apps \ {a} :
           /\ app'[b].at = app[b].at /\ app'[b].n = app[b].n /\ app'[b].slot = app[b].slot
           /\ app'[b].alone = IF b \in met THEN 0 ELSE app[b].alone
  <2>. HIDE DEF v, met
  <2>. QED BY <1>0, <1>2, <1>3, MeetTypes
<1>5. \A b \in Apps \ {a} : Fills(b)' => Fills(b) /\ b \in met /\ app'[b].alone = 0
  BY <1>4 DEF Fills, Others
<1>. HIDE DEF v, met
<1>6. FillsMeet'
  BY <1>4, <1>5 DEF FillsMeet
<1>7. ASSUME NEW b \in Apps PROVE FillInv(b)'
  <2>1. CASE b = a
    <3>1. \A j \in Slots : wifiCmdWaitRspBuf[j].valid = 1 =>
                             wifiCmdWaitRspBuf[j].key # asks[app[a].n]
      BY DEF SearchFree, Awaited, Matching
    <3>. QED BY <1>0, <1>1, <1>4, <2>1, <3>1 DEF FillInv
  <2>2. CASE b # a
    BY <1>5, <2>2 DEF FillInv
  <2>. QED BY <2>1, <2>2
<1>8. FilledMarked'
  BY <1>0, <1>1, <1>4, <1>5 DEF WaitInv, FilledMarked
<1>. QED BY <1>0, <1>6, <1>7, <1>8 DEF WaitInv, AskNumbers, UserAskedForKey, OneEntryPerKey

\* What a store into a slot, and the step of its thread, do to the others.
LEMMA WaitStore ==
  ASSUME TypeOK, TypeOK', PlaceInv, WaitInv, NEW a \in Apps, Fills(a), asks' = asks,
         NEW s \in Slots, s = app[a].slot,
         \A i \in Slots \ {s} : wifiCmdWaitRspBuf'[i] = wifiCmdWaitRspBuf[i],
         Fills(a)' => app'[a].alone = app[a].alone /\ app'[a].slot = s,
         \A b \in Apps \ {a} : app'[b] = app[b],
         FillInv(a)',
         wifiCmdWaitRspBuf'[s].ask \in 0 .. Len(asks),
         \* the entry, where it is valid
         wifiCmdWaitRspBuf'[s].valid = 1 => wifiCmdWaitRspBuf'[s].alone = app[a].alone,
         wifiCmdWaitRspBuf'[s].valid = 1 /\ app[a].alone = 1 =>
           /\ ~ Fills(a)'
           /\ wifiCmdWaitRspBuf'[s].ask # 0
           /\ asks[wifiCmdWaitRspBuf'[s].ask] = wifiCmdWaitRspBuf'[s].key
           /\ wifiCmdWaitRspBuf'[s].key = asks[app[a].n]
  PROVE  WaitInv'
<1>0. \A b \in Apps : app[b].alone \in {0, 1} /\ app'[b].alone \in {0, 1} /\ app[b].slot \in Slots
  BY DEF TypeOK, Thread
<1>1. FillsMeet'
  BY DEF WaitInv, FillsMeet, Fills
<1>2. ASSUME NEW b \in Apps \ {a} PROVE FillInv(b)'
  <2>1. Fills(b)' => app'[b].alone = 0
    BY DEF WaitInv, FillsMeet, Fills
  <2>. QED BY <2>1 DEF FillInv
<1>3. FilledMarked'
  <2>. SUFFICES ASSUME NEW b \in Apps, Fills(b)', wifiCmdWaitRspBuf'[app'[b].slot].valid = 1
                PROVE  wifiCmdWaitRspBuf'[app'[b].slot].alone = 0
    BY DEF FilledMarked
  <2>1. CASE b # a
    <3>1. app'[b] = app[b] /\ Fills(b) /\ app[a].alone = 0
      BY <2>1 DEF Fills, WaitInv, FillsMeet
    <3>. QED BY <1>0, <3>1 DEF WaitInv, FilledMarked
  <2>2. CASE b = a
    BY <1>0, <2>2
  <2>. QED BY <2>1, <2>2
<1>4. AskNumbers'
  BY DEF WaitInv, AskNumbers
<1>5. UserAskedForKey'
  BY DEF WaitInv, UserAskedForKey
<1>6. OneEntryPerKey'
  <2>1. \A i \in Slots \ {s} :
          /\ wifiCmdWaitRspBuf'[i].valid = 1 /\ wifiCmdWaitRspBuf'[s].valid = 1
          /\ wifiCmdWaitRspBuf'[s].alone = 1
          => wifiCmdWaitRspBuf'[i].key # wifiCmdWaitRspBuf'[s].key
    BY DEF WaitInv, FillInv
  <2>. QED BY <2>1 DEF WaitInv, OneEntryPerKey
<1>. QED BY <1>1, <1>2, <1>3, <1>4, <1>5, <1>6 DEF WaitInv

LEMMA WaitStores ==
  ASSUME TypeOK, TypeOK', PlaceInv, WaitInv, NEW a \in Apps,
         StoreKey(a) \/ StoreUser(a) \/ StoreValid(a)
  PROVE  WaitInv'
<1>. DEFINE s == app[a].slot
            n == app[a].n
<1>0. /\ app \in [Apps -> Thread] /\ app[a] \in Thread /\ s \in Slots /\ asks' = asks
      /\ wifiCmdWaitRspBuf \in [Slots -> Entry] /\ Fills(a) /\ n \in 1 .. Len(asks)
      /\ n # 0 /\ n \in 0 .. Len(asks)
  BY DEF TypeOK, WaitTypes, Thread, StoreKey, StoreUser, StoreValid, Fills, Filling, PlaceInv, Knows
<1>1. CASE StoreKey(a)
  <2>1. wifiCmdWaitRspBuf' = [wifiCmdWaitRspBuf EXCEPT ![s].key = asks[n], ![s].alone = app[a].alone]
    BY <1>1 DEF StoreKey
  <2>2. /\ app'[a].at = "user" /\ app'[a].n = n /\ app'[a].slot = s
        /\ app'[a].alone = app[a].alone /\ \A b \in Apps \ {a} : app'[b] = app[b]
    <3>1. app'[a] = [app[a] EXCEPT !.at = "user"] /\ \A b \in Apps \ {a} : app'[b] = app[b]
      BY <1>0, <1>1, GotoTypes DEF StoreKey, Filling
    <3>. QED BY <1>0, <3>1 DEF Thread
  <2>3. /\ \A i \in Slots \ {s} : wifiCmdWaitRspBuf'[i] = wifiCmdWaitRspBuf[i]
        /\ wifiCmdWaitRspBuf'[s].valid = wifiCmdWaitRspBuf[s].valid
        /\ wifiCmdWaitRspBuf'[s].ask = wifiCmdWaitRspBuf[s].ask
        /\ wifiCmdWaitRspBuf'[s].key = asks[n]
        /\ wifiCmdWaitRspBuf'[s].alone = app[a].alone
    BY <1>0, <2>1 DEF Entry
  <2>4. app[a].alone = 1 => wifiCmdWaitRspBuf[s].valid = 0
    BY <1>0 DEF WaitInv, FillInv
  <2>5. FillInv(a)'
    <3>. SUFFICES ASSUME app[a].alone = 1
                  PROVE  /\ wifiCmdWaitRspBuf'[s].valid = 0
                         /\ \A j \in Slots : wifiCmdWaitRspBuf'[j].valid = 1 =>
                                               wifiCmdWaitRspBuf'[j].key # asks[n]
      BY <1>0, <2>2, <2>3 DEF FillInv
    <3>1. \A j \in Slots : wifiCmdWaitRspBuf[j].valid = 1 => wifiCmdWaitRspBuf[j].key # asks[n]
      BY <1>0 DEF WaitInv, FillInv
    <3>. QED BY <2>3, <2>4, <3>1
  <2>6. wifiCmdWaitRspBuf'[s].ask \in 0 .. Len(asks)
    BY <1>0, <2>3 DEF WaitInv, AskNumbers
  <2>. HIDE DEF s
  <2>. QED BY <1>0, <2>2, <2>3, <2>4, <2>5, <2>6, WaitStore DEF s
<1>2. CASE StoreUser(a)
  <2>1. wifiCmdWaitRspBuf' = [wifiCmdWaitRspBuf EXCEPT ![s].ask = n]
    BY <1>2 DEF StoreUser
  <2>2. /\ app'[a].at = "valid" /\ app'[a].n = n /\ app'[a].slot = s
        /\ app'[a].alone = app[a].alone /\ \A b \in Apps \ {a} : app'[b] = app[b]
    <3>1. app'[a] = [app[a] EXCEPT !.at = "valid"] /\ \A b \in Apps \ {a} : app'[b] = app[b]
      BY <1>0, <1>2, GotoTypes DEF StoreUser, Filling
    <3>. QED BY <1>0, <3>1 DEF Thread
  <2>3. /\ \A i \in Slots \ {s} : wifiCmdWaitRspBuf'[i] = wifiCmdWaitRspBuf[i]
        /\ wifiCmdWaitRspBuf'[s].valid = wifiCmdWaitRspBuf[s].valid
        /\ wifiCmdWaitRspBuf'[s].ask = n
        /\ wifiCmdWaitRspBuf'[s].key = wifiCmdWaitRspBuf[s].key
        /\ wifiCmdWaitRspBuf'[s].alone = wifiCmdWaitRspBuf[s].alone
    BY <1>0, <2>1 DEF Entry
  <2>4. /\ app[a].alone = 1 => wifiCmdWaitRspBuf[s].valid = 0
        /\ wifiCmdWaitRspBuf[s].valid = 1 => wifiCmdWaitRspBuf[s].alone = 0
        /\ app[a].alone \in {0, 1} /\ wifiCmdWaitRspBuf[s].valid \in {0, 1}
    BY <1>0 DEF WaitInv, FillInv, FilledMarked, Thread, Entry
  <2>5. FillInv(a)'
    <3>. SUFFICES ASSUME app[a].alone = 1
                  PROVE  /\ wifiCmdWaitRspBuf'[s].valid = 0
                         /\ \A j \in Slots : wifiCmdWaitRspBuf'[j].valid = 1 =>
                                               wifiCmdWaitRspBuf'[j].key # asks[n]
                         /\ wifiCmdWaitRspBuf'[s].key = asks[n]
      BY <1>0, <2>2, <2>3 DEF FillInv
    <3>1. /\ \A j \in Slots : wifiCmdWaitRspBuf[j].valid = 1 => wifiCmdWaitRspBuf[j].key # asks[n]
          /\ wifiCmdWaitRspBuf[s].key = asks[n]
      BY <1>0, <1>2 DEF WaitInv, FillInv, StoreUser
    <3>. QED BY <2>3, <2>4, <3>1
  <2>. QED BY <1>0, <2>2, <2>3, <2>4, <2>5, WaitStore
<1>3. CASE StoreValid(a)
  <2>1. wifiCmdWaitRspBuf' = [wifiCmdWaitRspBuf EXCEPT ![s].valid = 1, ![s].alone = app[a].alone]
    BY <1>3 DEF StoreValid
  <2>2. ~ Fills(a)' /\ \A b \in Apps \ {a} : app'[b] = app[b]
    BY <1>0, <1>3 DEF StoreValid, Idle, Place, Fills, Filling
  <2>3. /\ \A i \in Slots \ {s} : wifiCmdWaitRspBuf'[i] = wifiCmdWaitRspBuf[i]
        /\ wifiCmdWaitRspBuf'[s].valid = 1
        /\ wifiCmdWaitRspBuf'[s].ask = wifiCmdWaitRspBuf[s].ask
        /\ wifiCmdWaitRspBuf'[s].key = wifiCmdWaitRspBuf[s].key
        /\ wifiCmdWaitRspBuf'[s].alone = app[a].alone
    BY <1>0, <2>1 DEF Entry
  <2>4. app[a].alone = 1 => wifiCmdWaitRspBuf[s].key = asks[n] /\ wifiCmdWaitRspBuf[s].ask = n
    BY <1>0, <1>3 DEF WaitInv, FillInv, StoreValid
  <2>5. FillInv(a)' /\ wifiCmdWaitRspBuf'[s].ask \in 0 .. Len(asks)
    BY <1>0, <2>2, <2>3 DEF WaitInv, FillInv, AskNumbers
  <2>. QED BY <1>0, <2>2, <2>3, <2>4, <2>5, WaitStore
<1>. QED BY <1>1, <1>2, <1>3

\* The threads that fill are not in the parts of the code that start a warning.
LEMMA WaitFrame ==
  ASSUME TypeOK, PlaceInv, [Next]_vars,
         ~ \E a \in Apps : SearchFree(a) \/ StoreKey(a) \/ StoreUser(a) \/ StoreValid(a)
  PROVE  /\ \A n \in 1 .. Len(asks) : asks'[n] = asks[n]
         /\ Len(asks) <= Len(asks')
         /\ \A b \in Apps : Fills(b)' => app'[b] = app[b]
         /\ \/ wifiCmdWaitRspBuf' = wifiCmdWaitRspBuf
            \/ \E i \in Slots : wifiCmdWaitRspBuf' = [wifiCmdWaitRspBuf EXCEPT ![i].valid = 0]
<1>0. /\ app \in [Apps -> Thread] /\ asks \in Seq(Keys) /\ Len(asks) \in Nat
      /\ Idle.at \notin Filling /\ Filling \cap Starting = {}
  BY DEF TypeOK, WaitTypes, Idle, Place, Filling, Starting
<1>1. ASSUME NEW a \in Apps, Ask(a) \/ SearchAwaited(a) \/ SearchFull(a)
      PROVE  /\ \A n \in 1 .. Len(asks) : asks'[n] = asks[n]
             /\ Len(asks) <= Len(asks')
             /\ \A b \in Apps : Fills(b)' => app'[b] = app[b]
             /\ wifiCmdWaitRspBuf' = wifiCmdWaitRspBuf
  <2>1. CASE Ask(a)
    <3>1. PICK k \in Keys : asks' = Append(asks, k)
      BY <2>1 DEF Ask
    <3>2. Len(asks) <= Len(asks') /\ \A n \in 1 .. Len(asks) : asks'[n] = asks[n]
      BY <1>0, <3>1
    <3>3. \A b \in Apps : Fills(b)' => app'[b] = app[b]
      BY <1>0, <2>1 DEF Ask, Fills, Filling, Place
    <3>. QED BY <2>1, <3>2, <3>3 DEF Ask
  <2>2. CASE SearchAwaited(a) \/ SearchFull(a)
    BY <1>0, <2>2 DEF SearchAwaited, SearchFull, waiting, Fills
  <2>. QED BY <1>1, <2>1, <2>2
<1>2. ASSUME NEW a \in Apps, Warning(a)
      PROVE  UNCHANGED waiting /\ \A b \in Apps : Fills(b)' => app'[b] = app[b]
  <2>1. CASE Warn(a)
    <3>1. PICK v, met : /\ Meet(a, v, met) /\ v \in Thread /\ v.at \notin Filling
                        /\ \A b \in met : app[b].at \in Starting
      BY <2>1, WarnMeets DEF Filling, Others
    <3>2. \A b \in Apps \ {a} : b \notin met => app'[b] = app[b]
      BY <3>1 DEF Meet
    <3>3. app'[a].at = v.at /\ \A b \in Apps \ {a} : app'[b].at = app[b].at
      BY <1>0, <3>1, MeetTypes
    <3>. QED BY <1>0, <2>1, <3>1, <3>2, <3>3 DEF Warn, Fills
  <2>2. CASE StopOld(a) \/ SetTimes(a) \/ SetAddr(a)
    <3>1. PICK p \in {"times", "addr", "start"} : Goto(a, p)
      BY <2>2 DEF StopOld, SetTimes, SetAddr
    <3>2. app'[a] = [app[a] EXCEPT !.at = p] /\ \A b \in Apps \ {a} : app'[b] = app[b]
      BY <1>0, <3>1, GotoTypes DEF Starting
    <3>3. app'[a].at = p
      BY <1>0, <3>2 DEF Thread
    <3>. QED BY <2>2, <3>2, <3>3 DEF StopOld, SetTimes, SetAddr, Fills, Filling
  <2>3. CASE StopOnly(a) \/ StartTimer(a)
    BY <1>0, <2>3 DEF StopOnly, StartTimer, Fills
  <2>. QED BY <1>2, <2>1, <2>2, <2>3 DEF Warning
<1>3. CASE RxAnswer \/ Expire
  <2>1. UNCHANGED <<asks, app>>
    BY <1>3 DEF RxAnswer, Expire
  <2>. QED BY <1>0, <1>3, <2>1, EntryFreed
<1>4. CASE Callback
  <2>1. CASE TimerEnds
    <3>1. PICK met : /\ met = {a \in Apps : app[a].at \in Starting}
                     /\ app' = [a \in Apps |-> IF a \in met THEN [app[a] EXCEPT !.alone = 0]
                                               ELSE app[a]]
      BY <2>1 DEF TimerEnds
    <3>2. \A b \in Apps : b \notin met => app'[b] = app[b]
      BY <3>1
    <3>3. \A b \in Apps : b \in met => app'[b].at = app[b].at
      BY <1>0, <3>1 DEF Thread
    <3>. QED BY <1>0, <2>1, <3>1, <3>2, <3>3 DEF TimerEnds, waiting, Fills
  <2>2. CASE CallbackClears \/ CallbackReports
    BY <1>0, <2>2 DEF CallbackClears, CallbackReports, waiting
  <2>. QED BY <1>4, <2>1, <2>2 DEF Callback
<1>5. CASE UNCHANGED vars
  BY <1>0, <1>5 DEF vars
<1>. QED BY <1>0, <1>1, <1>2, <1>3, <1>4, <1>5 DEF Next, Waiting, waiting

LEMMA WaitStep ==
  ASSUME TypeOK, TypeOK', PlaceInv, WaitInv, [Next]_vars
  PROVE  WaitInv'
<1>1. CASE \E a \in Apps : SearchFree(a) \/ StoreKey(a) \/ StoreUser(a) \/ StoreValid(a)
  BY <1>1, WaitSearchFree, WaitStores
<1>2. CASE ~ \E a \in Apps : SearchFree(a) \/ StoreKey(a) \/ StoreUser(a) \/ StoreValid(a)
  <2>1. \A i \in Slots :
          /\ wifiCmdWaitRspBuf'[i].key = wifiCmdWaitRspBuf[i].key
          /\ wifiCmdWaitRspBuf'[i].ask = wifiCmdWaitRspBuf[i].ask
          /\ wifiCmdWaitRspBuf'[i].alone = wifiCmdWaitRspBuf[i].alone
          /\ wifiCmdWaitRspBuf'[i].valid \in {wifiCmdWaitRspBuf[i].valid, 0}
    BY <1>2, WaitFrame DEF TypeOK, WaitTypes, Entry
  <2>. QED BY <1>2, <2>1, WaitFrame, WaitQuiet
<1>. QED BY <1>1, <1>2

LEMMA KeptStep ==
  ASSUME TypeOK, PlaceInv, WaitInv, [Next]_vars, NEW i \in Slots,
         wifiCmdWaitRspBuf[i].valid = 1, wifiCmdWaitRspBuf[i].alone = 1
  PROVE  wifiCmdWaitRspBuf'[i] \in
           {wifiCmdWaitRspBuf[i], [wifiCmdWaitRspBuf[i] EXCEPT !.valid = 0]}
<1>1. ASSUME NEW a \in Apps, StoreKey(a) \/ StoreUser(a) \/ StoreValid(a)
      PROVE  wifiCmdWaitRspBuf'[i] = wifiCmdWaitRspBuf[i]
  <2>1. app[a].slot # i
    BY <1>1 DEF StoreKey, StoreUser, StoreValid, WaitInv, FilledMarked, Fills, Filling
  <2>2. \/ wifiCmdWaitRspBuf' = [wifiCmdWaitRspBuf EXCEPT ![app[a].slot].key = asks[app[a].n],
                                                          ![app[a].slot].alone = app[a].alone]
        \/ wifiCmdWaitRspBuf' = [wifiCmdWaitRspBuf EXCEPT ![app[a].slot].ask = app[a].n]
        \/ wifiCmdWaitRspBuf' = [wifiCmdWaitRspBuf EXCEPT ![app[a].slot].valid = 1,
                                                          ![app[a].slot].alone = app[a].alone]
    BY <1>1 DEF StoreKey, StoreUser, StoreValid
  <2>. QED BY <2>1, <2>2 DEF TypeOK, WaitTypes
<1>2. ASSUME NEW a \in Apps, SearchFree(a)
      PROVE  wifiCmdWaitRspBuf'[i] = wifiCmdWaitRspBuf[i]
  BY <1>2 DEF SearchFree, waiting
<1>3. CASE ~ \E a \in Apps : SearchFree(a) \/ StoreKey(a) \/ StoreUser(a) \/ StoreValid(a)
  BY <1>3, WaitFrame DEF TypeOK, WaitTypes
<1>. QED BY <1>1, <1>2, <1>3

\* The outcome of a command goes to a user who asked for it, from the only entry that
\* waits for it, unless two threads filled entries at once.
THEOREM WaitSafe == Spec => [](UserAskedForKey /\ OneEntryPerKey)
<1>1. TypeOK /\ TypeOK' /\ PlaceInv /\ WaitInv /\ [Next]_vars => WaitInv'
  BY WaitStep
<1>2. WaitInv => UserAskedForKey /\ OneEntryPerKey
  BY DEF WaitInv
<1>. QED BY <1>1, <1>2, WaitInit, AppCommandsTypes, PTL DEF Spec

\* Under the same condition an entry stays until it is answered or given up.
THEOREM EntriesKept == Spec => KeptUntilDone
<1>1. TypeOK /\ TypeOK' /\ PlaceInv /\ WaitInv /\ [Next]_vars => WaitInv'
  BY WaitStep
<1>2. TypeOK /\ PlaceInv /\ WaitInv /\ [Next]_vars =>
        [\A i \in Slots :
           LET e == wifiCmdWaitRspBuf[i] IN
           e.valid = 1 /\ e.alone = 1 => wifiCmdWaitRspBuf'[i] \in {e, [e EXCEPT !.valid = 0]}]_vars
  BY KeptStep
<1>. QED BY <1>1, <1>2, WaitInit, AppCommandsTypes, PTL DEF Spec, KeptUntilDone

-----------------------------------------------------------------------------
(* Warnings *)

Starts(a) == app[a].at \in Starting

\* What a start that met nobody has stored stands.
StartInv(a) ==
  Starts(a) /\ app[a].alone = 1 =>
    /\ app[a].at \in {"addr", "start"} => wd.setWDTimes = StoredTimes(app[a].duration)
    /\ app[a].at = "start" => wd.WDShortAddr = app[a].to

StartsMeet == \A a, b \in Apps : a # b /\ Starts(a) /\ Starts(b) => app[a].alone = 0

CallbackMeets == InCallback => \A a \in Apps : Starts(a) => app[a].alone = 0 /\ callback.alone = 0

\* Once a start has stopped the timer of the handle, no timer runs that started alone.
OldStopped ==
  \A a \in Apps : app[a].at \in {"times", "addr", "start"} => \A t \in timers : t.alone = 0

TimerHeld == \A t \in timers : t.alone = 1 => t.id = wd.timer /\ wd.WDShortAddr = t.to

CallbackHeld == InCallback /\ callback.alone = 1 => wd.WDShortAddr = callback.to

WarnInv ==
  /\ StartsMeet /\ CallbackMeets /\ OldStopped /\ (\A a \in Apps : StartInv(a))
  /\ TimerHeld /\ CallbackHeld /\ OneTimer /\ TimerAsAsked

LEMMA WarnInit == Init => WarnInv
BY DEF Init, WarnInv, StartsMeet, CallbackMeets, OldStopped, StartInv, TimerHeld, CallbackHeld,
       OneTimer, TimerAsAsked, Starts, Starting, InCallback, NoCallback, Idle, Place

\* Steps that neither start a warning nor are the callback's.
LEMMA WarnQuiet ==
  ASSUME WarnInv, timers' \subseteq timers, wd' = wd, callback' = callback,
         \A b \in Apps : Starts(b)' => app'[b] = app[b]
  PROVE  WarnInv'
<1>1. \A b \in Apps : Starts(b)' => Starts(b) /\ app'[b] = app[b]
  BY DEF Starts
<1>2. StartsMeet' /\ CallbackMeets' /\ \A b \in Apps : StartInv(b)'
  BY <1>1 DEF WarnInv, StartsMeet, CallbackMeets, StartInv, InCallback
<1>3. OldStopped'
  BY <1>1 DEF WarnInv, OldStopped, Starts, Starting
<1>. QED BY <1>2, <1>3 DEF WarnInv, TimerHeld, CallbackHeld, OneTimer, TimerAsAsked, InCallback

\* The threads that start a warning fill no entry.
LEMMA WarnFrame ==
  ASSUME TypeOK, PlaceInv, [Next]_vars,
         ~ Callback, ~ \E a \in Apps : Warn(a) \/ StopOld(a) \/ SetTimes(a) \/ SetAddr(a) \/ StartTimer(a)
  PROVE  /\ timers' \subseteq timers /\ wd' = wd /\ callback' = callback
         /\ \A b \in Apps : Starts(b)' => app'[b] = app[b]
<1>0. /\ app \in [Apps -> Thread] /\ Idle.at \notin Starting /\ Filling \cap Starting = {}
  BY DEF TypeOK, Idle, Place, Filling, Starting
<1>1. ASSUME NEW a \in Apps, Waiting(a)
      PROVE  UNCHANGED warning /\ \A b \in Apps : Starts(b)' => app'[b] = app[b]
  <2>1. CASE Ask(a)
    BY <1>0, <2>1 DEF Ask, Place, Starts, Starting
  <2>2. CASE SearchAwaited(a) \/ SearchFull(a) \/ StoreValid(a)
    BY <1>0, <2>2 DEF SearchAwaited, SearchFull, StoreValid, Starts
  <2>3. CASE SearchFree(a)
    <3>. DEFINE v == [app[a] EXCEPT !.at = "key", !.slot = FirstSlot(Free)]
                met == Others(a, Filling)
    <3>1. FirstSlot(Free) \in Slots
      BY <2>3, FirstSlotFound DEF SearchFree, Free
    <3>2. v \in Thread /\ v.at = "key"
      BY <1>0, <3>1 DEF Thread, Filling
    <3>3. Meet(a, v, met) /\ UNCHANGED warning
      BY <2>3 DEF SearchFree
    <3>4. \A b \in Apps : b \in met => app[b].at \in Filling
      BY DEF Others
    <3>. HIDE DEF v, met
    <3>5. \A b \in Apps \ {a} : b \notin met => app'[b] = app[b]
      BY <3>3 DEF Meet
    <3>6. app'[a].at = "key" /\ \A b \in Apps \ {a} : app'[b].at = app[b].at
      BY <1>0, <3>2, <3>3, MeetTypes
    <3>7. "key" \notin Starting
      BY DEF Starting
    <3>. QED BY <1>0, <3>3, <3>4, <3>5, <3>6, <3>7 DEF Starts
  <2>4. CASE StoreKey(a) \/ StoreUser(a)
    <3>1. PICK p \in {"user", "valid"} : Goto(a, p)
      BY <2>4 DEF StoreKey, StoreUser
    <3>2. app'[a] = [app[a] EXCEPT !.at = p] /\ \A b \in Apps \ {a} : app'[b] = app[b]
      BY <1>0, <3>1, GotoTypes DEF Filling
    <3>3. app'[a].at = p
      BY <1>0, <3>2 DEF Thread
    <3>. QED BY <2>4, <3>2, <3>3 DEF StoreKey, StoreUser, Starts, Starting
  <2>. QED BY <1>1, <2>1, <2>2, <2>3, <2>4 DEF Waiting
<1>2. ASSUME NEW a \in Apps, StopOnly(a)
      PROVE  /\ timers' \subseteq timers /\ wd' = wd /\ callback' = callback
             /\ \A b \in Apps : Starts(b)' => app'[b] = app[b]
  BY <1>0, <1>2 DEF StopOnly, StopTimer, Starts
<1>3. CASE RxAnswer \/ Expire \/ UNCHANGED vars
  BY <1>0, <1>3 DEF RxAnswer, Expire, warning, vars
<1>. QED BY <1>1, <1>2, <1>3 DEF Next, Warning, warning

LEMMA WarnWarn ==
  ASSUME TypeOK, TypeOK', PlaceInv, WarnInv, NEW a \in Apps, Warn(a)
  PROVE  WarnInv'
<1>0. app \in [Apps -> Thread] /\ timers' = timers /\ wd' = wd
      /\ callback'.at = callback.at /\ callback'.to = callback.to
      /\ callback'.alone = IF InCallback THEN 0 ELSE callback.alone
  BY DEF Warn, TypeOK, WarnTypes
<1>1. PICK v, met :
        /\ Meet(a, v, met) /\ v \in Thread /\ v.at \in {"stop", "off"}
        /\ v.at = "stop" => /\ v.alone = IF InCallback THEN 0 ELSE 1
                            /\ met = Others(a, Starting)
        /\ v.at = "off" => met = {}
  BY WarnMeets
<1>2. /\ app'[a].at = v.at /\ app'[a].alone = IF met = {} THEN v.alone ELSE 0
      /\ \A b \in Apps \ {a} :
           /\ app'[b].at = app[b].at /\ app'[b].to = app[b].to
           /\ app'[b].duration = app[b].duration
           /\ app'[b].alone = IF b \in met THEN 0 ELSE app[b].alone
  BY <1>0, <1>1, MeetTypes
<1>3. \A b \in Apps \ {a} : Starts(b)' => Starts(b)
  BY <1>2 DEF Starts
<1>4. Starts(a)' => /\ v.at = "stop" /\ \A b \in Apps \ {a} : Starts(b) => b \in met
  BY <1>1, <1>2 DEF Starts, Starting, Others
<1>5. StartsMeet'
  BY <1>2, <1>3, <1>4 DEF WarnInv, StartsMeet
<1>6. CallbackMeets'
  <2>. SUFFICES ASSUME InCallback', NEW b \in Apps, Starts(b)'
                PROVE  app'[b].alone = 0 /\ callback'.alone = 0
    BY DEF CallbackMeets
  <2>1. InCallback
    BY <1>0 DEF InCallback
  <2>. QED BY <1>0, <1>1, <1>2, <1>3, <1>4, <2>1 DEF WarnInv, CallbackMeets
<1>7. OldStopped'
  BY <1>0, <1>1, <1>2 DEF WarnInv, OldStopped
<1>8. ASSUME NEW b \in Apps PROVE StartInv(b)'
  <2>1. CASE b = a
    BY <1>1, <1>2, <2>1 DEF StartInv
  <2>2. CASE b # a
    <3>1. Starts(b)' /\ app'[b].alone = 1 => Starts(b) /\ app[b].alone = 1
      BY <1>2, <1>3, <2>2
    <3>. QED BY <1>0, <1>2, <2>2, <3>1 DEF WarnInv, StartInv
  <2>. QED BY <2>1, <2>2
<1>9. CallbackHeld'
  BY <1>0 DEF WarnInv, CallbackHeld, InCallback
<1>. QED BY <1>0, <1>5, <1>6, <1>7, <1>8, <1>9 DEF WarnInv, TimerHeld, OneTimer, TimerAsAsked

\* A step of a thread that starts a warning: the others that do so are not alone.
LEMMA WarnGoes ==
  ASSUME TypeOK, TypeOK', PlaceInv, WarnInv, NEW a \in Apps, Starts(a),
         NEW p \in {"times", "addr", "start"}, Goto(a, p), callback' = callback
  PROVE  /\ StartsMeet' /\ CallbackMeets'
         /\ app'[a].at = p /\ app'[a].to = app[a].to /\ app'[a].duration = app[a].duration
         /\ app'[a].alone = app[a].alone
         /\ \A b \in Apps \ {a} : app'[b] = app[b] /\ (Starts(b) => app[b].alone = 0)
         /\ \A b \in Apps \ {a} : StartInv(b)'
<1>1. app'[a] = [app[a] EXCEPT !.at = p] /\ \A b \in Apps \ {a} : app'[b] = app[b]
  BY GotoTypes DEF TypeOK, Starting
<1>2. /\ app'[a].at = p /\ app'[a].to = app[a].to /\ app'[a].duration = app[a].duration
      /\ app'[a].alone = app[a].alone
  BY <1>1 DEF TypeOK, Thread
<1>3. \A b \in Apps \ {a} : Starts(b) => app[b].alone = 0
  BY DEF WarnInv, StartsMeet
<1>4. StartsMeet' /\ CallbackMeets'
  BY <1>1, <1>2, <1>3 DEF WarnInv, StartsMeet, CallbackMeets, Starts, InCallback
<1>5. ASSUME NEW b \in Apps \ {a} PROVE StartInv(b)'
  BY <1>1, <1>3 DEF StartInv, Starts
<1>. QED BY <1>1, <1>2, <1>3, <1>4, <1>5

LEMMA WarnStopOld ==
  ASSUME TypeOK, TypeOK', PlaceInv, WarnInv, NEW a \in Apps, StopOld(a)
  PROVE  WarnInv'
<1>0. Starts(a) /\ Goto(a, "times") /\ callback' = callback /\ wd' = wd
      /\ timers' = {t \in timers : t.id # wd.timer}
  BY DEF StopOld, StopTimer, Starts, Starting
<1>1. \A t \in timers' : t.alone = 0 /\ t \in timers
  BY <1>0 DEF WarnInv, TimerHeld, TypeOK, WarnTypes
<1>2. StartsMeet' /\ CallbackMeets' /\ app'[a].at = "times" /\ \A b \in Apps \ {a} : StartInv(b)'
  BY <1>0, WarnGoes
<1>3. StartInv(a)' /\ OldStopped'
  BY <1>1, <1>2 DEF StartInv, OldStopped
<1>. QED BY <1>0, <1>1, <1>2, <1>3
         DEF WarnInv, TimerHeld, CallbackHeld, InCallback, OneTimer, TimerAsAsked

LEMMA WarnSets ==
  ASSUME TypeOK, TypeOK', PlaceInv, WarnInv, NEW a \in Apps, SetTimes(a) \/ SetAddr(a)
  PROVE  WarnInv'
<1>0. /\ Starts(a) /\ callback' = callback /\ timers' = timers
      /\ app[a].at \in {"times", "addr"} /\ wd'.timer = wd.timer
  BY DEF SetTimes, SetAddr, Starts, Starting, TypeOK, WarnTypes
<1>1. PICK p \in {"addr", "start"} : Goto(a, p) /\ (SetTimes(a) => p = "addr")
  BY DEF SetTimes, SetAddr
<1>2. /\ StartsMeet' /\ CallbackMeets'
      /\ app'[a].at = p /\ app'[a].to = app[a].to /\ app'[a].duration = app[a].duration
      /\ app'[a].alone = app[a].alone
      /\ \A b \in Apps \ {a} : app'[b] = app[b] /\ StartInv(b)'
  BY <1>0, <1>1, WarnGoes
<1>3. \A t \in timers : t.alone = 0
  BY <1>0 DEF WarnInv, OldStopped
<1>4. OldStopped' /\ OneTimer' /\ TimerAsAsked' /\ TimerHeld'
  BY <1>0, <1>3 DEF OldStopped, OneTimer, TimerAsAsked, TimerHeld
<1>5. StartInv(a)'
  <2>1. CASE SetTimes(a)
    <3>1. wd'.setWDTimes = StoredTimes(app[a].duration) /\ p = "addr"
      BY <1>1, <2>1 DEF SetTimes, TypeOK, WarnTypes
    <3>. QED BY <1>2, <3>1 DEF StartInv
  <2>2. CASE SetAddr(a)
    <3>1. wd'.setWDTimes = wd.setWDTimes /\ wd'.WDShortAddr = app[a].to /\ app[a].at = "addr"
      BY <2>2 DEF SetAddr, TypeOK, WarnTypes
    <3>2. Starts(a) /\ app[a].alone = 1 => wd.setWDTimes = StoredTimes(app[a].duration)
      BY <3>1 DEF WarnInv, StartInv
    <3>. QED BY <1>0, <1>2, <3>1, <3>2 DEF StartInv
  <2>. QED BY <2>1, <2>2
<1>6. CallbackHeld'
  <2>1. InCallback => callback.alone = 0
    BY <1>0 DEF WarnInv, CallbackMeets
  <2>. QED BY <1>0, <2>1 DEF CallbackHeld, InCallback
<1>. QED BY <1>2, <1>4, <1>5, <1>6 DEF WarnInv

LEMMA WarnStartTimer ==
  ASSUME TypeOK, TypeOK', PlaceInv, WarnInv, NEW a \in Apps, StartTimer(a)
  PROVE  WarnInv'
<1>. DEFINE u == [id |-> app[a].n, length |-> wd.setWDTimes, to |-> app[a].to,
                  asked |-> app[a].duration, alone |-> app[a].alone]
<1>0. /\ Starts(a) /\ callback' = callback /\ app[a].at = "start" /\ timers' = timers \cup {u}
      /\ wd'.timer = app[a].n /\ wd'.setWDTimes = wd.setWDTimes
      /\ wd'.WDShortAddr = wd.WDShortAddr
      /\ ~ Starts(a)' /\ app'[a].at = "idle" /\ \A b \in Apps \ {a} : app'[b] = app[b]
  BY DEF StartTimer, Starts, Starting, TypeOK, WarnTypes, Idle, Place
<1>1. u.id = app[a].n /\ u.length = wd.setWDTimes /\ u.to = app[a].to
      /\ u.asked = app[a].duration /\ u.alone = app[a].alone
  OBVIOUS
<1>. HIDE DEF u
<1>2. \A t \in timers : t.alone = 0
  BY <1>0 DEF WarnInv, OldStopped
<1>3. StartsMeet' /\ CallbackMeets'
  BY <1>0 DEF WarnInv, StartsMeet, CallbackMeets, Starts, InCallback
<1>4. OldStopped'
  <2>. SUFFICES ASSUME NEW b \in Apps, app'[b].at \in {"times", "addr", "start"}
                PROVE  u.alone = 0
    BY <1>0, <1>2 DEF OldStopped
  <2>1. b # a /\ Starts(b)
    BY <1>0 DEF Starts, Starting
  <2>. QED BY <1>0, <1>1, <2>1 DEF WarnInv, StartsMeet
<1>5. ASSUME NEW b \in Apps PROVE StartInv(b)'
  <2>1. CASE b = a
    BY <1>0, <2>1 DEF StartInv
  <2>2. CASE b # a
    BY <1>0, <2>2 DEF WarnInv, StartInv, Starts
  <2>. QED BY <2>1, <2>2
<1>6. TimerHeld' /\ OneTimer'
  <2>1. app[a].alone = 1 => wd.WDShortAddr = app[a].to
    BY <1>0 DEF WarnInv, StartInv
  <2>. QED BY <1>0, <1>1, <1>2, <2>1 DEF TimerHeld, OneTimer
<1>7. TimerAsAsked'
  <2>. SUFFICES ASSUME u.alone = 1, u.asked < TimesMod PROVE u.length = u.asked
    BY <1>0, <1>2 DEF TimerAsAsked
  <2>1. wd.setWDTimes = app[a].duration % TimesMod
    BY <1>0, <1>1 DEF WarnInv, StartInv, StoredTimes
  <2>2. app[a].duration \in Nat /\ TimesMod \in Nat \ {0}
    BY <1>0, SizesAssumption DEF PlaceInv, Knows, Starts
  <2>3. app[a].duration \in 0 .. TimesMod - 1
    BY <1>1, <2>2
  <2>4. app[a].duration % TimesMod = app[a].duration
    BY <2>2, <2>3, ModSmall
  <2>. QED BY <1>1, <2>1, <2>4
<1>8. CallbackHeld'
  BY <1>0 DEF WarnInv, CallbackHeld, InCallback
<1>. QED BY <1>3, <1>4, <1>5, <1>6, <1>7, <1>8 DEF WarnInv

LEMMA WarnCallback ==
  ASSUME TypeOK, TypeOK', PlaceInv, WarnInv, Callback
  PROVE  WarnInv'
<1>1. CASE TimerEnds
  <2>. DEFINE met == {a \in Apps : app[a].at \in Starting}
  <2>1. PICK t \in timers :
          /\ timers' = timers \ {t}
          /\ callback' = [at |-> "clear", to |-> t.to, alone |-> IF met = {} THEN t.alone ELSE 0]
          /\ app' = [a \in Apps |-> IF a \in met THEN [app[a] EXCEPT !.alone = 0] ELSE app[a]]
    BY <1>1 DEF TimerEnds
  <2>2. wd' = wd
    BY <1>1 DEF TimerEnds
  <2>3. \A b \in Apps : /\ app'[b].at = app[b].at
                        /\ b \in met => app'[b].alone = 0
    BY <2>1 DEF TypeOK, Thread
  <2>4. \A b \in Apps : Starts(b)' => b \in met /\ Starts(b)
    BY <2>3 DEF Starts
  <2>5. callback'.to = t.to /\ callback'.alone = IF met = {} THEN t.alone ELSE 0
    BY <2>1
  <2>. HIDE DEF met
  <2>6. StartsMeet' /\ CallbackMeets'
    BY <2>3, <2>4, <2>5 DEF StartsMeet, CallbackMeets
  <2>7. \A b \in Apps : StartInv(b)'
    BY <2>3, <2>4 DEF StartInv
  <2>8. OldStopped'
    BY <2>1, <2>3 DEF WarnInv, OldStopped
  <2>9. CallbackHeld'
    BY <2>2, <2>5 DEF WarnInv, TimerHeld, CallbackHeld
  <2>. QED BY <2>1, <2>2, <2>6, <2>7, <2>8, <2>9 DEF WarnInv, TimerHeld, OneTimer, TimerAsAsked
<1>2. CASE CallbackClears
  <2>1. /\ app' = app /\ timers' = timers /\ InCallback
        /\ wd'.timer = wd.timer /\ wd'.WDShortAddr = wd.WDShortAddr
        /\ callback'.to = callback.to /\ callback'.alone = callback.alone
    BY <1>2 DEF CallbackClears, InCallback, TypeOK, WarnTypes
  <2>2. \A b \in Apps : Starts(b) => app[b].alone = 0 /\ callback.alone = 0
    BY <2>1 DEF WarnInv, CallbackMeets
  <2>3. \A b \in Apps : StartInv(b)'
    BY <2>1, <2>2 DEF StartInv, Starts
  <2>4. StartsMeet' /\ CallbackMeets' /\ OldStopped'
    BY <2>1, <2>2 DEF WarnInv, StartsMeet, CallbackMeets, OldStopped, Starts
  <2>5. CallbackHeld' /\ TimerHeld'
    BY <2>1 DEF WarnInv, CallbackHeld, TimerHeld
  <2>. QED BY <2>1, <2>3, <2>4, <2>5 DEF WarnInv, OneTimer, TimerAsAsked
<1>3. CASE CallbackReports
  <2>1. app' = app /\ timers' = timers /\ wd' = wd /\ callback'.at = "idle"
    BY <1>3 DEF CallbackReports, NoCallback
  <2>2. CallbackMeets' /\ CallbackHeld'
    BY <2>1 DEF CallbackMeets, CallbackHeld, InCallback
  <2>. QED BY <2>1, <2>2
           DEF WarnInv, StartsMeet, OldStopped, StartInv, Starts, TimerHeld, OneTimer, TimerAsAsked
<1>. QED BY <1>1, <1>2, <1>3 DEF Callback

LEMMA WarnStep ==
  ASSUME TypeOK, TypeOK', PlaceInv, WarnInv, [Next]_vars
  PROVE  WarnInv'
<1>1. ASSUME NEW a \in Apps, Warn(a) \/ StopOld(a) \/ SetTimes(a) \/ SetAddr(a) \/ StartTimer(a)
      PROVE  WarnInv'
  BY <1>1, WarnWarn, WarnStopOld, WarnSets, WarnStartTimer
<1>2. CASE Callback
  BY <1>2, WarnCallback
<1>3. CASE /\ ~ Callback
           /\ ~ \E a \in Apps : \/ Warn(a) \/ StopOld(a) \/ SetTimes(a) \/ SetAddr(a)
                                \/ StartTimer(a)
  BY <1>3, WarnFrame, WarnQuiet
<1>. QED BY <1>1, <1>2, <1>3

\* A warning that was started alone is timed as it was asked, by the only such timer, and
\* the end of its alarm is reported for its device.
THEOREM WarningsSafe == Spec => [](WarningTimed /\ ReportsWarned)
<1>1. TypeOK /\ TypeOK' /\ PlaceInv /\ WarnInv /\ [Next]_vars => WarnInv'
  BY WarnStep
<1>2. WarnInv => WarningTimed /\ ReportsWarned
  BY DEF WarnInv, WarningTimed, CallbackHeld, InCallback, ReportsWarned
<1>. QED BY <1>1, <1>2, WarnInit, AppCommandsTypes, PTL DEF Spec
=============================================================================
