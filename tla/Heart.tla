------------------------------- MODULE Heart -------------------------------
(***************************************************************************)
(* The heart beat between gateway and coordinator: userManageUartHeart,    *)
(* run by the sender thread about three times a second, against the        *)
(* receive thread, which stores the time of each frame in                  *)
(* lastCommuTime100ms and starts the count of beats again.  The threads    *)
(* share these two and take no lock; a step is one read or write of them.  *)
(*                                                                         *)
(* Times are in tenths of a second, as in the code.  userManageUartHeart   *)
(* and userSetUartHeartTime keep 20 bits of the seconds, the receive loop  *)
(* all of them, cut to the 32 bits of the variable.                        *)
(***************************************************************************)
EXTENDS Integers

CONSTANTS
  MaskMod,        \* values of `t & 0x000fffff` (2^20)
  WordMod,        \* values of a uint32_t (2^32)
  Cycle,          \* bound: time(NULL) counts modulo Cycle
  HeartInterval,  \* 600: a minute without a frame
  AnswerTime,     \* 50: five seconds for the answer to a beat
  QuietCap        \* bound on the seconds of silence told apart

ASSUME ClockAssumption ==
  /\ MaskMod \in Nat \ {0} /\ WordMod \in Nat \ {0} /\ Cycle \in Nat \ {0}
  /\ MaskMod * 10 <= WordMod
  /\ Cycle % MaskMod = 0 /\ (Cycle * 10) % WordMod = 0
  /\ HeartInterval \in Nat \ {0} /\ AnswerTime \in Nat \ {0} /\ QuietCap \in Nat
  /\ AnswerTime <= HeartInterval /\ QuietCap * 10 >= HeartInterval + 2 * AnswerTime

VARIABLES
  clock,               \* time(NULL)
  lastCommuTime100ms,
  uartHeartSendCount,
  pc,                  \* where userManageUartHeart stands, "out": not entered
  now,                 \* its local tempTimeMs
  loaded,              \* what `uartHeartSendCount++` has read
  rxPc,                \* where the receive thread stands in a frame
  upgrading,           \* devOtaUpdateingFlag
  passed,              \* 1: a call has ended in the current second
  quiet,               \* history: seconds since the last valid frame
  beats,               \* history: beats since the count was last set to 0
  clash,               \* history: 1 after a frame and a call that overlapped
  early                \* history: damaged frames since the last valid one that were
                       \* stored behind the masked clock, counted up to three

heart == <<lastCommuTime100ms, uartHeartSendCount>>
sender == <<pc, now, loaded>>
env == <<clock, upgrading, passed>>
history == <<quiet, beats, clash, early>>
vars == <<clock, lastCommuTime100ms, uartHeartSendCount, pc, now, loaded, rxPc,
          upgrading, passed, quiet, beats, clash, early>>

\* Mutant: the two halves of the program on one clock.
MaskedUncut == clock * 10
\* The two ways of storing the time.
Masked == (clock % MaskMod) * 10
Full == (clock * 10) % WordMod

Init ==
  /\ clock \in 0 .. Cycle - 1
  /\ lastCommuTime100ms = 0 /\ uartHeartSendCount = 0
  /\ pc = "out" /\ now = 0 /\ loaded = 0
  /\ rxPc = "wait"
  /\ upgrading = 0 /\ passed = 0
  /\ quiet = QuietCap /\ beats = 0 /\ clash = 0 /\ early = 0

-----------------------------------------------------------------------------
(* userManageUartHeart, in the sender thread *)

Goto(l) == pc' = l /\ UNCHANGED <<now, loaded>>

\* The end of a call.
Leave == Goto("out") /\ passed' = 1

\* tempTimeMs is computed; the sender thread calls only outside an upgrade.
Enter ==
  /\ pc = "out" /\ upgrading = 0
  /\ now' = Masked /\ pc' = "compare" /\ UNCHANGED loaded
  /\ clash' = IF rxPc = "wait" THEN clash ELSE 1
  /\ UNCHANGED <<heart, rxPc, env, quiet, beats, early>>

\* tempTimeMs > lastCommuTime100ms, the first read of the time.
Compare ==
  /\ pc = "compare"
  /\ Goto(IF now > lastCommuTime100ms THEN "count" ELSE "resync")
  /\ UNCHANGED <<heart, rxPc, env, history>>

\* Mutant: a clock that is behind is waited for.
ResyncLater ==
  /\ pc = "resync"
  /\ Leave
  /\ UNCHANGED <<heart, rxPc, clock, upgrading, history>>

\* The clock is behind: after a wrap, or after the receive loop stored all of it.
Resync ==
  /\ pc = "resync"
  /\ lastCommuTime100ms' = now
  /\ Leave
  /\ UNCHANGED <<uartHeartSendCount, rxPc, clock, upgrading, history>>

ReadCount ==
  /\ pc = "count"
  /\ Goto(IF uartHeartSendCount = 0 THEN "minute" ELSE "answer")
  /\ UNCHANGED <<heart, rxPc, env, history>>

\* tempTimeMs - lastCommuTime100ms in 32 bits, the second read of the time.
Elapsed == (now - lastCommuTime100ms) % WordMod

\* Mutant: the time of an answer for the first beat as well.
LimitOfAnswer == AnswerTime
\* A minute before the first beat, five seconds after one.
Limit == IF pc = "minute" THEN HeartInterval ELSE AnswerTime

\* Not yet time for a beat.
TooEarly ==
  /\ pc \in {"minute", "answer"} /\ Elapsed < Limit
  /\ Leave
  /\ UNCHANGED <<heart, rxPc, clock, upgrading, history>>

\* Mutant: one more beat before the coordinator is given up.
UnansweredThree == uartHeartSendCount >= 3
\* Two beats are without an answer.
Unanswered == uartHeartSendCount >= 2

\* Time for a beat, or to give the coordinator up.
TimeIsUp ==
  /\ pc \in {"minute", "answer"} /\ Elapsed >= Limit
  /\ Goto(CASE pc = "minute" -> "firstBeat"
            [] pc = "answer" /\ Unanswered -> "giveUp"
            [] OTHER -> "nextBeat")
  /\ UNCHANGED <<heart, rxPc, env, history>>

\* userFillUartCmdForHeart, which may find the transmit buffer full, and the
\* time of the beat.
Beat ==
  /\ pc \in {"firstBeat", "nextBeat"}
  /\ beats' = beats + 1
  /\ Goto("stamp")
  /\ UNCHANGED <<heart, rxPc, env, quiet, clash, early>>

Stamp ==
  /\ pc = "stamp"
  /\ lastCommuTime100ms' = now
  /\ Goto("load")
  /\ UNCHANGED <<uartHeartSendCount, rxPc, env, history>>

\* uartHeartSendCount++ is a read and a write.
LoadCount ==
  /\ pc = "load"
  /\ loaded' = uartHeartSendCount /\ pc' = "store" /\ UNCHANGED now
  /\ UNCHANGED <<heart, rxPc, env, history>>

\* Mutant: a flag in the place of the count.
StoreFlag ==
  /\ pc = "store"
  /\ uartHeartSendCount' = 1
  /\ Leave
  /\ UNCHANGED <<lastCommuTime100ms, rxPc, clock, upgrading, history>>

StoreCount ==
  /\ pc = "store"
  /\ uartHeartSendCount' = loaded + 1
  /\ Leave
  /\ UNCHANGED <<lastCommuTime100ms, rxPc, clock, upgrading, history>>

\* "the zc not respose the heart,reset it now": the time, then the count; the call
\* of zigbeeModeReset is commented out.
GiveUp ==
  /\ pc = "giveUp"
  /\ lastCommuTime100ms' = now
  /\ Goto("forget")
  /\ UNCHANGED <<uartHeartSendCount, rxPc, env, history>>

Forget ==
  /\ pc = "forget"
  /\ uartHeartSendCount' = 0
  /\ beats' = 0
  /\ Leave
  /\ UNCHANGED <<lastCommuTime100ms, rxPc, clock, upgrading, quiet, clash, early>>

Sender ==
  \/ Enter \/ Compare \/ Resync \/ ReadCount \/ TooEarly \/ TimeIsUp \/ Beat
  \/ Stamp \/ LoadCount \/ StoreCount \/ GiveUp \/ Forget

-----------------------------------------------------------------------------
(* The receive thread *)

\* A frame between head and end byte: its time is stored before the checksum is
\* looked at.
RxFrame ==
  /\ rxPc = "wait"
  /\ lastCommuTime100ms' = Full
  /\ \/ /\ rxPc' = "valid"
        /\ quiet' = 0 /\ early' = 0
        /\ clash' = IF pc = "out" THEN 0 ELSE 1
     \/ /\ early' = IF Full < Masked /\ early < 3 THEN early + 1 ELSE early
        /\ UNCHANGED <<rxPc, quiet>>
        /\ clash' = IF pc = "out" THEN clash ELSE 1
  /\ UNCHANGED <<uartHeartSendCount, sender, env, beats>>

\* userSetUartHeartTime of a frame whose checksum holds: the time ...
RxStamp ==
  /\ rxPc = "valid"
  /\ lastCommuTime100ms' = Masked
  /\ rxPc' = "stamped"
  /\ clash' = IF pc = "out" THEN clash ELSE 1
  /\ UNCHANGED <<uartHeartSendCount, sender, env, quiet, beats, early>>

\* Mutant: a frame that leaves the count of beats alone.
RxResetNothing ==
  /\ rxPc = "stamped"
  /\ rxPc' = "wait"
  /\ clash' = IF pc = "out" THEN clash ELSE 1
  /\ UNCHANGED <<heart, sender, env, quiet, beats, early>>

\* ... and the count.
RxReset ==
  /\ rxPc = "stamped"
  /\ uartHeartSendCount' = 0
  /\ beats' = 0
  /\ rxPc' = "wait"
  /\ clash' = IF pc = "out" THEN clash ELSE 1
  /\ UNCHANGED <<lastCommuTime100ms, sender, env, quiet, early>>

Receiver == RxFrame \/ RxStamp \/ RxReset

-----------------------------------------------------------------------------
(* Time and the upgrade: external *)

\* A second passes.  The sender thread sleeps 30 ms between its turns and calls in
\* each tenth of them: outside an upgrade a call ends in each second.
Tick ==
  /\ passed = 1 \/ upgrading = 1
  /\ clock' = (clock + 1) % Cycle
  /\ quiet' = IF quiet < QuietCap THEN quiet + 1 ELSE quiet
  /\ passed' = 0
  /\ UNCHANGED <<heart, sender, rxPc, upgrading, beats, clash, early>>

\* devOtaUpdateingFlag keeps the sender thread out, from its next call on.
Upgrade ==
  /\ upgrading' = 1 - upgrading
  /\ UNCHANGED <<clock, passed, heart, sender, rxPc, history>>

Next == Sender \/ Receiver \/ Tick \/ Upgrade

Spec == Init /\ [][Next]_vars

\* The sender thread runs and time passes; nothing is assumed of the coordinator.
FairSpec == Spec /\ WF_vars(Sender) /\ WF_vars(Tick)

-----------------------------------------------------------------------------
(* Properties *)

\* The types of the heart beat's state; the count of unanswered beats stays under
\* three although it is incremented without a lock.
TypeOK ==
  /\ clock \in 0 .. Cycle - 1
  /\ lastCommuTime100ms \in 0 .. WordMod - 1
  /\ uartHeartSendCount \in 0 .. 2
  /\ pc \in {"out", "compare", "resync", "count", "minute", "answer", "firstBeat",
             "nextBeat", "stamp", "load", "store", "giveUp", "forget"}
  /\ now \in 0 .. MaskMod * 10 - 1
  /\ loaded \in 0 .. 2
  /\ rxPc \in {"wait", "valid", "stamped"}
  /\ upgrading \in {0, 1} /\ passed \in {0, 1}
  /\ quiet \in 0 .. QuietCap
  /\ beats \in Nat
  /\ clash \in {0, 1} /\ early \in 0 .. 3

\* A coordinator that does not answer is sent two beats at most before it is given
\* up, and one that answers none beyond the second, however the increment of the
\* sender thread and the reset of the receive thread interleave.
BeatsBounded == beats <= 2

\* The silence that n beats without an answer stand for, the last of them giving up.
Promised(n) == CASE n = 0 -> 0
                 [] n = 1 -> HeartInterval
                 [] n = 2 -> HeartInterval + AnswerTime
                 [] OTHER -> HeartInterval + 2 * AnswerTime

\* A beat is due only after the silence it stands for: a minute without a valid frame
\* for the first, five seconds more for the next, whatever the wraps of the two clocks
\* do to the stored time.  Two things may shorten it: the last valid frame came in the
\* middle of a call, or frames with a bad checksum came while the receive loop's clock
\* was behind the masked one, where each of them makes up for one wait and no more.
BeatAfterSilence ==
  pc \in {"firstBeat", "nextBeat"} /\ clash = 0 =>
    quiet * 10 + Promised(early) >= Promised(uartHeartSendCount + 1)

\* Under the same condition a coordinator is given up only after the whole sequence:
\* a minute of silence and twice the time for an answer, less what such frames made up
\* for; it takes three of them to give it up at once.
GivenUpAfterSilence ==
  pc = "giveUp" /\ clash = 0 => quiet * 10 + Promised(early) >= Promised(3)

\* A silent coordinator is noticed: once no frame arrives and no upgrade runs, it is
\* given up again and again, whatever the two threads have stored before.
SilenceNoticed ==
  <>[](upgrading = 0) /\ <>[][~Receiver]_vars => []<>(pc = "giveUp")
=============================================================================
