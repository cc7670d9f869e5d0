---------------------------- MODULE HeartProofs ----------------------------
(***************************************************************************)
(* Proofs about Heart, for every interval, clock width and starting time:  *)
(* the types, that no more than two beats go unanswered, and that beats    *)
(* and giving up follow the silence they stand for, less one wait for each *)
(* damaged frame stored behind the masked clock.                           *)
(*                                                                         *)
(* CountInv says where an increment under way may stand against the reset  *)
(* of the receive thread.  SilenceInv says that the last stored time and   *)
(* the number of beats never promise more silence than there was and such  *)
(* frames made up for.                                                     *)
(***************************************************************************)
EXTENDS Heart, NumberFacts, TLAPS

\* The count the sender thread has tested, and the beats since it was last 0.
CountInv ==
  /\ pc \in {"minute", "firstBeat"} => uartHeartSendCount = 0
  /\ pc \in {"nextBeat", "stamp", "load"} => uartHeartSendCount <= 1
  /\ pc = "store" => loaded <= 1
  /\ pc \notin {"stamp", "load", "store"} => beats <= uartHeartSendCount
  /\ pc \in {"stamp", "load"} => beats <= uartHeartSendCount + 1
  /\ pc = "store" => beats <= loaded + 1

\* What TimeIsUp finds, before the type of the count is used.
LEMMA MaskedType == ASSUME TypeOK PROVE Masked \in 0 .. MaskMod * 10 - 1
<1>. DEFINE c == clock % MaskMod
<1>1. c \in 0 .. MaskMod - 1
  BY ClockAssumption, DivMod DEF TypeOK
<1>. HIDE DEF c
<1>2. c * 10 \in 0 .. MaskMod * 10 - 1
  BY <1>1, ClockAssumption
<1>. QED BY <1>2 DEF Masked, c

LEMMA FullType == ASSUME TypeOK PROVE Full \in 0 .. WordMod - 1
  BY ClockAssumption, DivMod, clock * 10 \in Int DEF TypeOK, Full

LEMMA ElapsedType == ASSUME TypeOK PROVE Elapsed \in 0 .. WordMod - 1
  BY ClockAssumption, DivMod, now - lastCommuTime100ms \in Int DEF TypeOK, Elapsed

-----------------------------------------------------------------------------
(* Types and the count of beats *)

\* TypeOK and CountInv hold together: the count is bounded only because no test of
\* it and no reset is lost.
LEMMA TypeStep == TypeOK /\ CountInv /\ [Next]_vars => TypeOK' /\ CountInv'
<1>. SUFFICES ASSUME TypeOK, CountInv, [Next]_vars PROVE TypeOK' /\ CountInv'
  OBVIOUS
<1>. USE DEF TypeOK, CountInv
<1>1. CASE Sender
  <2>1. CASE Enter
    BY <2>1, MaskedType DEF Enter, heart, env
  <2>2. CASE Compare
    BY <2>2 DEF Compare, Goto, heart, env, history
  <2>3. CASE Resync
    BY <2>3, ClockAssumption DEF Resync, Leave, Goto, history
  <2>4. CASE ReadCount
    BY <2>4 DEF ReadCount, Goto, heart, env, history
  <2>5. CASE TooEarly
    BY <2>5 DEF TooEarly, Leave, Goto, heart, history
  <2>6. CASE TimeIsUp
    <3>1. pc = "minute" => pc' = "firstBeat"
      BY <2>6 DEF TimeIsUp, Goto
    <3>2. pc = "answer" => pc' \in {"giveUp", "nextBeat"}
      BY <2>6 DEF TimeIsUp, Goto
    <3>. QED BY <2>6, <3>1, <3>2 DEF TimeIsUp, Goto, Unanswered, heart, env, history
  <2>7. CASE Beat
    BY <2>7 DEF Beat, Goto, heart, env
  <2>8. CASE Stamp
    BY <2>8, ClockAssumption DEF Stamp, Goto, env, history
  <2>9. CASE LoadCount
    BY <2>9 DEF LoadCount, heart, env, history
  <2>10. CASE StoreCount
    BY <2>10 DEF StoreCount, Leave, Goto, history
  <2>11. CASE GiveUp
    BY <2>11, ClockAssumption DEF GiveUp, Goto, env, history
  <2>12. CASE Forget
    BY <2>12 DEF Forget, Leave, Goto
  <2>. QED BY <1>1, <2>1, <2>2, <2>3, <2>4, <2>5, <2>6, <2>7, <2>8, <2>9, <2>10, <2>11,
              <2>12 DEF Sender
<1>2. CASE RxFrame
  BY <1>2, FullType, ClockAssumption DEF RxFrame, sender, env
<1>3. CASE RxStamp
  <2>1. lastCommuTime100ms' \in 0 .. WordMod - 1
    BY <1>3, MaskedType, ClockAssumption DEF RxStamp
  <2>. QED BY <1>3, <2>1 DEF RxStamp, sender, env
<1>4. CASE RxReset
  BY <1>4 DEF RxReset, sender, env
<1>5. CASE Tick
  <2>1. clock' \in 0 .. Cycle - 1
    BY <1>5, ClockAssumption, DivMod, clock + 1 \in Int DEF Tick
  <2>2. quiet' \in 0 .. QuietCap
    BY <1>5, ClockAssumption DEF Tick
  <2>. QED BY <1>5, <2>1, <2>2 DEF Tick, heart, sender
<1>6. CASE Upgrade
  BY <1>6 DEF Upgrade, heart, sender, history
<1>7. CASE UNCHANGED vars
  BY <1>7 DEF vars
<1>. QED BY <1>1, <1>2, <1>3, <1>4, <1>5, <1>6, <1>7 DEF Next, Receiver

LEMMA TypeInit == Init => TypeOK /\ CountInv
  BY ClockAssumption DEF Init, TypeOK, CountInv

LEMMA TypeAlways == Spec => [](TypeOK /\ CountInv)
  BY TypeInit, TypeStep, PTL DEF Spec

\* The state of the heart beat keeps its types: the clock values fit their variables
\* and the count of beats stays under three.
THEOREM TypeCorrect == Spec => []TypeOK
  BY TypeAlways, PTL

\* No more than two beats are sent to a coordinator that answers none of them, although
\* the two threads write the count without a lock.
THEOREM BeatsAlwaysBounded == Spec => []BeatsBounded
<1>1. TypeOK /\ CountInv => BeatsBounded
  BY DEF TypeOK, CountInv, BeatsBounded
<1>. QED BY <1>1, TypeAlways, PTL

-----------------------------------------------------------------------------
(* Silence *)

\* How far the clock is ahead of a stored time.
Ahead(m, x) == IF m > x THEN m - x ELSE 0
Behind(x) == Ahead(Masked, x)

\* The silence n beats and a time of g since the last one stand for: a stored time as
\* old as it may be makes up for one wait only.
Reached(n, g) ==
  IF Promised(n) + g <= Promised(n + 1) THEN Promised(n) + g ELSE Promised(n + 1)

\* A silence of s seconds is one of d tenths, c of which early frames made up for.
QuietFor(s, c, d) == s = QuietCap \/ s * 10 + c >= d
Quietly(d) == QuietFor(quiet, Promised(early), d)

\* The time between the two stored values, as Compare sees it.
Gap == Ahead(now, lastCommuTime100ms)

\* Whatever the state promises in silence has passed: the beats counted, the time since
\* the stored one, and the time since the call was entered.
SilenceInv == clash = 0 =>
  /\ rxPc # "wait" => pc = "out"
  /\ rxPc = "stamped" => Quietly(Behind(lastCommuTime100ms))
  /\ rxPc = "wait" /\ pc = "out" =>
       Quietly(Reached(uartHeartSendCount, Behind(lastCommuTime100ms)))
  /\ pc \in {"compare", "count", "minute", "answer"} =>
       Quietly(Reached(uartHeartSendCount, Gap) + Behind(now))
  /\ pc \in {"count", "minute", "answer"} => now > lastCommuTime100ms
  /\ pc = "answer" => uartHeartSendCount \in {1, 2}
  /\ pc = "nextBeat" => uartHeartSendCount = 1
  /\ pc = "giveUp" => uartHeartSendCount = 2
  /\ pc = "resync" => Quietly(Promised(uartHeartSendCount) + Behind(now))
  /\ pc \in {"firstBeat", "nextBeat", "stamp", "giveUp"} =>
       Quietly(Promised(uartHeartSendCount + 1) + Behind(now))
  /\ pc = "load" => Quietly(Promised(uartHeartSendCount + 1) + Behind(lastCommuTime100ms))
  /\ pc = "store" => Quietly(Promised(loaded + 1) + Behind(lastCommuTime100ms))
  /\ pc = "forget" => Quietly(Behind(lastCommuTime100ms))

LEMMA PromisedType == ASSUME NEW c \in Nat PROVE Promised(c) \in Nat
  BY ClockAssumption DEF Promised

LEMMA AheadType == ASSUME NEW m \in Nat, NEW x \in Nat PROVE Ahead(m, x) \in Nat
  BY DEF Ahead

\* A wait reached lies between the beats before and after it.
LEMMA ReachedFacts ==
  ASSUME NEW n \in Nat, NEW g \in Nat
  PROVE  /\ Reached(n, g) \in Nat
         /\ Promised(n) <= Reached(n, g) /\ Reached(n, g) <= Promised(n) + g
         /\ Reached(n, g) <= Promised(n + 1)
<1>1. Promised(n) \in Nat /\ Promised(n + 1) \in Nat
  BY PromisedType, n + 1 \in Nat
<1>2. Promised(n) <= Promised(n + 1)
  BY ClockAssumption DEF Promised
<1>. QED BY <1>1, <1>2 DEF Reached

\* What a call finds when it reads the time again, and when the time is up.
LEMMA ReachedLess ==
  ASSUME NEW n \in Nat, NEW g \in Nat, NEW h \in Nat, NEW k \in Nat
  PROVE  /\ Reached(n, g) + k \in Nat /\ Promised(n) + k \in Nat /\ Reached(n, h) \in Nat
         /\ Promised(n) + k <= Reached(n, g) + k
         /\ h <= g + k => Reached(n, h) <= Reached(n, g) + k
         /\ \A l \in Nat : g >= l /\ Promised(n + 1) <= Promised(n) + l =>
              Reached(n, g) = Promised(n + 1)
<1>1. Promised(n) \in Nat /\ Promised(n + 1) \in Nat
  BY PromisedType, n + 1 \in Nat
<1>2. Promised(n) <= Promised(n + 1)
  BY ClockAssumption DEF Promised
<1>. QED BY <1>1, <1>2 DEF Reached

\* One early frame more makes up for one wait more: the first of them is a minute, no
\* wait is longer.
LEMMA OneWaitMore ==
  ASSUME NEW n \in 0 .. 2, NEW e \in 0 .. 3, NEW q \in Nat, q + Promised(e) >= Promised(n)
  PROVE  q + Promised(IF e < 3 THEN e + 1 ELSE e) >= Promised(n + 1)
<1>. USE ClockAssumption
<1>1. CASE n = 0
  BY <1>1 DEF Promised
<1>2. CASE n = 1
  BY <1>2 DEF Promised
<1>3. CASE n = 2
  BY <1>3 DEF Promised
<1>. QED BY <1>1, <1>2, <1>3

\* In a second the clock gains ten tenths at most on a stored time.
LEMMA TickAhead ==
  ASSUME TypeOK, Tick, NEW x \in Nat
  PROVE  Ahead(Masked', x) <= Ahead(Masked, x) + 10
<1>1. clock' = clock + 1 \/ clock' = 0
  <2>1. CASE clock + 1 < Cycle
    <3>1. clock + 1 \in 0 .. Cycle - 1
      BY <2>1, ClockAssumption DEF TypeOK
    <3>. QED BY <3>1, ModSmall, ClockAssumption DEF Tick
  <2>2. CASE clock + 1 = Cycle
    <3>1. clock + 1 = Cycle * 1 + 0 /\ 0 \in 0 .. Cycle - 1
      BY <2>2, ClockAssumption
    <3>. QED BY <3>1, ModUnique, ClockAssumption DEF TypeOK, Tick
  <2>. QED BY <2>1, <2>2, ClockAssumption DEF TypeOK
<1>2. Masked' = Masked + 10 \/ Masked' = 0
  <2>1. CASE clock' = clock + 1
    <3>1. clock \in Int /\ MaskMod \in Nat \ {0}
      BY ClockAssumption DEF TypeOK
    <3>2. (clock + 1) % MaskMod \in {(clock % MaskMod) + 1, 0}
      BY <3>1, ModStep, Zenon
    <3>3. clock % MaskMod \in Int
      BY <3>1, DivMod
    <3>. QED BY <2>1, <3>2, <3>3 DEF Masked
  <2>2. CASE clock' = 0
    <3>1. 0 \in 0 .. MaskMod - 1
      BY ClockAssumption
    <3>2. 0 % MaskMod = 0
      BY <3>1, ModSmall, ClockAssumption
    <3>. QED BY <2>2, <3>2 DEF Masked
  <2>. QED BY <1>1, <2>1, <2>2
<1>3. Masked \in Nat
  BY MaskedType, ClockAssumption
<1>. QED BY <1>2, <1>3 DEF Ahead

\* ... and the silence is a second longer.
LEMMA TickQuiet ==
  ASSUME TypeOK, Tick, NEW c \in Nat, NEW d \in Nat, NEW e \in Nat,
         QuietFor(quiet, c, d), e <= d + 10
  PROVE  QuietFor(quiet', c, e)
  BY ClockAssumption DEF TypeOK, Tick, QuietFor

\* Less silence than there was is still there.
LEMMA QuietLess ==
  ASSUME TypeOK, NEW c \in Nat, NEW d \in Nat, NEW e \in Nat, QuietFor(quiet, c, d), e <= d
  PROVE  QuietFor(quiet, c, e)
  BY DEF TypeOK, QuietFor

-----------------------------------------------------------------------------
(* The silence promised is kept by every step *)

\* The steps of userManageUartHeart: time stands still, and a call that no frame has
\* met finds the stored time where its first read found it.
LEMMA SilenceSender ==
  ASSUME TypeOK, CountInv, SilenceInv, Sender, TypeOK'
  PROVE  SilenceInv'
<1>. SUFFICES ASSUME clash' = 0 PROVE SilenceInv'
  BY DEF SilenceInv
<1>1. /\ clock' = clock /\ quiet' = quiet /\ early' = early /\ rxPc' = rxPc /\ clash = 0
      /\ rxPc = "wait"
  BY DEF SilenceInv, Sender, Enter, Compare, Resync, ReadCount, TooEarly, TimeIsUp, Beat, Stamp,
    LoadCount, StoreCount, GiveUp, Forget, Leave, Goto, env, history
<1>2. Masked' = Masked /\ Masked \in Nat
  BY <1>1, MaskedType, ClockAssumption DEF Masked
<1>3. /\ lastCommuTime100ms \in Nat /\ now \in Nat /\ uartHeartSendCount \in Nat
      /\ loaded \in Nat /\ now' \in Nat /\ lastCommuTime100ms' \in Nat
  BY ClockAssumption DEF TypeOK
<1>. DEFINE c == uartHeartSendCount
            x == lastCommuTime100ms
            p == Promised(early)
<1>4. /\ Promised(c) \in Nat /\ Promised(c + 1) \in Nat /\ Promised(loaded + 1) \in Nat
      /\ Ahead(Masked, x) \in Nat /\ Ahead(Masked, now) \in Nat /\ Ahead(now, x) \in Nat
      /\ p \in Nat
  <2>1. c + 1 \in Nat /\ loaded + 1 \in Nat /\ early \in Nat
    BY <1>3 DEF TypeOK
  <2>. QED BY <1>2, <1>3, <2>1, PromisedType, AheadType
<1>5. \A d \in Nat, e \in Nat : QuietFor(quiet, p, d) /\ e <= d => QuietFor(quiet, p, e)
  BY <1>4, QuietLess
<1>. DEFINE b == Ahead(Masked, now)
<1>6. /\ Reached(c, Ahead(Masked, x)) \in Nat
      /\ Reached(c, Ahead(Masked, x)) = Reached(c, Ahead(Masked, x)) + 0
  BY <1>3, <1>4, ReachedFacts
<1>7. QuietFor(quiet, p, Reached(c, Ahead(now, x)) + b) =>
        /\ QuietFor(quiet, p, Promised(c) + b)
        /\ Ahead(Masked, x) <= Ahead(now, x) + b => QuietFor(quiet, p, Reached(c, Ahead(Masked, x)))
  BY <1>3, <1>4, <1>5, ReachedLess
<1>8. Ahead(now, x) >= Limit /\ Limit \in Nat /\ Promised(c + 1) <= Promised(c) + Limit =>
        Reached(c, Ahead(now, x)) = Promised(c + 1)
  BY <1>3, <1>4, ReachedLess
<1>. USE <1>1 DEF SilenceInv, Quietly, Behind, Gap
<1>9. CASE Enter
  <2>1. Ahead(Masked, Masked) = 0
    BY <1>2 DEF Ahead
  <2>2. pc = "out" /\ pc' = "compare" /\ now' = Masked /\ x' = x /\ c' = c
    BY <1>9 DEF Enter, heart
  <2>3. QuietFor(quiet, p, Reached(c, Ahead(Masked, x)))
    BY <2>2
  <2>. QED BY <1>2, <1>6, <2>1, <2>2, <2>3
<1>10. CASE Compare
  <2>1. x' = x /\ c' = c /\ now' = now /\ pc = "compare" /\ pc' \in {"count", "resync"}
        /\ (pc' = "count" => now > x)
    BY <1>10 DEF Compare, Goto, heart
  <2>2. QuietFor(quiet, p, Reached(c, Ahead(now, x)) + Ahead(Masked, now))
    BY <2>1
  <2>3. QuietFor(quiet, p, Promised(c) + Ahead(Masked, now))
    BY <1>7, <2>2
  <2>. QED BY <1>2, <2>1, <2>2, <2>3
<1>11. CASE Resync
  <2>1. x' = now /\ c' = c /\ pc = "resync" /\ pc' = "out"
    BY <1>11 DEF Resync, Leave, Goto
  <2>2. Reached(c, Ahead(Masked, now)) \in Nat
        /\ Reached(c, Ahead(Masked, now)) <= Promised(c) + Ahead(Masked, now)
    BY <1>3, <1>4, ReachedFacts
  <2>3. QuietFor(quiet, p, Reached(c, Ahead(Masked, now)))
    BY <1>4, <1>5, <2>1, <2>2
  <2>. QED BY <1>2, <2>1, <2>3
<1>12. CASE ReadCount
  <2>1. x' = x /\ c' = c /\ now' = now /\ pc = "count" /\ pc' \in {"minute", "answer"}
        /\ (pc' = "answer" => c # 0)
    BY <1>12 DEF ReadCount, Goto, heart
  <2>2. pc' = "answer" => c \in {1, 2}
    BY <2>1 DEF TypeOK
  <2>. QED BY <1>2, <2>1, <2>2
<1>13. CASE TooEarly
  <2>1. x' = x /\ c' = c /\ pc \in {"minute", "answer"} /\ pc' = "out"
    BY <1>13 DEF TooEarly, Leave, Goto, heart
  <2>2. QuietFor(quiet, p, Reached(c, Ahead(now, x)) + Ahead(Masked, now)) /\ now > x
    BY <2>1
  <2>3. Ahead(Masked, x) <= Ahead(now, x) + Ahead(Masked, now)
    BY <1>2, <1>3, <2>2 DEF Ahead
  <2>4. QuietFor(quiet, p, Reached(c, Ahead(Masked, x)))
    BY <1>7, <2>2, <2>3
  <2>. QED BY <1>2, <2>1, <2>4
<1>14. CASE TimeIsUp
  <2>1. /\ x' = x /\ c' = c /\ now' = now /\ pc \in {"minute", "answer"}
        /\ pc = "minute" => pc' = "firstBeat" /\ c = 0
        /\ pc = "answer" => c \in {1, 2} /\ pc' = IF c >= 2 THEN "giveUp" ELSE "nextBeat"
    BY <1>14 DEF TimeIsUp, Goto, heart, Unanswered, CountInv
  <2>2. QuietFor(quiet, p, Reached(c, Ahead(now, x)) + Ahead(Masked, now)) /\ now > x
    BY <2>1
  <2>3. now - x \in 0 .. WordMod - 1
    BY <1>3, <2>2, ClockAssumption DEF TypeOK
  <2>4. Elapsed = now - x
    BY <2>3, ModSmall, ClockAssumption DEF Elapsed
  <2>5. Ahead(now, x) >= Limit
    BY <1>14, <2>2, <2>4 DEF TimeIsUp, Ahead
  <2>6. Promised(c + 1) <= Promised(c) + Limit
    BY <2>1, ClockAssumption DEF Promised, Limit
  <2>7. Limit \in Nat
    BY ClockAssumption DEF Limit
  <2>8. Reached(c, Ahead(now, x)) = Promised(c + 1)
    BY <1>8, <2>5, <2>6, <2>7
  <2>9. QuietFor(quiet, p, Promised(c + 1) + Ahead(Masked, now))
    BY <2>2, <2>8
  <2>10. /\ pc' \in {"firstBeat", "nextBeat", "giveUp"}
         /\ pc' = "nextBeat" => c = 1
         /\ pc' = "giveUp" => c = 2
    BY <2>1
  <2>. QED BY <1>2, <2>1, <2>9, <2>10
<1>15. CASE Beat
  <2>1. x' = x /\ c' = c /\ now' = now /\ pc \in {"firstBeat", "nextBeat"} /\ pc' = "stamp"
    BY <1>15 DEF Beat, Goto, heart
  <2>. QED BY <1>2, <2>1
<1>16. CASE Stamp
  <2>1. x' = now /\ c' = c /\ pc = "stamp" /\ pc' = "load"
    BY <1>16 DEF Stamp, Goto
  <2>. QED BY <1>2, <2>1
<1>17. CASE LoadCount
  <2>1. x' = x /\ loaded' = c /\ pc = "load" /\ pc' = "store"
    BY <1>17 DEF LoadCount, heart
  <2>. QED BY <1>2, <2>1
<1>18. CASE StoreCount
  <2>1. x' = x /\ c' = loaded + 1 /\ pc = "store" /\ pc' = "out"
    BY <1>18 DEF StoreCount, Leave, Goto
  <2>2. Reached(loaded + 1, Ahead(Masked, x)) \in Nat
        /\ Reached(loaded + 1, Ahead(Masked, x)) <= Promised(loaded + 1) + Ahead(Masked, x)
    BY <1>3, <1>4, ReachedFacts, loaded + 1 \in Nat
  <2>3. QuietFor(quiet, p, Reached(loaded + 1, Ahead(Masked, x)))
    BY <1>4, <1>5, <2>1, <2>2
  <2>. QED BY <1>2, <2>1, <2>3
<1>19. CASE GiveUp
  <2>1. x' = now /\ pc = "giveUp" /\ pc' = "forget"
    BY <1>19 DEF GiveUp, Goto
  <2>2. QuietFor(quiet, p, Promised(c + 1) + Ahead(Masked, now))
    BY <2>1
  <2>3. QuietFor(quiet, p, Ahead(Masked, now))
    BY <1>4, <1>5, <2>2
  <2>. QED BY <1>2, <2>1, <2>3
<1>20. CASE Forget
  <2>1. x' = x /\ c' = 0 /\ pc = "forget" /\ pc' = "out"
    BY <1>20 DEF Forget, Leave, Goto
  <2>2. Reached(0, Ahead(Masked, x)) \in Nat
        /\ Reached(0, Ahead(Masked, x)) <= Promised(0) + Ahead(Masked, x)
    BY <1>4, ReachedFacts
  <2>3. QuietFor(quiet, p, Reached(0, Ahead(Masked, x)))
    BY <1>4, <1>5, <2>1, <2>2 DEF Promised
  <2>. QED BY <1>2, <2>1, <2>3
<1>. QED BY <1>9, <1>10, <1>11, <1>12, <1>13, <1>14, <1>15, <1>16, <1>17, <1>18, <1>19, <1>20
         DEF Sender

\* A frame, received outside a call: only then does clash stay or become 0.
LEMMA SilenceReceiver ==
  ASSUME TypeOK, SilenceInv, Receiver, TypeOK'
  PROVE  SilenceInv'
<1>. SUFFICES ASSUME clash' = 0 PROVE SilenceInv'
  BY DEF SilenceInv
<1>1. clock' = clock /\ pc = "out" /\ pc' = "out"
  BY DEF Receiver, RxFrame, RxStamp, RxReset, sender, env
<1>2. Masked' = Masked /\ Masked \in Nat
  BY <1>1, MaskedType, ClockAssumption DEF Masked
<1>. DEFINE c == uartHeartSendCount
            x == lastCommuTime100ms
            p == Promised(early)
<1>3. /\ x \in Nat /\ x' \in Nat /\ c \in 0 .. 2 /\ quiet \in Nat /\ early \in 0 .. 3
      /\ Promised(c) \in Nat /\ Promised(c + 1) \in Nat /\ p \in Nat
      /\ Ahead(Masked, x) \in Nat /\ Ahead(Masked, x') \in Nat
  <2>1. x \in Nat /\ x' \in Nat /\ c \in 0 .. 2 /\ quiet \in Nat /\ early \in 0 .. 3
    BY ClockAssumption DEF TypeOK
  <2>2. c \in Nat /\ c + 1 \in Nat /\ early \in Nat
    BY <2>1
  <2>. QED BY <1>2, <2>1, <2>2, PromisedType, AheadType
<1>4. CASE RxFrame
  <2>1. x' = Full /\ c' = c
    BY <1>4 DEF RxFrame
  <2>2. CASE rxPc' = "valid"
    BY <1>1, <2>2 DEF SilenceInv
  <2>3. CASE rxPc' # "valid"
    <3>1. /\ rxPc = "wait" /\ rxPc' = "wait" /\ quiet' = quiet /\ clash = 0
          /\ early' = IF Full < Masked /\ early < 3 THEN early + 1 ELSE early
      BY <1>1, <1>4, <2>3 DEF RxFrame
    <3>2. QuietFor(quiet, p, Reached(c, Ahead(Masked, x)))
      BY <1>1, <3>1 DEF SilenceInv, Quietly, Behind
    <3>3. /\ Reached(c, Ahead(Masked, x)) \in Nat /\ Promised(c) <= Reached(c, Ahead(Masked, x))
          /\ Reached(c, Ahead(Masked, x')) \in Nat
          /\ Reached(c, Ahead(Masked, x')) <= Promised(c) + Ahead(Masked, x')
          /\ Reached(c, Ahead(Masked, x')) <= Promised(c + 1)
      BY <1>3, ReachedFacts, c \in Nat
    <3>4. QuietFor(quiet, p, Promised(c))
      BY <1>3, <3>2, <3>3, QuietLess
    <3>5. CASE Full < Masked
      <4>1. early' = IF early < 3 THEN early + 1 ELSE early
        BY <3>1, <3>5
      <4>2. quiet = QuietCap \/ quiet * 10 + Promised(early') >= Promised(c + 1)
        <5>1. quiet * 10 \in Nat
          BY <1>3
        <5>2. quiet * 10 + p >= Promised(c) => quiet * 10 + Promised(early') >= Promised(c + 1)
          BY <1>3, <4>1, <5>1, OneWaitMore
        <5>. QED BY <3>4, <5>2 DEF QuietFor
      <4>3. Promised(early') \in Nat
        BY <1>3, <4>1, PromisedType
      <4>4. QuietFor(quiet, Promised(early'), Reached(c, Ahead(Masked, x')))
        BY <1>3, <3>3, <4>2, <4>3 DEF QuietFor
      <4>. QED BY <1>1, <1>2, <2>1, <3>1, <4>4 DEF SilenceInv, Quietly, Behind
    <3>6. CASE ~(Full < Masked)
      <4>1. Ahead(Masked, x') = 0 /\ early' = early
        BY <1>2, <1>3, <2>1, <3>1, <3>6 DEF Ahead
      <4>2. QuietFor(quiet, p, Reached(c, Ahead(Masked, x')))
        BY <1>3, <3>3, <3>4, <4>1, QuietLess
      <4>. QED BY <1>1, <1>2, <2>1, <3>1, <4>1, <4>2 DEF SilenceInv, Quietly, Behind
    <3>. QED BY <3>5, <3>6
  <2>. QED BY <2>2, <2>3
<1>5. CASE RxStamp
  <2>1. x' = Masked /\ rxPc' = "stamped" /\ quiet' = quiet /\ early' = early
    BY <1>5 DEF RxStamp
  <2>2. Ahead(Masked, x') = 0
    BY <1>2, <2>1 DEF Ahead
  <2>3. QuietFor(quiet, p, 0)
    BY <1>3 DEF QuietFor
  <2>. QED BY <1>1, <1>2, <2>1, <2>2, <2>3 DEF SilenceInv, Quietly, Behind
<1>6. CASE RxReset
  <2>1. /\ x' = x /\ c' = 0 /\ rxPc = "stamped" /\ rxPc' = "wait" /\ quiet' = quiet
        /\ early' = early /\ clash = 0
    BY <1>1, <1>6 DEF RxReset
  <2>2. QuietFor(quiet, p, Ahead(Masked, x))
    BY <2>1 DEF SilenceInv, Quietly, Behind
  <2>3. Reached(0, Ahead(Masked, x)) \in Nat /\ Reached(0, Ahead(Masked, x)) <= Ahead(Masked, x)
    <3>1. Promised(0) = 0
      BY DEF Promised
    <3>2. /\ Reached(0, Ahead(Masked, x)) \in Nat
          /\ Reached(0, Ahead(Masked, x)) <= Promised(0) + Ahead(Masked, x)
      BY <1>3, ReachedFacts
    <3>. QED BY <1>3, <3>1, <3>2
  <2>4. QuietFor(quiet, p, Reached(0, Ahead(Masked, x)))
    BY <1>3, <2>2, <2>3, QuietLess
  <2>. QED BY <1>1, <1>2, <2>1, <2>4 DEF SilenceInv, Quietly, Behind
<1>. QED BY <1>4, <1>5, <1>6 DEF Receiver

\* A second more of silence makes up for the ten tenths the clock has gained.
LEMMA SilenceTick ==
  ASSUME TypeOK, SilenceInv, Tick
  PROVE  SilenceInv'
<1>. SUFFICES ASSUME clash' = 0 PROVE SilenceInv'
  BY DEF SilenceInv
<1>. DEFINE c == uartHeartSendCount
            x == lastCommuTime100ms
            p == Promised(early)
<1>1. /\ c' = c /\ x' = x /\ pc' = pc /\ now' = now /\ loaded' = loaded /\ rxPc' = rxPc
      /\ clash = 0 /\ early' = early
  BY DEF Tick, heart, sender
<1>2. Masked \in Nat /\ Masked' \in Nat
  <2>1. clock' \in Int
    BY ClockAssumption, DivMod, clock + 1 \in Int DEF TypeOK, Tick
  <2>2. MaskMod \in Nat \ {0}
    BY ClockAssumption
  <2>3. clock' % MaskMod \in 0 .. MaskMod - 1
    BY <2>1, <2>2, DivMod
  <2>. QED BY <2>2, <2>3, MaskedType, ClockAssumption DEF Masked
<1>3. x \in Nat /\ now \in Nat /\ c \in Nat /\ c + 1 \in Nat /\ loaded + 1 \in Nat
  BY ClockAssumption DEF TypeOK
<1>4. /\ Promised(c) \in Nat /\ Promised(c + 1) \in Nat /\ Promised(loaded + 1) \in Nat
      /\ Ahead(Masked, x) \in Nat /\ Ahead(Masked, now) \in Nat /\ Ahead(now, x) \in Nat
      /\ Ahead(Masked', x) \in Nat /\ Ahead(Masked', now) \in Nat /\ p \in Nat
  <2>1. early \in Nat
    BY DEF TypeOK
  <2>. QED BY <1>2, <1>3, <2>1, PromisedType, AheadType
<1>5. Ahead(Masked', x) <= Ahead(Masked, x) + 10 /\ Ahead(Masked', now) <= Ahead(Masked, now) + 10
  BY <1>3, TickAhead
<1>6. \A d \in Nat, e \in Nat :
        QuietFor(quiet, p, d + e) => \A f \in Nat : f <= e + 10 => QuietFor(quiet', p, d + f)
  <2>1. SUFFICES ASSUME NEW d \in Nat, NEW e \in Nat, QuietFor(quiet, p, d + e),
                        NEW f \in Nat, f <= e + 10
                 PROVE  QuietFor(quiet', p, d + f)
    OBVIOUS
  <2>2. d + e \in Nat /\ d + f \in Nat /\ d + f <= (d + e) + 10
    BY <2>1
  <2>. QED BY <1>4, <2>1, <2>2, TickQuiet
<1>. USE DEF SilenceInv, Quietly, Behind, Gap
<1>7. QuietFor(quiet, p, Ahead(Masked, x)) => QuietFor(quiet', p, Ahead(Masked', x))
  BY <1>4, <1>5, TickQuiet
<1>8. \A d \in Nat : /\ QuietFor(quiet, p, d + Ahead(Masked, x)) => QuietFor(quiet', p, d + Ahead(Masked', x))
                     /\ QuietFor(quiet, p, d + Ahead(Masked, now)) => QuietFor(quiet', p, d + Ahead(Masked', now))
  BY <1>4, <1>5, <1>6
<1>9. Reached(c, Ahead(now, x)) \in Nat
  BY <1>3, <1>4, ReachedFacts
<1>10. QuietFor(quiet, p, Reached(c, Ahead(Masked, x))) => QuietFor(quiet', p, Reached(c, Ahead(Masked', x)))
  <2>1. /\ Reached(c, Ahead(Masked, x)) \in Nat /\ Reached(c, Ahead(Masked', x)) \in Nat
        /\ Reached(c, Ahead(Masked', x)) <= Reached(c, Ahead(Masked, x)) + 10
    BY <1>3, <1>4, <1>5, ReachedLess, 10 \in Nat
  <2>. QED BY <1>4, <2>1, TickQuiet
<1>. QED BY <1>1, <1>4, <1>7, <1>8, <1>9, <1>10

LEMMA SilenceStep ==
  TypeOK /\ CountInv /\ SilenceInv /\ [Next]_vars => SilenceInv'
<1>. SUFFICES ASSUME TypeOK, CountInv, SilenceInv, [Next]_vars PROVE SilenceInv'
  OBVIOUS
<1>1. TypeOK'
  BY TypeStep
<1>2. CASE Sender
  BY <1>1, <1>2, SilenceSender
<1>3. CASE Receiver
  BY <1>1, <1>3, SilenceReceiver
<1>4. CASE Tick
  BY <1>4, SilenceTick
<1>5. CASE Upgrade \/ UNCHANGED vars
  <2>1. /\ clock' = clock /\ lastCommuTime100ms' = lastCommuTime100ms
        /\ uartHeartSendCount' = uartHeartSendCount /\ pc' = pc /\ now' = now
        /\ loaded' = loaded /\ rxPc' = rxPc /\ quiet' = quiet /\ clash' = clash
        /\ early' = early
    BY <1>5 DEF Upgrade, vars, heart, sender, history
  <2>2. Masked' = Masked
    BY <2>1 DEF Masked
  <2>. QED BY <2>1, <2>2 DEF SilenceInv, Quietly, Behind, Gap
<1>. QED BY <1>2, <1>3, <1>4, <1>5 DEF Next

LEMMA SilenceInit == Init => SilenceInv
  BY DEF Init, SilenceInv, Quietly, QuietFor

LEMMA SilenceAlways == Spec => [](TypeOK /\ CountInv /\ SilenceInv)
<1>1. Init => TypeOK /\ CountInv /\ SilenceInv
  BY TypeInit, SilenceInit
<1>2. TypeOK /\ CountInv /\ SilenceInv /\ [Next]_vars => (TypeOK /\ CountInv /\ SilenceInv)'
  BY TypeStep, SilenceStep
<1>. QED BY <1>1, <1>2, PTL DEF Spec

\* What is promised at a beat has passed, the longest silence told apart included.
LEMMA QuietEnough ==
  ASSUME TypeOK, NEW n \in Nat, Quietly(Promised(n) + Behind(now))
  PROVE  quiet * 10 + Promised(early) >= Promised(n)
<1>1. Behind(now) \in Nat
  <2>1. Masked \in Nat /\ now \in Nat
    BY MaskedType, ClockAssumption DEF TypeOK
  <2>. QED BY <2>1, AheadType DEF Behind
<1>2. Promised(n) \in Nat /\ Promised(early) \in Nat /\ quiet \in Nat
  BY PromisedType, early \in Nat DEF TypeOK
<1>3. QuietCap * 10 >= Promised(n)
  BY ClockAssumption DEF Promised
<1>. QED BY <1>1, <1>2, <1>3, ClockAssumption DEF Quietly, QuietFor

\* A beat is filled only after the silence it stands for, whatever the widths of the
\* clocks; only a frame that met a call, or damaged frames while the receive loop's
\* clock was behind the masked one, shorten it, each of these by one wait.
THEOREM BeatAlwaysAfterSilence == Spec => []BeatAfterSilence
<1>1. TypeOK /\ SilenceInv => BeatAfterSilence
  <2>. SUFFICES ASSUME TypeOK, SilenceInv, pc \in {"firstBeat", "nextBeat"}, clash = 0
                PROVE  quiet * 10 + Promised(early) >= Promised(uartHeartSendCount + 1)
    BY DEF BeatAfterSilence
  <2>1. Quietly(Promised(uartHeartSendCount + 1) + Behind(now))
    BY DEF SilenceInv
  <2>. QED BY <2>1, QuietEnough, uartHeartSendCount + 1 \in Nat DEF TypeOK
<1>. QED BY <1>1, SilenceAlways, PTL

\* ... and the coordinator is given up only after the minute and both waits for an
\* answer, shortened by nothing else.
THEOREM GivenUpAlwaysAfterSilence == Spec => []GivenUpAfterSilence
<1>1. TypeOK /\ SilenceInv => GivenUpAfterSilence
  <2>. SUFFICES ASSUME TypeOK, SilenceInv, pc = "giveUp", clash = 0
                PROVE  quiet * 10 + Promised(early) >= Promised(3)
    BY DEF GivenUpAfterSilence
  <2>1. Quietly(Promised(2 + 1) + Behind(now))
    BY DEF SilenceInv
  <2>. QED BY <2>1, QuietEnough
<1>. QED BY <1>1, SilenceAlways, PTL
=============================================================================
