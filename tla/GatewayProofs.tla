---------------------------- MODULE GatewayProofs ----------------------------
(***************************************************************************)
(* Proofs about the transmit buffer and the sender thread's loop around    *)
(* it, for any number of slots, threads, requests and upgrades and any     *)
(* period of the sweeps.                                                   *)
(*                                                                         *)
(* Of the buffer (TxQueue): the types, that no command is written twice,   *)
(* and that as long as no two fills overlap in a slot every frame goes to  *)
(* the address of its command and no command is lost.  SlotInv follows the *)
(* number of a request from the thread that makes it to the one slot it is *)
(* stored in and to the line; ApartInv says what a slot holds while the    *)
(* histories shared and clash are both 0.                                  *)
(*                                                                         *)
(* Of the loop (Gateway): its buffer is the buffer of TxQueue, so that all *)
(* this holds in the loop, and the number of commands written into one     *)
(* upgrade is bounded.  The bound comes from what a turn can still write:  *)
(* each valid slot, but for one whose command has just been written.       *)
(***************************************************************************)
EXTENDS Gateway, NumberFacts, SequenceTheorems, FiniteSetTheorems

-----------------------------------------------------------------------------
(* Slots *)

LEMMA FirstSlotFound ==
  ASSUME NEW S \in SUBSET Slots
  PROVE  (S = {} /\ FirstSlot(S) = NoIndex) \/ (S # {} /\ FirstSlot(S) \in S)
<1>1. CASE S = {}
  BY <1>1 DEF FirstSlot
<1>2. CASE S # {}
  <2>1. S \in SUBSET Nat
    BY SizesAssumption DEF Slots
  <2>2. \E i \in S : \A j \in S : i <= j
    BY <1>2, <2>1, LeastNat
  <2>. QED BY <1>2, <2>2 DEF FirstSlot
<1>. QED BY <1>1, <1>2

-----------------------------------------------------------------------------
(* Types *)

LEMMA TypeInit == Init => TypeOK
<1>. SUFFICES ASSUME Init PROVE TypeOK
  OBVIOUS
<1>. USE SizesAssumption
<1>1. EmptySlot \in Slot
  BY DEF EmptySlot, Slot, RequestNum
<1>2. uartTXCmd \in [Slots -> Slot] /\ frame \in Slot
  BY <1>1 DEF Init
<1>3. requests \in Seq(Fills) /\ Len(requests) = 0 /\ written \in Seq(Nat) /\ Len(written) = 0
  BY DEF Init
<1>4. /\ producer \in [Producers ->
           [at : {"idle", "addr", "ep", "cmd", "valid", "payload"},
            slot : Slots \cup {NoIndex}, req : RequestNum]]
      /\ sender \in [at : {"idle", "find", "dispatch", "clearValid"} \cup Clearing, index : Slots]
  BY DEF Init, Idle, RequestNum, Slots
<1>. QED BY <1>2, <1>3, <1>4 DEF Init, TypeOK

Place == [at : {"idle", "addr", "ep", "cmd", "valid", "payload"},
          slot : Slots \cup {NoIndex}, req : RequestNum]

\* A thread that fills holds a slot.
LEMMA TypeStore ==
  ASSUME TypeOK, NEW p \in Producers, NEW s, NEW place, NEW next \in Place,
         Store(p, place, s, next), s \in [Slots -> Slot]
  PROVE  TypeOK'
<1>1. producer' \in [Producers -> Place]
  BY DEF TypeOK, Store, Place
<1>. QED BY <1>1 DEF TypeOK, Store, Place, lineVars, history

\* Where the fill of a thread stands, and the slot it holds.
HoldsSlot == \A p \in Producers : producer[p].at # "idle" => producer[p].slot \in Slots

LEMMA TypeStep == TypeOK /\ HoldsSlot /\ [Next]_vars => TypeOK' /\ HoldsSlot'
<1>. SUFFICES ASSUME TypeOK, HoldsSlot, [Next]_vars
              PROVE  TypeOK' /\ HoldsSlot'
  OBVIOUS
<1>. USE SizesAssumption
<1>0. /\ uartTXCmd \in [Slots -> Slot] /\ producer \in [Producers -> Place]
      /\ requests \in Seq(Fills) /\ Len(requests) <= MaxRequests
      /\ written \in Seq(Nat) /\ Len(written) = Len(requests) /\ frame \in Slot
  BY DEF TypeOK, Place
<1>1. ASSUME NEW p \in Producers, TakeSlot(p)
      PROVE  TypeOK' /\ HoldsSlot'
  <2>. DEFINE i == userFindFreeTxBufIndex
              n == [at |-> "addr", slot |-> i, req |-> Len(requests) + 1]
  <2>1. i \in Slots
    BY <1>1, FirstSlotFound DEF TakeSlot, userFindFreeTxBufIndex
  <2>2. requests' \in Seq(Fills) /\ Len(requests') = Len(requests) + 1
    BY <1>0, <1>1 DEF TakeSlot
  <2>3. written' \in Seq(Nat) /\ Len(written') = Len(written) + 1
    BY <1>0, <1>1 DEF TakeSlot
  <2>4. n \in Place /\ Len(requests) + 1 <= MaxRequests
    BY <1>0, <1>1, <2>1 DEF TakeSlot, Place, RequestNum
  <2>5. producer' = [producer EXCEPT ![p] = n]
    BY <1>1 DEF TakeSlot
  <2>6. producer' \in [Producers -> Place]
    BY <1>0, <2>4, <2>5
  <2>7. TypeOK'
    BY <1>0, <1>1, <2>2, <2>3, <2>4, <2>6 DEF TakeSlot, TypeOK, Place
  <2>8. HoldsSlot'
    BY <1>0, <2>1, <2>5 DEF HoldsSlot
  <2>. QED BY <2>7, <2>8
<1>2. ASSUME NEW p \in Producers,
             StoreAddr(p) \/ StoreEp(p) \/ StoreCmd(p) \/ StoreValid(p) \/ StorePayload(p)
      PROVE  TypeOK' /\ HoldsSlot'
  <2>. DEFINE i == producer[p].slot
              r == producer[p].req
  <2>1. producer[p] \in Place /\ r \in RequestNum
    BY <1>0 DEF Place
  <2>2. /\ \A place \in {"ep", "cmd", "valid", "payload"} : At(p, place) \in Place
        /\ Idle \in Place /\ AfterValid(p) \in Place
    BY <2>1 DEF At, AfterValid, Idle, Place, RequestNum
  <2>3. producer[p].at # "idle" /\ i \in Slots
    BY <1>2 DEF StoreAddr, StoreEp, StoreCmd, StoreValid, StorePayload, Store, HoldsSlot
  <2>4. /\ [uartTXCmd EXCEPT ![i].dstAddr = r] \in [Slots -> Slot]
        /\ [uartTXCmd EXCEPT ![i].dstEp = r] \in [Slots -> Slot]
        /\ [uartTXCmd EXCEPT ![i].inCmd = r] \in [Slots -> Slot]
        /\ [uartTXCmd EXCEPT ![i].inPayload = r] \in [Slots -> Slot]
        /\ [uartTXCmd EXCEPT ![i].cmdValid = 1] \in [Slots -> Slot]
    BY <1>0, <2>1, <2>3 DEF Slot
  <2>5. TypeOK'
    <3>1. CASE StoreAddr(p)
      BY <2>2, <2>4, <3>1, TypeStore DEF StoreAddr
    <3>2. CASE StoreEp(p)
      BY <2>2, <2>4, <3>2, TypeStore DEF StoreEp
    <3>3. CASE StoreCmd(p)
      BY <2>2, <2>4, <3>3, TypeStore DEF StoreCmd
    <3>4. CASE StoreValid(p)
      BY <2>2, <2>4, <3>4, TypeStore DEF StoreValid
    <3>5. CASE StorePayload(p)
      BY <2>2, <2>4, <3>5, TypeStore DEF StorePayload
    <3>. QED BY <1>2, <3>1, <3>2, <3>3, <3>4, <3>5
  <2>6. /\ producer'[p].at # "idle" => producer'[p].slot = i
        /\ \A q \in Producers \ {p} : producer'[q] = producer[q]
    BY <1>0, <1>2 DEF StoreAddr, StoreEp, StoreCmd, StoreValid, StorePayload, Store, At,
                      AfterValid, Idle, Place
  <2>. QED BY <2>3, <2>5, <2>6 DEF HoldsSlot
<1>3. CASE BeginPass \/ FindValid
  <2>1. sender' \in [at : {"idle", "find", "dispatch", "clearValid"} \cup Clearing, index : Slots]
    <3>1. CASE BeginPass
      BY <3>1 DEF BeginPass, Goto, Slots
    <3>2. CASE FindValid
      <4>. DEFINE i == FirstSlot({j \in Slots : j >= sender.index /\ uartTXCmd[j].cmdValid = 1})
      <4>1. i = NoIndex \/ i \in Slots
        BY FirstSlotFound
      <4>2. CASE i = NoIndex
        BY <3>2, <4>2 DEF FindValid, Goto, Slots
      <4>3. CASE i # NoIndex
        BY <3>2, <4>1, <4>3 DEF FindValid, Goto
      <4>. QED BY <4>2, <4>3
    <3>. QED BY <1>3, <3>1, <3>2
  <2>. QED BY <1>3, <2>1 DEF BeginPass, FindValid, TypeOK, HoldsSlot, lineVars, history
<1>4. CASE Dispatch
  <2>1. sender.index \in Slots /\ uartTXCmd[sender.index] \in Slot
    BY <1>0 DEF TypeOK
  <2>2. \A k : [written EXCEPT ![k] = written[k] + 1] \in Seq(Nat)
               /\ Len([written EXCEPT ![k] = written[k] + 1]) = Len(written)
    <3>. TAKE k
    <3>1. CASE k \in 1 .. Len(written)
      <4>1. written[k] + 1 \in Nat
        BY <1>0, <3>1
      <4>. QED BY <1>0, <3>1, <4>1, ExceptSeq
    <3>2. CASE k \notin 1 .. Len(written)
      <4>1. [written EXCEPT ![k] = written[k] + 1] = written
        BY <1>0, <3>2
      <4>. QED BY <1>0, <4>1
    <3>. QED BY <3>1, <3>2
  <2>3. frame' \in Slot /\ written' \in Seq(Nat) /\ Len(written') = Len(written)
    BY <1>0, <1>4, <2>1, <2>2 DEF Dispatch, lineVars
  <2>. QED BY <1>4, <2>1, <2>3 DEF Dispatch, Goto, TypeOK, HoldsSlot, history
<1>5. CASE userClearValidUartTxBufIndex
  <2>. DEFINE i == sender.index
  <2>1. i \in Slots /\ 0 \in RequestNum
    BY DEF TypeOK, RequestNum
  <2>2. /\ [uartTXCmd EXCEPT ![i].cmdValid = 0] \in [Slots -> Slot]
        /\ [uartTXCmd EXCEPT ![i].dstAddr = 0] \in [Slots -> Slot]
        /\ [uartTXCmd EXCEPT ![i].dstEp = 0] \in [Slots -> Slot]
        /\ [uartTXCmd EXCEPT ![i].inCmd = 0] \in [Slots -> Slot]
    BY <1>0, <2>1 DEF Slot
  <2>3. uartTXCmd' \in [Slots -> Slot]
    BY <1>5, <2>2 DEF userClearValidUartTxBufIndex, ClearField
  <2>. QED BY <1>5, <2>1, <2>3 DEF userClearValidUartTxBufIndex, ClearField, Goto, TypeOK,
                                   HoldsSlot, Clearing, lineVars, history
<1>6. CASE UNCHANGED vars
  BY <1>6 DEF vars, TypeOK, HoldsSlot
<1>. QED
  BY <1>1, <1>2, <1>3, <1>4, <1>5, <1>6 DEF Next, SenderThread, Fill

LEMMA HoldsInit == Init => HoldsSlot
  BY DEF Init, HoldsSlot, Idle

\* Every interleaving of fills and of the sender thread keeps the types of TypeOK.
THEOREM TypeCorrect == Spec => []TypeOK
  BY TypeInit, HoldsInit, TypeStep, PTL DEF Spec

-----------------------------------------------------------------------------
(* No command is written twice *)

BeforeCmd == {"addr", "ep", "cmd"}

\* A thread fills for a request of its own.
OwnReq ==
  /\ \A p \in Producers : producer[p].at # "idle" => producer[p].req \in 1 .. Len(requests)
  /\ \A p, q \in Producers :
       /\ producer[p].at # "idle" /\ producer[q].at # "idle"
       /\ producer[p].req = producer[q].req
       => p = q

InRange == \A i \in Slots : uartTXCmd[i].inCmd \in 0 .. Len(requests)

\* Until its inCmd is stored a request is in no slot and has not been written.
NotStored ==
  \A p \in Producers : producer[p].at \in BeforeCmd =>
    /\ written[producer[p].req] = 0
    /\ \A i \in Slots : uartTXCmd[i].inCmd # producer[p].req

InOneSlot ==
  \A i, j \in Slots : uartTXCmd[i].inCmd # 0 /\ uartTXCmd[i].inCmd = uartTXCmd[j].inCmd => i = j

\* What is in a slot has not been written, but for the slot being cleared.
SentSlot(i) == sender.index = i /\ sender.at \in {"clearValid"} \cup Clearing

Unwritten ==
  \A i \in Slots : uartTXCmd[i].inCmd # 0 => written[uartTXCmd[i].inCmd] = 0 \/ SentSlot(i)

SlotInv == OwnReq /\ InRange /\ NotStored /\ InOneSlot /\ Unwritten /\ AtMostOnce

LEMMA SlotInit == Init => SlotInv
  BY DEF Init, Idle, EmptySlot, SlotInv, OwnReq, InRange, NotStored, BeforeCmd, InOneSlot,
         Unwritten, AtMostOnce

\* A step that keeps the inCmd of every slot and the requests, and after which threads
\* fill for the requests they filled for before.
LEMMA SlotKept ==
  ASSUME TypeOK, SlotInv, requests' = requests, written' = written,
         \A i \in Slots : uartTXCmd'[i].inCmd = uartTXCmd[i].inCmd,
         \A i \in Slots : SentSlot(i) => SentSlot(i)',
         \A p \in Producers : producer'[p].at # "idle" =>
           /\ producer[p].at # "idle" /\ producer'[p].req = producer[p].req
           /\ producer'[p].at \in BeforeCmd => producer[p].at \in BeforeCmd
  PROVE  SlotInv'
<1>1. OwnReq'
  BY DEF SlotInv, OwnReq
<1>2. InRange'
  BY DEF SlotInv, InRange
<1>3. NotStored'
  <2>. SUFFICES ASSUME NEW p \in Producers, producer'[p].at \in BeforeCmd
                PROVE  /\ written'[producer'[p].req] = 0
                       /\ \A i \in Slots : uartTXCmd'[i].inCmd # producer'[p].req
    BY DEF NotStored
  <2>1. producer'[p].at # "idle"
    BY DEF BeforeCmd
  <2>. QED BY <2>1 DEF SlotInv, NotStored
<1>4. InOneSlot'
  BY DEF SlotInv, InOneSlot
<1>5. Unwritten'
  BY DEF SlotInv, Unwritten
<1>6. AtMostOnce'
  BY DEF SlotInv, AtMostOnce
<1>. QED BY <1>1, <1>2, <1>3, <1>4, <1>5, <1>6 DEF SlotInv

LEMMA SlotTake ==
  ASSUME TypeOK, SlotInv, NEW p \in Producers, TakeSlot(p)
  PROVE  SlotInv'
<1>. DEFINE N == Len(requests)
<1>1. /\ N \in Nat /\ Len(requests') = N + 1 /\ Len(written) = N /\ Len(written') = N + 1
      /\ \A r \in 1 .. N : written'[r] = written[r]
      /\ written'[N + 1] = 0
  BY DEF TypeOK, TakeSlot
<1>2. /\ producer'[p].at = "addr" /\ producer'[p].req = N + 1 /\ producer[p].at = "idle"
      /\ \A q \in Producers \ {p} : producer'[q] = producer[q]
  BY DEF TakeSlot, TypeOK
<1>3. uartTXCmd' = uartTXCmd /\ sender' = sender
  BY DEF TakeSlot
<1>4. OwnReq'
  BY <1>1, <1>2 DEF SlotInv, OwnReq
<1>5. InRange'
  BY <1>1, <1>3 DEF SlotInv, InRange
<1>6. NotStored'
  <2>. SUFFICES ASSUME NEW q \in Producers, producer'[q].at \in BeforeCmd
                PROVE  /\ written'[producer'[q].req] = 0
                       /\ \A i \in Slots : uartTXCmd'[i].inCmd # producer'[q].req
    BY DEF NotStored
  <2>1. CASE q = p
    BY <1>1, <1>2, <1>3, <2>1 DEF SlotInv, InRange
  <2>2. CASE q # p
    <3>1. producer[q].at # "idle" /\ producer'[q] = producer[q]
      BY <1>2, <2>2 DEF BeforeCmd
    <3>. QED BY <1>1, <1>3, <3>1 DEF SlotInv, OwnReq, NotStored
  <2>. QED BY <2>1, <2>2
<1>7. InOneSlot'
  BY <1>3 DEF SlotInv, InOneSlot
<1>8. Unwritten'
  BY <1>1, <1>3 DEF SlotInv, Unwritten, InRange, SentSlot
<1>9. AtMostOnce'
  BY <1>1 DEF SlotInv, AtMostOnce
<1>. QED BY <1>4, <1>5, <1>6, <1>7, <1>8, <1>9 DEF SlotInv

LEMMA SlotStoreCmd ==
  ASSUME TypeOK, HoldsSlot, SlotInv, NEW p \in Producers, StoreCmd(p)
  PROVE  SlotInv'
<1>. DEFINE r == producer[p].req
            i == producer[p].slot
<1>1. i \in Slots /\ producer[p].at = "cmd" /\ r \in 1 .. Len(requests)
  BY DEF StoreCmd, Store, HoldsSlot, SlotInv, OwnReq
<1>2. /\ producer'[p].at = "valid" /\ producer'[p].req = r
      /\ \A q \in Producers \ {p} : producer'[q] = producer[q]
  BY DEF StoreCmd, Store, At, TypeOK
<1>3. /\ uartTXCmd'[i].inCmd = r
      /\ \A j \in Slots \ {i} : uartTXCmd'[j] = uartTXCmd[j]
  BY <1>1 DEF StoreCmd, Store, TypeOK, Slot
<1>4. requests' = requests /\ written' = written /\ sender' = sender
  BY DEF StoreCmd, Store, lineVars
<1>5. written[r] = 0 /\ \A j \in Slots : uartTXCmd[j].inCmd # r
  BY <1>1 DEF SlotInv, NotStored, BeforeCmd
<1>6. OwnReq'
  BY <1>1, <1>2, <1>4 DEF SlotInv, OwnReq
<1>7. InRange'
  BY <1>1, <1>3, <1>4 DEF SlotInv, InRange
<1>8. NotStored'
  <2>. SUFFICES ASSUME NEW q \in Producers, producer'[q].at \in BeforeCmd
                PROVE  /\ written'[producer'[q].req] = 0
                       /\ \A j \in Slots : uartTXCmd'[j].inCmd # producer'[q].req
    BY DEF NotStored
  <2>1. q # p /\ producer'[q] = producer[q] /\ producer[q].at # "idle"
    BY <1>2 DEF BeforeCmd
  <2>2. producer[q].req # r
    BY <1>1, <2>1 DEF SlotInv, OwnReq
  <2>. QED BY <1>3, <1>4, <2>1, <2>2 DEF SlotInv, NotStored
<1>9. InOneSlot'
  BY <1>3, <1>5 DEF SlotInv, InOneSlot
<1>10. Unwritten'
  BY <1>3, <1>4, <1>5 DEF SlotInv, Unwritten, SentSlot
<1>11. AtMostOnce'
  BY <1>4 DEF SlotInv, AtMostOnce
<1>. QED BY <1>6, <1>7, <1>8, <1>9, <1>10, <1>11 DEF SlotInv

LEMMA SlotDispatch ==
  ASSUME TypeOK, SlotInv, Dispatch
  PROVE  SlotInv'
<1>. DEFINE i == sender.index
            r == uartTXCmd[i].inCmd
<1>1. /\ i \in Slots /\ sender.at = "dispatch" /\ r \in 0 .. Len(requests)
      /\ sender' = [at |-> "clearValid", index |-> i]
      /\ UNCHANGED <<uartTXCmd, requests, producer>>
  BY DEF TypeOK, Dispatch, Goto, SlotInv, InRange
<1>2. \A j \in Slots : SentSlot(j)' <=> j = i
  BY <1>1 DEF SentSlot
<1>3. CASE written' = written
  <2>1. \A j \in Slots : SentSlot(j) => SentSlot(j)'
    BY <1>1 DEF SentSlot, Clearing
  <2>. QED BY <1>1, <1>3, <2>1, SlotKept
<1>4. CASE r # 0 /\ written' = [written EXCEPT ![r] = @ + 1]
  <2>1. written[r] = 0
    BY <1>1, <1>4 DEF SlotInv, Unwritten, SentSlot, Clearing
  <2>2. /\ Len(written') = Len(written) /\ written \in Seq(Nat)
        /\ r \in 1 .. Len(written) /\ written'[r] = 1
        /\ \A k \in 1 .. Len(written) : k # r => written'[k] = written[k]
    BY <1>1, <1>4, <2>1 DEF TypeOK
  <2>3. OwnReq' /\ InRange' /\ InOneSlot'
    BY <1>1 DEF SlotInv, OwnReq, InRange, InOneSlot
  <2>4. NotStored'
    <3>. SUFFICES ASSUME NEW q \in Producers, producer[q].at \in BeforeCmd
                  PROVE  /\ written'[producer[q].req] = 0
                         /\ \A j \in Slots : uartTXCmd[j].inCmd # producer[q].req
      BY <1>1 DEF NotStored
    <3>1. producer[q].req \in 1 .. Len(written) /\ producer[q].req # r
      BY <1>1 DEF SlotInv, NotStored, OwnReq, BeforeCmd, TypeOK
    <3>. QED BY <2>2, <3>1 DEF SlotInv, NotStored
  <2>5. Unwritten'
    <3>. SUFFICES ASSUME NEW j \in Slots, uartTXCmd[j].inCmd # 0, j # i
                  PROVE  written'[uartTXCmd[j].inCmd] = 0
      BY <1>1, <1>2 DEF Unwritten
    <3>1. uartTXCmd[j].inCmd \in 1 .. Len(written) /\ uartTXCmd[j].inCmd # r
      BY <1>1 DEF SlotInv, InRange, InOneSlot, TypeOK
    <3>2. written[uartTXCmd[j].inCmd] = 0
      BY <1>1 DEF SlotInv, Unwritten, SentSlot, Clearing
    <3>. QED BY <2>2, <3>1, <3>2
  <2>6. AtMostOnce'
    BY <2>2 DEF SlotInv, AtMostOnce
  <2>. QED BY <2>3, <2>4, <2>5, <2>6 DEF SlotInv
<1>. QED BY <1>3, <1>4 DEF Dispatch, lineVars

\* The clearing empties the slot of the command just written, and no other.
LEMMA SlotClear ==
  ASSUME TypeOK, SlotInv, userClearValidUartTxBufIndex
  PROVE  SlotInv'
<1>. DEFINE i == sender.index
<1>1. i \in Slots /\ UNCHANGED <<requests, producer, written>> /\ uartTXCmd \in [Slots -> Slot]
  BY DEF TypeOK, userClearValidUartTxBufIndex, ClearField, lineVars
<1>2. CASE sender.at = "clearCmd"
  <2>1. /\ uartTXCmd'[i].inCmd = 0
        /\ \A j \in Slots \ {i} : uartTXCmd'[j] = uartTXCmd[j]
    BY <1>1, <1>2 DEF userClearValidUartTxBufIndex, ClearField, Slot
  <2>2. OwnReq'
    BY <1>1 DEF SlotInv, OwnReq
  <2>3. InRange'
    <3>1. Len(requests) \in Nat
      BY DEF TypeOK
    <3>. QED BY <1>1, <2>1, <3>1 DEF SlotInv, InRange
  <2>4. NotStored'
    BY <1>1, <2>1 DEF SlotInv, NotStored, OwnReq, BeforeCmd
  <2>5. InOneSlot'
    BY <1>1, <2>1 DEF SlotInv, InOneSlot
  <2>6. Unwritten'
    BY <1>1, <2>1 DEF SlotInv, Unwritten, SentSlot
  <2>7. AtMostOnce'
    BY <1>1 DEF SlotInv, AtMostOnce
  <2>. QED BY <2>2, <2>3, <2>4, <2>5, <2>6, <2>7 DEF SlotInv
<1>3. CASE sender.at # "clearCmd"
  <2>1. \A j \in Slots : uartTXCmd'[j].inCmd = uartTXCmd[j].inCmd
    BY <1>1, <1>3 DEF userClearValidUartTxBufIndex, ClearField, Slot
  <2>2. sender'.index = i /\ sender'.at \in Clearing
    BY <1>3 DEF userClearValidUartTxBufIndex, ClearField, Goto, Clearing
  <2>3. \A j \in Slots : SentSlot(j) => SentSlot(j)'
    BY <2>2 DEF SentSlot
  <2>. QED BY <1>1, <2>1, <2>3, SlotKept
<1>. QED BY <1>2, <1>3

LEMMA SlotStep == TypeOK /\ HoldsSlot /\ SlotInv /\ [Next]_vars => SlotInv'
<1>. SUFFICES ASSUME TypeOK, HoldsSlot, SlotInv, [Next]_vars PROVE SlotInv'
  OBVIOUS
<1>1. ASSUME NEW p \in Producers,
             StoreAddr(p) \/ StoreEp(p) \/ StoreValid(p) \/ StorePayload(p)
      PROVE  SlotInv'
  <2>1. producer[p].at # "idle" /\ producer[p].slot \in Slots /\ producer \in [Producers -> Place]
    BY <1>1 DEF StoreAddr, StoreEp, StoreValid, StorePayload, Store, HoldsSlot, TypeOK, Place
  <2>2. \A i \in Slots : uartTXCmd'[i].inCmd = uartTXCmd[i].inCmd
    <3>1. CASE StoreAddr(p)
      BY <2>1, <3>1 DEF StoreAddr, Store, TypeOK, Slot
    <3>2. CASE StoreEp(p)
      BY <2>1, <3>2 DEF StoreEp, Store, TypeOK, Slot
    <3>3. CASE StoreValid(p)
      BY <2>1, <3>3 DEF StoreValid, Store, TypeOK, Slot
    <3>4. CASE StorePayload(p)
      BY <2>1, <3>4 DEF StorePayload, Store, TypeOK, Slot
    <3>. QED BY <1>1, <3>1, <3>2, <3>3, <3>4
  <2>3. requests' = requests /\ written' = written /\ sender' = sender
    BY <1>1 DEF StoreAddr, StoreEp, StoreValid, StorePayload, Store, lineVars
  <2>4. /\ producer'[p].at # "idle" => producer'[p].req = producer[p].req
        /\ producer'[p].at \in BeforeCmd => producer[p].at \in BeforeCmd
        /\ \A q \in Producers \ {p} : producer'[q] = producer[q]
    BY <1>1, <2>1 DEF StoreAddr, StoreEp, StoreValid, StorePayload, Store, At, AfterValid,
                      Idle, BeforeCmd, Place
  <2>5. \A q \in Producers : producer'[q].at # "idle" =>
          /\ producer[q].at # "idle" /\ producer'[q].req = producer[q].req
          /\ producer'[q].at \in BeforeCmd => producer[q].at \in BeforeCmd
    BY <2>1, <2>4
  <2>. QED BY <2>2, <2>3, <2>5, SlotKept DEF SentSlot
<1>2. CASE BeginPass \/ FindValid
  <2>1. \A i \in Slots : SentSlot(i) => SentSlot(i)'
    BY <1>2 DEF BeginPass, FindValid, SentSlot, Clearing
  <2>2. UNCHANGED <<uartTXCmd, requests, producer, written>>
    BY <1>2 DEF BeginPass, FindValid, lineVars
  <2>. QED BY <2>1, <2>2, SlotKept
<1>3. CASE UNCHANGED vars
  BY <1>3, SlotKept DEF vars, SentSlot
<1>. QED
  BY <1>1, <1>2, <1>3, SlotTake, SlotStoreCmd, SlotDispatch, SlotClear
     DEF Next, SenderThread, Fill

\* However fills and clearing interleave, no command is written twice: its number is in
\* one slot only, and that slot is cleared before the sender looks for the next.
THEOREM WrittenAtMostOnce == Spec => []AtMostOnce
<1>1. SlotInv => AtMostOnce
  BY DEF SlotInv
<1>. QED BY TypeInit, HoldsInit, SlotInit, TypeStep, SlotStep, <1>1, PTL DEF Spec

-----------------------------------------------------------------------------
(* What a slot holds while no two fills overlap in it *)

BeforeValid == BeforeCmd \cup {"valid"}

\* Two threads hold different slots; an idle thread holds none.
Exclusive ==
  /\ \A p \in Producers : producer[p].at = "idle" => producer[p] = Idle
  /\ \A p, q \in Producers :
       /\ producer[p].at # "idle" /\ producer[q].at # "idle"
       /\ producer[p].slot = producer[q].slot
       => p = q

\* The slot of a fill that has not stored cmdValid is free and not the sender's.
FillApart ==
  \A p \in Producers : producer[p].at \in BeforeValid =>
    /\ uartTXCmd[producer[p].slot].cmdValid = 0
    /\ ~(sender.index = producer[p].slot
         /\ sender.at \in {"dispatch", "clearValid"} \cup Clearing)

\* What the fill has stored so far is its own.
FillStored ==
  \A p \in Producers :
    LET slot == uartTXCmd[producer[p].slot] IN
    /\ producer[p].at \in {"ep", "cmd", "valid"} => slot.dstAddr = producer[p].req
    /\ producer[p].at \in {"cmd", "valid"} => slot.dstEp = producer[p].req
    /\ producer[p].at = "valid" => slot.inCmd = producer[p].req

\* A valid slot holds one command, whole.
ValidWhole ==
  \A i \in Slots : uartTXCmd[i].cmdValid = 1 =>
    /\ uartTXCmd[i].inCmd # 0
    /\ uartTXCmd[i].dstAddr = uartTXCmd[i].inCmd
    /\ uartTXCmd[i].dstEp = uartTXCmd[i].inCmd

\* The slot of the sender is valid until it is cleared, and cleared when written.
SenderSlot ==
  LET slot == uartTXCmd[sender.index] IN
  /\ sender.at \in {"dispatch", "clearValid"} => slot.cmdValid = 1
  /\ sender.at \in Clearing => slot.cmdValid = 0
  /\ sender.at = "clearValid" => written[slot.inCmd] = 1

FrameWhole == frame.dstAddr = frame.inCmd /\ frame.dstEp = frame.inCmd

NoneLost == \A r \in 1 .. Len(requests) : Stored(r) => Pending(r) \/ written[r] = 1

Apart ==
  /\ Exclusive /\ FillApart /\ FillStored /\ ValidWhole /\ SenderSlot /\ FrameWhole
  /\ NoneLost

Separate == shared = 0 /\ clash = 0

ApartInv == Separate => Apart

LEMMA ApartInit == Init => ApartInv
  BY DEF Init, Idle, EmptySlot, ApartInv, Apart, Exclusive, FillApart, FillStored, ValidWhole,
         SenderSlot, FrameWhole, NoneLost, BeforeValid, BeforeCmd, Clearing

\* A call of a filling function that leaves the fills apart found a free slot which no
\* other thread holds and which is not being cleared.
LEMMA ApartTake ==
  ASSUME TypeOK, HoldsSlot, SlotInv, Apart, NEW p \in Producers, TakeSlot(p), Separate'
  PROVE  Apart'
<1>. DEFINE i == userFindFreeTxBufIndex
            N == Len(requests)
<1>1. /\ N \in Nat /\ Len(requests') = N + 1 /\ Len(written) = N /\ Len(written') = N + 1
      /\ \A r \in 1 .. N : written'[r] = written[r]
  BY DEF TypeOK, TakeSlot
<1>2. i \in Slots /\ uartTXCmd[i].cmdValid = 0
  <2>. DEFINE S == {j \in Slots : uartTXCmd[j].cmdValid = 0}
  <2>1. i = FirstSlot(S) /\ i # NoIndex
    BY DEF TakeSlot, userFindFreeTxBufIndex
  <2>. QED BY <2>1, FirstSlotFound
<1>3. /\ producer'[p] = [at |-> "addr", slot |-> i, req |-> N + 1] /\ producer[p].at = "idle"
      /\ \A q \in Producers \ {p} : producer'[q] = producer[q]
  BY DEF TakeSlot, TypeOK
<1>4. uartTXCmd' = uartTXCmd /\ sender' = sender /\ frame' = frame
  BY DEF TakeSlot
<1>5. /\ \A q \in Producers : producer[q].slot # i
      /\ ~(sender.at \in Clearing /\ sender.index = i)
  BY DEF TakeSlot, Separate
<1>6. Exclusive'
  <2>1. \A q \in Producers : producer'[q].at = "idle" => producer'[q] = Idle
    BY <1>3 DEF Apart, Exclusive
  <2>2. \A q \in Producers \ {p} : producer'[q].slot # i
    BY <1>3, <1>5
  <2>. QED BY <1>3, <2>1, <2>2 DEF Apart, Exclusive
<1>7. FillApart'
  <2>. SUFFICES ASSUME NEW q \in Producers, producer'[q].at \in BeforeValid
                PROVE  /\ uartTXCmd'[producer'[q].slot].cmdValid = 0
                       /\ ~(sender'.index = producer'[q].slot
                            /\ sender'.at \in {"dispatch", "clearValid"} \cup Clearing)
    BY DEF FillApart
  <2>1. CASE q = p
    BY <1>2, <1>3, <1>4, <1>5, <2>1 DEF Apart, SenderSlot
  <2>2. CASE q # p
    BY <1>3, <1>4, <2>2 DEF Apart, FillApart
  <2>. QED BY <2>1, <2>2
<1>8. FillStored'
  BY <1>3, <1>4 DEF Apart, FillStored
<1>9. ValidWhole' /\ FrameWhole'
  BY <1>4 DEF Apart, ValidWhole, FrameWhole
<1>10. SenderSlot'
  <2>1. sender.index \in Slots
    BY DEF TypeOK
  <2>2. sender.at = "clearValid" => uartTXCmd[sender.index].inCmd \in 1 .. N
    BY <2>1 DEF Apart, SenderSlot, ValidWhole, SlotInv, InRange
  <2>. QED BY <1>1, <1>4, <2>2 DEF Apart, SenderSlot
<1>11. NoneLost'
  <2>. SUFFICES ASSUME NEW r \in 1 .. N + 1, Stored(r)'
                PROVE  Pending(r)' \/ written'[r] = 1
    BY <1>1 DEF NoneLost
  <2>1. r # N + 1
    BY <1>3 DEF Stored
  <2>2. Stored(r)
    BY <1>1, <1>3, <2>1 DEF Stored
  <2>3. Pending(r) => Pending(r)'
    BY <1>4 DEF Pending
  <2>. QED BY <1>1, <2>1, <2>2, <2>3 DEF Apart, NoneLost
<1>. QED BY <1>6, <1>7, <1>8, <1>9, <1>10, <1>11 DEF Apart

\* A store of the header touches a free slot only, so nothing valid changes.
LEMMA ApartHeader ==
  ASSUME TypeOK, HoldsSlot, Apart, NEW p \in Producers, StoreAddr(p) \/ StoreEp(p) \/ StoreCmd(p)
  PROVE  Apart'
<1>. DEFINE i == producer[p].slot
            r == producer[p].req
<1>1. /\ i \in Slots /\ producer[p].at \in BeforeCmd /\ uartTXCmd[i].cmdValid = 0
      /\ ~(sender.index = i /\ sender.at \in {"dispatch", "clearValid"} \cup Clearing)
  <2>1. producer[p].at \in BeforeCmd
    BY DEF StoreAddr, StoreEp, StoreCmd, Store, BeforeCmd
  <2>. QED BY <2>1 DEF HoldsSlot, Apart, FillApart, BeforeValid, BeforeCmd
<1>2. /\ uartTXCmd'[i].cmdValid = 0
      /\ \A j \in Slots \ {i} : uartTXCmd'[j] = uartTXCmd[j]
  <2>1. CASE StoreAddr(p)
    BY <1>1, <2>1 DEF StoreAddr, Store, TypeOK, Slot
  <2>2. CASE StoreEp(p)
    BY <1>1, <2>2 DEF StoreEp, Store, TypeOK, Slot
  <2>3. CASE StoreCmd(p)
    BY <1>1, <2>3 DEF StoreCmd, Store, TypeOK, Slot
  <2>. QED BY <2>1, <2>2, <2>3
<1>3. /\ producer'[p].at \in {"ep", "cmd", "valid"} /\ producer'[p].slot = i
      /\ producer'[p].req = r
      /\ \A q \in Producers \ {p} : producer'[q] = producer[q]
  BY DEF StoreAddr, StoreEp, StoreCmd, Store, At, TypeOK
<1>4. UNCHANGED <<requests, sender, frame, written>>
  BY DEF StoreAddr, StoreEp, StoreCmd, Store, lineVars
<1>5. Exclusive'
  BY <1>1, <1>3 DEF Apart, Exclusive, BeforeCmd
<1>6. \A q \in Producers \ {p} : producer[q].at # "idle" =>
        producer[q].slot \in Slots /\ producer[q].slot # i
  BY <1>1 DEF Apart, Exclusive, HoldsSlot, BeforeCmd
<1>7. FillApart'
  <2>. SUFFICES ASSUME NEW q \in Producers, producer'[q].at \in BeforeValid
                PROVE  /\ uartTXCmd'[producer'[q].slot].cmdValid = 0
                       /\ ~(sender'.index = producer'[q].slot
                            /\ sender'.at \in {"dispatch", "clearValid"} \cup Clearing)
    BY DEF FillApart
  <2>1. CASE q = p
    BY <1>1, <1>2, <1>3, <1>4, <2>1
  <2>2. CASE q # p
    <3>1. producer'[q] = producer[q] /\ producer[q].at # "idle"
      BY <1>3, <2>2 DEF BeforeValid, BeforeCmd
    <3>. QED BY <1>2, <1>4, <1>6, <2>2, <3>1 DEF Apart, FillApart
  <2>. QED BY <2>1, <2>2
<1>8. FillStored'
  <2>1. \A q \in Producers \ {p} : producer[q].at # "idle" =>
          uartTXCmd'[producer[q].slot] = uartTXCmd[producer[q].slot]
    BY <1>2, <1>6
  <2>2. /\ producer'[p].at \in {"ep", "cmd", "valid"} => uartTXCmd'[i].dstAddr = r
        /\ producer'[p].at \in {"cmd", "valid"} => uartTXCmd'[i].dstEp = r
        /\ producer'[p].at = "valid" => uartTXCmd'[i].inCmd = r
    <3>1. CASE StoreAddr(p)
      BY <1>1, <3>1 DEF StoreAddr, Store, At, TypeOK, Slot
    <3>2. CASE StoreEp(p)
      BY <1>1, <3>2 DEF StoreEp, Store, At, TypeOK, Slot, Apart, FillStored
    <3>3. CASE StoreCmd(p)
      BY <1>1, <3>3 DEF StoreCmd, Store, At, TypeOK, Slot, Apart, FillStored
    <3>. QED BY <3>1, <3>2, <3>3
  <2>. SUFFICES ASSUME NEW q \in Producers
                PROVE  /\ producer'[q].at \in {"ep", "cmd", "valid"} =>
                            uartTXCmd'[producer'[q].slot].dstAddr = producer'[q].req
                       /\ producer'[q].at \in {"cmd", "valid"} =>
                            uartTXCmd'[producer'[q].slot].dstEp = producer'[q].req
                       /\ producer'[q].at = "valid" =>
                            uartTXCmd'[producer'[q].slot].inCmd = producer'[q].req
    BY DEF FillStored
  <2>3. CASE q = p
    BY <1>3, <2>2, <2>3
  <2>4. CASE q # p
    BY <1>3, <2>1, <2>4 DEF Apart, FillStored
  <2>. QED BY <2>3, <2>4
<1>9. ValidWhole' /\ FrameWhole'
  BY <1>2, <1>4 DEF Apart, ValidWhole, FrameWhole
<1>10. SenderSlot'
  <2>1. CASE sender.at \in {"dispatch", "clearValid"} \cup Clearing
    <3>1. sender.index \in Slots \ {i}
      BY <1>1, <2>1 DEF TypeOK
    <3>. QED BY <1>2, <1>4, <3>1 DEF Apart, SenderSlot
  <2>2. CASE sender.at \notin {"dispatch", "clearValid"} \cup Clearing
    BY <1>4, <2>2 DEF SenderSlot
  <2>. QED BY <2>1, <2>2
<1>11. NoneLost'
  <2>. SUFFICES ASSUME NEW k \in 1 .. Len(requests), Stored(k)'
                PROVE  Pending(k)' \/ written[k] = 1
    BY <1>4 DEF NoneLost
  <2>1. Stored(k)
    <3>1. r # k
      BY <1>3 DEF Stored
    <3>. QED BY <1>3, <3>1 DEF Stored
  <2>2. Pending(k) => Pending(k)'
    <3>. SUFFICES ASSUME NEW j \in Slots, uartTXCmd[j].cmdValid = 1, uartTXCmd[j].inCmd = k
                  PROVE  Pending(k)'
      BY DEF Pending
    <3>1. uartTXCmd'[j] = uartTXCmd[j]
      BY <1>1, <1>2
    <3>. QED BY <3>1 DEF Pending
  <2>. QED BY <2>1, <2>2 DEF Apart, NoneLost
<1>. QED BY <1>5, <1>7, <1>8, <1>9, <1>10, <1>11 DEF Apart

\* cmdValid makes the command pending: the header under it is the command's own.
LEMMA ApartValid ==
  ASSUME TypeOK, HoldsSlot, SlotInv, Apart, NEW p \in Producers, StoreValid(p)
  PROVE  Apart'
<1>. DEFINE i == producer[p].slot
            r == producer[p].req
<1>1. /\ i \in Slots /\ producer[p].at = "valid" /\ r \in 1 .. Len(requests)
      /\ ~(sender.index = i /\ sender.at \in {"dispatch", "clearValid"} \cup Clearing)
  BY DEF StoreValid, Store, HoldsSlot, SlotInv, OwnReq, Apart, FillApart, BeforeValid
<1>2. /\ uartTXCmd'[i].cmdValid = 1 /\ uartTXCmd'[i].inCmd = r
      /\ uartTXCmd'[i].dstAddr = r /\ uartTXCmd'[i].dstEp = r
      /\ \A j \in Slots \ {i} : uartTXCmd'[j] = uartTXCmd[j]
      /\ \A j \in Slots : uartTXCmd[j].cmdValid = 1 => uartTXCmd'[j] = uartTXCmd[j]
    <2>1. /\ uartTXCmd[i].inCmd = r /\ uartTXCmd[i].dstAddr = r /\ uartTXCmd[i].dstEp = r
          /\ uartTXCmd[i].cmdValid = 0
      BY <1>1 DEF Apart, FillStored, FillApart, BeforeValid
    <2>. QED BY <1>1, <2>1 DEF StoreValid, Store, TypeOK, Slot
<1>3. /\ producer'[p] \in {At(p, "payload"), Idle}
      /\ \A q \in Producers \ {p} : producer'[q] = producer[q]
  BY DEF StoreValid, Store, AfterValid, TypeOK
<1>4. UNCHANGED <<requests, sender, frame, written>>
  BY DEF StoreValid, Store, lineVars
<1>5. /\ producer'[p].at \in {"payload", "idle"}
      /\ producer'[p].at = "idle" => producer'[p] = Idle
      /\ producer'[p].at # "idle" => producer'[p].slot = i
  BY <1>3 DEF At, Idle, TypeOK
<1>6. Exclusive'
  BY <1>1, <1>3, <1>5 DEF Apart, Exclusive
<1>7. \A q \in Producers \ {p} : producer[q].at # "idle" =>
        producer[q].slot \in Slots /\ producer[q].slot # i
  BY <1>1 DEF Apart, Exclusive, HoldsSlot
<1>8. FillApart'
  <2>. SUFFICES ASSUME NEW q \in Producers, producer'[q].at \in BeforeValid
                PROVE  /\ uartTXCmd'[producer'[q].slot].cmdValid = 0
                       /\ ~(sender'.index = producer'[q].slot
                            /\ sender'.at \in {"dispatch", "clearValid"} \cup Clearing)
    BY DEF FillApart
  <2>1. q # p /\ producer'[q] = producer[q] /\ producer[q].at # "idle"
    BY <1>3, <1>5 DEF BeforeValid, BeforeCmd
  <2>. QED BY <1>2, <1>4, <1>7, <2>1 DEF Apart, FillApart
<1>9. FillStored'
  <2>. SUFFICES ASSUME NEW q \in Producers, producer'[q].at \in {"ep", "cmd", "valid"}
                PROVE  /\ uartTXCmd'[producer'[q].slot].dstAddr = producer'[q].req
                       /\ producer'[q].at \in {"cmd", "valid"} =>
                            uartTXCmd'[producer'[q].slot].dstEp = producer'[q].req
                       /\ producer'[q].at = "valid" =>
                            uartTXCmd'[producer'[q].slot].inCmd = producer'[q].req
    BY DEF FillStored
  <2>1. q # p /\ producer'[q] = producer[q] /\ producer[q].at # "idle"
    BY <1>3, <1>5
  <2>. QED BY <1>2, <1>7, <2>1 DEF Apart, FillStored
<1>10. ValidWhole' /\ FrameWhole'
  BY <1>1, <1>2, <1>4 DEF Apart, ValidWhole, FrameWhole
<1>11. SenderSlot'
  <2>1. CASE sender.at \in {"dispatch", "clearValid"} \cup Clearing
    <3>1. sender.index \in Slots \ {i}
      BY <1>1, <2>1 DEF TypeOK
    <3>. QED BY <1>2, <1>4, <3>1 DEF Apart, SenderSlot
  <2>2. CASE sender.at \notin {"dispatch", "clearValid"} \cup Clearing
    BY <1>4, <2>2 DEF SenderSlot
  <2>. QED BY <2>1, <2>2
<1>12. NoneLost'
  <2>. SUFFICES ASSUME NEW k \in 1 .. Len(requests), Stored(k)'
                PROVE  Pending(k)' \/ written[k] = 1
    BY <1>4 DEF NoneLost
  <2>1. CASE k = r
    BY <1>1, <1>2, <2>1 DEF Pending
  <2>2. CASE k # r
    <3>1. Stored(k)
      BY <1>3, <2>2 DEF Stored
    <3>2. Pending(k) => Pending(k)'
      BY <1>2 DEF Pending
    <3>. QED BY <3>1, <3>2 DEF Apart, NoneLost
  <2>. QED BY <2>1, <2>2
<1>. QED BY <1>6, <1>8, <1>9, <1>10, <1>11, <1>12 DEF Apart

LEMMA ApartPayload ==
  ASSUME TypeOK, HoldsSlot, Apart, NEW p \in Producers, StorePayload(p)
  PROVE  Apart'
<1>1. producer[p].at = "payload" /\ producer[p].slot \in Slots
  BY DEF StorePayload, Store, HoldsSlot
<1>2. \A j \in Slots : /\ uartTXCmd'[j].cmdValid = uartTXCmd[j].cmdValid
                       /\ uartTXCmd'[j].dstAddr = uartTXCmd[j].dstAddr
                       /\ uartTXCmd'[j].dstEp = uartTXCmd[j].dstEp
                       /\ uartTXCmd'[j].inCmd = uartTXCmd[j].inCmd
  BY <1>1 DEF StorePayload, Store, TypeOK, Slot
<1>3. /\ producer'[p] = Idle
      /\ \A q \in Producers \ {p} : producer'[q] = producer[q]
      /\ UNCHANGED <<requests, sender, frame, written>>
  BY DEF StorePayload, Store, TypeOK, lineVars
<1>4. Idle.at = "idle"
  BY DEF Idle
<1>5. Exclusive'
  BY <1>3, <1>4 DEF Apart, Exclusive
<1>6. \A q \in Producers : producer'[q].at # "idle" =>
        producer'[q] = producer[q] /\ producer[q].slot \in Slots
  BY <1>3, <1>4 DEF HoldsSlot
<1>7. FillApart'
  BY <1>2, <1>3, <1>6 DEF Apart, FillApart, BeforeValid, BeforeCmd
<1>8. FillStored'
  BY <1>2, <1>6 DEF Apart, FillStored
<1>9. ValidWhole' /\ FrameWhole'
  BY <1>2, <1>3 DEF Apart, ValidWhole, FrameWhole
<1>10. SenderSlot'
  BY <1>2, <1>3 DEF Apart, SenderSlot, TypeOK
<1>11. NoneLost'
  <2>. SUFFICES ASSUME NEW k \in 1 .. Len(requests), Stored(k)'
                PROVE  Pending(k)' \/ written[k] = 1
    BY <1>3 DEF NoneLost
  <2>1. Stored(k)
    BY <1>1, <1>3 DEF Stored
  <2>2. Pending(k) => Pending(k)'
    BY <1>2 DEF Pending
  <2>. QED BY <2>1, <2>2 DEF Apart, NoneLost
<1>. QED BY <1>5, <1>7, <1>8, <1>9, <1>10, <1>11 DEF Apart

\* The sender goes to a valid slot; no fill before cmdValid holds it.
LEMMA ApartFind ==
  ASSUME TypeOK, HoldsSlot, Apart, BeginPass \/ FindValid
  PROVE  Apart'
<1>1. UNCHANGED <<uartTXCmd, requests, producer, frame, written>>
  BY DEF BeginPass, FindValid, lineVars
<1>2. \/ sender'.at \in {"idle", "find"}
      \/ /\ sender'.at = "dispatch" /\ sender'.index \in Slots
         /\ uartTXCmd[sender'.index].cmdValid = 1
  <2>1. CASE BeginPass
    BY <2>1 DEF BeginPass, Goto
  <2>2. CASE FindValid
    <3>. DEFINE S == {j \in Slots : j >= sender.index /\ uartTXCmd[j].cmdValid = 1}
                i == FirstSlot(S)
    <3>1. i = NoIndex \/ i \in S
      BY FirstSlotFound
    <3>2. CASE i = NoIndex
      BY <2>2, <3>2 DEF FindValid, Goto
    <3>3. CASE i # NoIndex
      <4>1. sender' = [at |-> "dispatch", index |-> i]
        BY <2>2, <3>3 DEF FindValid, Goto
      <4>. QED BY <3>1, <3>3, <4>1
    <3>. QED BY <3>2, <3>3
  <2>. QED BY <2>1, <2>2
<1>3. FillApart'
  <2>. SUFFICES ASSUME NEW q \in Producers, producer[q].at \in BeforeValid
                PROVE  /\ uartTXCmd[producer[q].slot].cmdValid = 0
                       /\ ~(sender'.index = producer[q].slot
                            /\ sender'.at \in {"dispatch", "clearValid"} \cup Clearing)
    BY <1>1 DEF FillApart
  <2>. QED BY <1>2 DEF Apart, FillApart, Clearing
<1>4. SenderSlot'
  BY <1>1, <1>2 DEF SenderSlot, Clearing
<1>5. Exclusive' /\ FillStored' /\ ValidWhole' /\ FrameWhole'
  BY <1>1 DEF Apart, Exclusive, FillStored, ValidWhole, FrameWhole
<1>6. NoneLost'
  BY <1>1 DEF Apart, NoneLost, Stored, Pending
<1>. QED BY <1>3, <1>4, <1>5, <1>6 DEF Apart

\* uartTxDataCmdDeal has a case for every command the filling functions store, so a
\* valid slot is always written.
LEMMA ApartDispatch ==
  ASSUME TypeOK, SlotInv, Apart, Dispatch
  PROVE  Apart'
<1>. DEFINE i == sender.index
            r == uartTXCmd[i].inCmd
<1>1. i \in Slots /\ sender.at = "dispatch" /\ uartTXCmd[i].cmdValid = 1 /\ r \in 1 .. Len(requests)
  BY DEF TypeOK, Dispatch, Apart, SenderSlot, ValidWhole, SlotInv, InRange
<1>2. requests[r].cmd \in Dispatched
  <2>1. requests[r] \in AllFills
    BY <1>1, SizesAssumption DEF TypeOK
  <2>2. \A f \in AllFills : f.cmd \in Dispatched
    <3>1. \A f \in ZcFills \cup SensorFills : f.cmd \in Dispatched
      BY DEF ZcFills, SensorFills, Dispatched, Bare, Loaded
    <3>2. \A f \in MotorFills \cup LightFills : f.cmd \in Dispatched
      BY DEF MotorFills, LightFills, Dispatched, Bare, Loaded
    <3>3. \A f \in AttrFills \cup {HeartFill} : f.cmd \in Dispatched
      BY DEF AttrFills, HeartFill, Dispatched, Bare, Loaded
    <3>. QED BY <3>1, <3>2, <3>3 DEF AllFills
  <2>. QED BY <2>1, <2>2
<1>3. /\ frame' = uartTXCmd[i] /\ written' = [written EXCEPT ![r] = @ + 1]
      /\ sender' = [at |-> "clearValid", index |-> i]
      /\ UNCHANGED <<uartTXCmd, requests, producer>>
  BY <1>1, <1>2 DEF Dispatch, Goto
<1>4. /\ written'[r] = 1 /\ Len(written) = Len(requests) /\ written \in Seq(Nat)
      /\ \A k \in 1 .. Len(requests) : k # r => written'[k] = written[k]
  <2>1. written[r] = 0
    BY <1>1 DEF SlotInv, Unwritten, SentSlot, Clearing
  <2>. QED BY <1>1, <1>3, <2>1 DEF TypeOK
<1>5. Exclusive' /\ FillStored' /\ ValidWhole'
  BY <1>3 DEF Apart, Exclusive, FillStored, ValidWhole
<1>6. FillApart'
  BY <1>1, <1>3 DEF Apart, FillApart, Clearing
<1>7. SenderSlot' /\ FrameWhole'
  BY <1>1, <1>3, <1>4 DEF Apart, SenderSlot, ValidWhole, FrameWhole, Clearing
<1>8. NoneLost'
  <2>. SUFFICES ASSUME NEW k \in 1 .. Len(requests), Stored(k)'
                PROVE  Pending(k)' \/ written'[k] = 1
    BY <1>3 DEF NoneLost
  <2>1. Stored(k) /\ (Pending(k) => Pending(k)')
    BY <1>3 DEF Stored, Pending
  <2>. QED BY <1>4, <2>1 DEF Apart, NoneLost
<1>. QED BY <1>5, <1>6, <1>7, <1>8 DEF Apart

\* The command cleared has been written, and no fill has a header in the slot.
LEMMA ApartClear ==
  ASSUME TypeOK, HoldsSlot, Apart, userClearValidUartTxBufIndex
  PROVE  Apart'
<1>. DEFINE i == sender.index
<1>1. /\ i \in Slots /\ UNCHANGED <<requests, producer, written, frame>>
      /\ sender.at \in {"clearValid"} \cup Clearing
      /\ uartTXCmd \in [Slots -> Slot]
  BY DEF TypeOK, userClearValidUartTxBufIndex, ClearField, lineVars, Clearing
<1>2. /\ uartTXCmd'[i].cmdValid = 0
      /\ \A j \in Slots \ {i} : uartTXCmd'[j] = uartTXCmd[j]
  <2>1. CASE sender.at = "clearValid"
    BY <1>1, <2>1 DEF userClearValidUartTxBufIndex, ClearField, Slot
  <2>2. CASE sender.at \in Clearing
    <3>1. uartTXCmd[i].cmdValid = 0
      BY <2>2 DEF Apart, SenderSlot
    <3>. QED BY <1>1, <2>2, <3>1 DEF userClearValidUartTxBufIndex, ClearField, Slot, Clearing
  <2>. QED BY <1>1, <2>1, <2>2
<1>3. sender'.at \in Clearing \cup {"find"} /\ sender'.index = i
  BY DEF userClearValidUartTxBufIndex, ClearField, Goto, Clearing
<1>4. \A q \in Producers : producer[q].at \in BeforeValid =>
        producer[q].slot \in Slots /\ producer[q].slot # i
  BY <1>1 DEF Apart, FillApart, HoldsSlot, BeforeValid, BeforeCmd
<1>5. Exclusive' /\ FrameWhole'
  BY <1>1 DEF Apart, Exclusive, FrameWhole
<1>6. FillApart'
  BY <1>1, <1>2, <1>3, <1>4 DEF Apart, FillApart
<1>7. FillStored'
  BY <1>1, <1>2, <1>4 DEF Apart, FillStored, BeforeValid, BeforeCmd
<1>8. ValidWhole'
  BY <1>2 DEF Apart, ValidWhole
<1>9. SenderSlot'
  BY <1>2, <1>3 DEF SenderSlot, Clearing
<1>10. NoneLost'
  <2>. SUFFICES ASSUME NEW k \in 1 .. Len(requests), Stored(k)'
                PROVE  Pending(k)' \/ written[k] = 1
    BY <1>1 DEF NoneLost
  <2>1. Stored(k)
    BY <1>1 DEF Stored
  <2>2. CASE written[k] = 1
    BY <2>2
  <2>3. CASE written[k] # 1
    <3>1. PICK j \in Slots : uartTXCmd[j].cmdValid = 1 /\ uartTXCmd[j].inCmd = k
      BY <2>1, <2>3 DEF Apart, NoneLost, Pending
    <3>2. j # i
      BY <1>1, <2>3, <3>1 DEF Apart, SenderSlot
    <3>. QED BY <1>2, <3>1, <3>2 DEF Pending
  <2>. QED BY <2>2, <2>3
<1>. QED BY <1>5, <1>6, <1>7, <1>8, <1>9, <1>10 DEF Apart

LEMMA ApartStep == TypeOK /\ HoldsSlot /\ SlotInv /\ ApartInv /\ [Next]_vars => ApartInv'
<1>. SUFFICES ASSUME TypeOK, HoldsSlot, SlotInv, ApartInv, [Next]_vars, Separate'
              PROVE  Apart'
  BY DEF ApartInv
<1>1. ASSUME NEW p \in Producers, TakeSlot(p)
      PROVE  Apart'
  <2>1. Separate
    BY <1>1 DEF TakeSlot, Separate, TypeOK
  <2>. QED BY <1>1, <2>1, ApartTake DEF ApartInv
<1>2. CASE ~\E p \in Producers : TakeSlot(p)
  <2>1. UNCHANGED history
    BY <1>2 DEF Next, SenderThread, Fill, BeginPass, FindValid, Dispatch,
                userClearValidUartTxBufIndex, ClearField, StoreAddr, StoreEp, StoreCmd,
                StoreValid, StorePayload, Store, vars, history
  <2>2. Apart
    BY <2>1 DEF ApartInv, Separate, history
  <2>3. CASE UNCHANGED vars
    BY <2>2, <2>3 DEF vars, Apart, Exclusive, FillApart, FillStored, ValidWhole, SenderSlot,
                      FrameWhole, NoneLost, Stored, Pending
  <2>. QED
    BY <1>2, <2>2, <2>3, ApartHeader, ApartValid, ApartPayload, ApartFind, ApartDispatch,
       ApartClear DEF Next, SenderThread, Fill
<1>. QED BY <1>1, <1>2

LEMMA ApartAlways == Spec => []ApartInv
  BY TypeInit, HoldsInit, SlotInit, ApartInit, TypeStep, SlotStep, ApartStep, PTL DEF Spec

\* A frame goes to the address and end point of its command unless two fills have held
\* one slot or a slot was taken while it was being cleared.
THEOREM HeaderAlwaysWhole == Spec => []HeaderWhole
<1>1. ApartInv => HeaderWhole
  BY DEF ApartInv, Separate, Apart, FrameWhole, HeaderWhole
<1>. QED BY <1>1, ApartAlways, PTL

\* Under the same condition every command stored is written or still waits to be.
THEOREM LossNeedsOverlap == Spec => []LostOnlyByOverlap
<1>1. ApartInv => LostOnlyByOverlap
  BY DEF ApartInv, Separate, Apart, NoneLost, LostOnlyByOverlap
<1>. QED BY <1>1, ApartAlways, PTL

-----------------------------------------------------------------------------
(* The buffer in the loop *)

LEMMA FillStepFills ==
  ASSUME NEW p \in Producers, FillStep(p)
  PROVE  Next
<1>1. Fill(p)
  BY DEF FillStep, Fill
<1>. QED BY <1>1 DEF Next

\* Each step of the loop is a step of the buffer or leaves the buffer alone.
LEMMA StepIsTxQueue == [GatewayNext]_gatewayVars => [Next]_vars
<1>1. StartPass \/ Pass => SenderThread
  BY DEF StartPass, Pass, SenderThread
<1>2. Beat => Fill("sender")
  BY DEF Beat, Fill
<1>3. TestFlag \/ HeartDone \/ Monitor \/ Control \/ ControlSweep => UNCHANGED vars
  BY DEF TestFlag, HeartDone, Monitor, Control, ControlSweep
<1>4. StartUpgrade \/ EndUpgrade => UNCHANGED vars
  BY DEF StartUpgrade, EndUpgrade
<1>5. UNCHANGED gatewayVars => UNCHANGED vars
  BY DEF gatewayVars
<1>. QED
  BY <1>1, <1>2, <1>3, <1>4, <1>5, FillStepFills, LoopAssumption
     DEF GatewayNext, SenderTurn, Next

\* The buffer in this loop, heart beats and upgrades included, is the buffer of TxQueue.
THEOREM BufferIsTxQueue == GatewaySpec => Spec
<1>1. GatewayInit => Init
  BY DEF GatewayInit
<1>. QED BY <1>1, StepIsTxQueue, PTL DEF GatewaySpec, Spec

\* What is proved of TxQueue therefore holds here: the types, that no command is written
\* twice, and that headers are mixed and commands lost by overlapping fills only.
THEOREM BufferSafe == GatewaySpec => [](TypeOK /\ AtMostOnce /\ HeaderWhole /\ LostOnlyByOverlap)
  BY BufferIsTxQueue, TypeCorrect, WrittenAtMostOnce, HeaderAlwaysWhole, LossNeedsOverlap, PTL

-----------------------------------------------------------------------------
(* Types and the places of the sender thread *)

LEMMA LoopTypesInit == GatewayInit => LoopTypes
  BY LoopAssumption DEF GatewayInit, LoopTypes, Init, Idle

LEMMA FillStepTypes ==
  ASSUME TypeOK, LoopTypes, NEW p \in Producers, FillStep(p),
         p = "sender" => loop = "beating"
  PROVE  LoopTypes'
<1>1. UNCHANGED <<sender, devOtaUpdateingFlag, loop, monitorTime, controlAckTime, upgrades, stray>>
  BY DEF FillStep, otaVars, loopVars, TakeSlot, StoreAddr, StoreEp, StoreCmd, StoreValid,
         StorePayload, Store
<1>2. p # "sender" => producer'["sender"] = producer["sender"]
  BY LoopAssumption DEF TypeOK, FillStep, TakeSlot, StoreAddr, StoreEp, StoreCmd, StoreValid,
                        StorePayload, Store
<1>3. refilled' \in Nat
  BY DEF FillStep, LoopTypes
<1>. QED BY <1>1, <1>2, <1>3 DEF LoopTypes

LEMMA LoopTypesStep ==
  TypeOK /\ TypeOK' /\ LoopTypes /\ [GatewayNext]_gatewayVars => LoopTypes'
<1>. SUFFICES ASSUME TypeOK, TypeOK', LoopTypes, [GatewayNext]_gatewayVars
              PROVE  LoopTypes'
  OBVIOUS
<1>. USE LoopAssumption
<1>1. CASE TestFlag
  BY <1>1 DEF TestFlag, LoopTypes, vars, otaVars, strayVars
<1>2. CASE StartPass
  BY <1>2 DEF StartPass, BeginPass, Goto, LoopTypes, otaVars, strayVars
<1>3. CASE Pass
  <2>1. producer' = producer
    BY <1>3 DEF Pass, FindValid, Dispatch, userClearValidUartTxBufIndex, ClearField
  <2>2. IF sender'.at = "idle" THEN AfterPass ELSE UNCHANGED <<loop, monitorTime>>
    BY <1>3 DEF Pass
  <2>3. stray' \in Nat /\ loop = "pass" /\ UNCHANGED <<otaVars, controlAckTime, refilled>>
    BY <1>3 DEF Pass, LoopTypes
  <2>4. CASE sender'.at = "idle"
    BY <2>1, <2>2, <2>3, <2>4 DEF AfterPass, LoopTypes, otaVars
  <2>5. CASE sender'.at # "idle"
    BY <2>1, <2>2, <2>3, <2>5 DEF LoopTypes, otaVars
  <2>. QED BY <2>4, <2>5
<1>4. CASE Beat
  BY <1>4 DEF Beat, TakeSlot, LoopTypes, otaVars, strayVars
<1>5. CASE HeartDone
  BY <1>5 DEF HeartDone, LoopTypes, vars, otaVars, strayVars
<1>6. CASE Monitor
  BY <1>6 DEF Monitor, LoopTypes, vars, otaVars, strayVars
<1>7. CASE Control
  <2>1. (controlAckTime + 1) % ControlWrap \in 0 .. ControlWrap - 1
    BY DivMod DEF LoopTypes
  <2>. QED BY <1>7, <2>1 DEF Control, LoopTypes, vars, otaVars, strayVars
<1>8. CASE ControlSweep
  BY <1>8 DEF ControlSweep, LoopTypes, vars, otaVars, strayVars
<1>9. CASE StartUpgrade
  BY <1>9 DEF StartUpgrade, LoopTypes, vars, loopVars, strayVars
<1>10. CASE EndUpgrade
  BY <1>10 DEF EndUpgrade, LoopTypes, vars, loopVars
<1>11. CASE UNCHANGED gatewayVars
  BY <1>11 DEF gatewayVars, LoopTypes, vars, otaVars, loopVars, strayVars
<1>12. CASE loop = "beating" /\ FillStep("sender")
  BY <1>12, FillStepTypes
<1>13. CASE \E p \in Producers \ {"sender"} : FillStep(p)
  BY <1>13, FillStepTypes
<1>. QED
  BY <1>1, <1>2, <1>3, <1>4, <1>5, <1>6, <1>7, <1>8, <1>9, <1>10, <1>11, <1>12, <1>13
     DEF GatewayNext, SenderTurn

\* The types of the buffer and the loop, that a pass of the buffer is made in the pass of a turn only,
\* and that the sender thread fills a slot in its heart beat only.
THEOREM GatewayTypes == GatewaySpec => []GatewayTypeOK
<1>1. GatewaySpec => []TypeOK
  BY BufferSafe, PTL
<1>2. GatewaySpec => []LoopTypes
  BY <1>1, LoopTypesInit, LoopTypesStep, PTL DEF GatewaySpec
<1>3. TypeOK /\ LoopTypes => GatewayTypeOK
  BY DEF GatewayTypeOK
<1>. QED BY <1>1, <1>2, <1>3, PTL

-----------------------------------------------------------------------------
(* Commands written into an upgrade *)

Valid == {i \in Slots : uartTXCmd[i].cmdValid = 1}

\* The slot whose command has been written and which is still valid.
Done == IF sender.at = "clearValid" THEN {sender.index} ELSE {}

\* The slots whose commands a pass may still write.
Writable == Valid \ Done

HeldBack == devOtaUpdateingFlag = 0 => stray = 0 /\ refilled = 0

DispatchedValid == sender.at = "dispatch" => uartTXCmd[sender.index].cmdValid = 1

TurnBounded ==
  devOtaUpdateingFlag = 1 /\ loop # "top" => stray + Cardinality(Writable) <= SlotNum + refilled

StrayInv == HeldBack /\ DispatchedValid /\ TurnBounded /\ StrayBounded

LEMMA WritableSize ==
  /\ IsFiniteSet(Writable)
  /\ Cardinality(Writable) \in Nat
  /\ Cardinality(Writable) <= SlotNum
<1>1. IsFiniteSet(Slots) /\ Cardinality(Slots) = SlotNum
  BY SizesAssumption, FS_Interval DEF Slots
<1>2. Writable \in SUBSET Slots
  BY DEF Writable, Valid
<1>. QED BY <1>1, <1>2, FS_Subset, FS_CardinalityType

LEMMA StrayInit == GatewayInit => StrayInv
  BY SizesAssumption DEF GatewayInit, Init, StrayInv, HeldBack, DispatchedValid, TurnBounded,
                         StrayBounded

\* A store in another field leaves the slots valid or not as they are.
LEMMA OtherFields ==
  ASSUME TypeOK, NEW i, NEW v,
         \/ uartTXCmd' = uartTXCmd
         \/ uartTXCmd' = [uartTXCmd EXCEPT ![i].dstAddr = v]
         \/ uartTXCmd' = [uartTXCmd EXCEPT ![i].dstEp = v]
         \/ uartTXCmd' = [uartTXCmd EXCEPT ![i].inCmd = v]
         \/ uartTXCmd' = [uartTXCmd EXCEPT ![i].inPayload = v]
  PROVE  \A j \in Slots : uartTXCmd'[j].cmdValid = uartTXCmd[j].cmdValid
<1>1. uartTXCmd \in [Slots -> Slot]
  BY DEF TypeOK
<1>2. CASE uartTXCmd' = [uartTXCmd EXCEPT ![i].dstAddr = v]
  BY <1>1, <1>2 DEF Slot
<1>3. CASE uartTXCmd' = [uartTXCmd EXCEPT ![i].dstEp = v]
  BY <1>1, <1>3 DEF Slot
<1>4. CASE uartTXCmd' = [uartTXCmd EXCEPT ![i].inCmd = v]
  BY <1>1, <1>4 DEF Slot
<1>5. CASE uartTXCmd' = [uartTXCmd EXCEPT ![i].inPayload = v]
  BY <1>1, <1>5 DEF Slot
<1>. QED BY <1>2, <1>3, <1>4, <1>5

\* A step that leaves the buffer alone, counts nothing and starts no turn.
LEMMA StrayQuiet ==
  ASSUME StrayInv, UNCHANGED <<uartTXCmd, sender, devOtaUpdateingFlag, stray, refilled>>,
         loop' # "top" => loop # "top" \/ devOtaUpdateingFlag = 0
  PROVE  StrayInv'
<1>1. Writable' = Writable
  BY DEF Writable, Valid, Done
<1>. QED BY <1>1 DEF StrayInv, HeldBack, DispatchedValid, TurnBounded, StrayBounded

\* A store of a filling function makes one slot writable at most, and is counted then.
LEMMA StrayFill ==
  ASSUME TypeOK, HoldsSlot, LoopTypes, StrayInv, NEW p \in Producers, FillStep(p)
  PROVE  StrayInv'
<1>1. UNCHANGED <<sender, devOtaUpdateingFlag, loop, stray>>
  BY DEF FillStep, otaVars, loopVars, TakeSlot, StoreAddr, StoreEp, StoreCmd, StoreValid,
         StorePayload, Store
<1>2. CASE producer[p].at = "valid"
  <2>. DEFINE s == producer[p].slot
  <2>1. s \in Slots /\ uartTXCmd' = [uartTXCmd EXCEPT ![s].cmdValid = 1]
    BY <1>2 DEF HoldsSlot, FillStep, TakeSlot, StoreAddr, StoreEp, StoreCmd, StoreValid,
                StorePayload, Store
  <2>2. Valid' = Valid \cup {s}
    BY <2>1 DEF Valid, TypeOK, Slot
  <2>3. Done' = Done
    BY <1>1 DEF Done
  <2>4. Writable' \in SUBSET (Writable \cup {s})
    BY <2>2, <2>3 DEF Writable
  <2>5. /\ IsFiniteSet(Writable \cup {s})
        /\ Cardinality(Writable \cup {s}) \in Nat
        /\ Cardinality(Writable \cup {s}) <= Cardinality(Writable) + 1
    <3>1. /\ IsFiniteSet(Writable \cup {s})
          /\ Cardinality(Writable \cup {s})
               = IF s \in Writable THEN Cardinality(Writable) ELSE Cardinality(Writable) + 1
      BY WritableSize, FS_AddElement
    <3>. HIDE DEF s
    <3>. QED BY <3>1, WritableSize
  <2>6. Cardinality(Writable') \in Nat /\ Cardinality(Writable') <= Cardinality(Writable) + 1
    <3>1. IsFiniteSet(Writable') /\ Cardinality(Writable') <= Cardinality(Writable \cup {s})
      BY <2>4, <2>5, FS_Subset
    <3>. QED BY <2>5, <3>1, WritableSize, FS_CardinalityType
  <2>7. refilled' = IF devOtaUpdateingFlag = 1 /\ loop # "top" THEN refilled + 1 ELSE refilled
    BY <1>2 DEF FillStep
  <2>8. DispatchedValid'
    BY <1>1, <2>1 DEF StrayInv, DispatchedValid, TypeOK, Slot
  <2>9. HeldBack' /\ TurnBounded' /\ StrayBounded'
    BY <1>1, <2>6, <2>7, WritableSize, SizesAssumption
       DEF StrayInv, HeldBack, TurnBounded, StrayBounded, LoopTypes
  <2>. QED BY <2>8, <2>9 DEF StrayInv
<1>3. CASE producer[p].at # "valid"
  <2>1. refilled' = refilled
    BY <1>3 DEF FillStep
  <2>2. \A i \in Slots : uartTXCmd'[i].cmdValid = uartTXCmd[i].cmdValid
    <3>. DEFINE s == producer[p].slot
                v == producer[p].req
    <3>1. \/ uartTXCmd' = uartTXCmd
          \/ uartTXCmd' = [uartTXCmd EXCEPT ![s].dstAddr = v]
          \/ uartTXCmd' = [uartTXCmd EXCEPT ![s].dstEp = v]
          \/ uartTXCmd' = [uartTXCmd EXCEPT ![s].inCmd = v]
          \/ uartTXCmd' = [uartTXCmd EXCEPT ![s].inPayload = v]
      BY <1>3 DEF FillStep, TakeSlot, StoreAddr, StoreEp, StoreCmd, StoreValid, StorePayload, Store
    <3>. HIDE DEF s, v
    <3>. QED BY <3>1, OtherFields
  <2>3. Writable' = Writable
    BY <1>1, <2>2 DEF Writable, Valid, Done
  <2>4. DispatchedValid'
    BY <1>1, <2>2 DEF StrayInv, DispatchedValid, TypeOK
  <2>. QED BY <1>1, <2>1, <2>3, <2>4 DEF StrayInv, HeldBack, TurnBounded, StrayBounded
<1>. QED BY <1>2, <1>3

\* A step of a pass writes a writable slot, which then is not writable any more.
LEMMA StrayPass ==
  ASSUME TypeOK, LoopTypes, StrayInv, Pass
  PROVE  StrayInv'
<1>1. loop = "pass" /\ UNCHANGED <<devOtaUpdateingFlag, refilled>>
  BY DEF Pass, otaVars
<1>2. ASSUME written' = written, DispatchedValid', Writable' = Writable
      PROVE  StrayInv'
  <2>1. stray' = stray
    BY <1>2 DEF Pass
  <2>. QED BY <1>1, <1>2, <2>1 DEF StrayInv, HeldBack, TurnBounded, StrayBounded
<1>3. CASE FindValid
  <2>. DEFINE S == {j \in Slots : j >= sender.index /\ uartTXCmd[j].cmdValid = 1}
  <2>1. (S = {} /\ FirstSlot(S) = NoIndex) \/ (S # {} /\ FirstSlot(S) \in S)
    BY FirstSlotFound
  <2>2. uartTXCmd' = uartTXCmd /\ written' = written /\ sender.at = "find"
    BY <1>3 DEF FindValid, lineVars
  <2>3. IF FirstSlot(S) = NoIndex THEN sender'.at = "idle"
        ELSE sender'.at = "dispatch" /\ sender'.index = FirstSlot(S)
    BY <1>3 DEF FindValid, Goto
  <2>4. DispatchedValid'
    BY <2>1, <2>2, <2>3 DEF DispatchedValid
  <2>5. Writable' = Writable
    BY <2>2, <2>3 DEF Writable, Valid, Done
  <2>. QED BY <1>2, <2>2, <2>4, <2>5
<1>4. CASE Dispatch
  <2>. DEFINE i == sender.index
  <2>1. /\ sender.at = "dispatch" /\ uartTXCmd' = uartTXCmd
        /\ sender'.at = "clearValid" /\ sender'.index = i
    BY <1>4 DEF Dispatch, Goto
  <2>2. i \in Writable
    BY <2>1 DEF StrayInv, DispatchedValid, Writable, Valid, Done, TypeOK
  <2>3. Writable' = Writable \ {i}
    BY <2>1 DEF Writable, Valid, Done
  <2>4. Cardinality(Writable') = Cardinality(Writable) - 1
    BY <2>2, <2>3, WritableSize, FS_RemoveElement
  <2>5. stray' \in {stray, stray + 1} /\ (devOtaUpdateingFlag # 1 => stray' = stray)
    BY DEF Pass
  <2>6. Cardinality(Writable') \in Nat
    BY <2>3, WritableSize, FS_RemoveElement, FS_CardinalityType
  <2>. QED
    BY <1>1, <2>1, <2>4, <2>5, <2>6, WritableSize, SizesAssumption
       DEF StrayInv, HeldBack, DispatchedValid, TurnBounded, StrayBounded, LoopTypes
<1>5. CASE userClearValidUartTxBufIndex
  <2>1. written' = written
    BY <1>5 DEF userClearValidUartTxBufIndex, ClearField, lineVars
  <2>2. sender'.at \notin {"dispatch", "clearValid"}
    BY <1>5 DEF userClearValidUartTxBufIndex, ClearField, Goto
  <2>3. CASE sender.at = "clearValid"
    <3>1. uartTXCmd' = [uartTXCmd EXCEPT ![sender.index].cmdValid = 0]
      BY <1>5, <2>3 DEF userClearValidUartTxBufIndex, ClearField
    <3>2. Valid' = Valid \ {sender.index}
      BY <3>1 DEF Valid, TypeOK, Slot
    <3>. QED BY <1>2, <2>1, <2>2, <2>3, <3>2 DEF DispatchedValid, Writable, Done
  <2>4. CASE sender.at # "clearValid"
    <3>1. \A j \in Slots : uartTXCmd'[j].cmdValid = uartTXCmd[j].cmdValid
      BY <1>5, <2>4, OtherFields DEF userClearValidUartTxBufIndex, ClearField
    <3>. QED BY <1>2, <2>1, <2>2, <2>4, <3>1 DEF DispatchedValid, Writable, Valid, Done
  <2>. QED BY <2>3, <2>4
<1>. QED BY <1>3, <1>4, <1>5 DEF Pass

LEMMA StrayStep ==
  TypeOK /\ HoldsSlot /\ LoopTypes /\ StrayInv /\ [GatewayNext]_gatewayVars => StrayInv'
<1>. SUFFICES ASSUME TypeOK, HoldsSlot, LoopTypes, StrayInv, [GatewayNext]_gatewayVars
              PROVE  StrayInv'
  OBVIOUS
<1>1. CASE TestFlag
  BY <1>1, StrayQuiet DEF TestFlag, vars, otaVars, strayVars
<1>2. CASE StartPass
  <2>1. /\ UNCHANGED <<uartTXCmd, devOtaUpdateingFlag, stray, refilled>>
        /\ sender.at = "idle" /\ sender'.at = "find" /\ loop = "tested"
    BY <1>2 DEF StartPass, BeginPass, Goto, otaVars, strayVars
  <2>2. Writable' = Writable
    BY <2>1 DEF Writable, Valid, Done
  <2>. QED BY <2>1, <2>2 DEF StrayInv, HeldBack, DispatchedValid, TurnBounded, StrayBounded
<1>3. CASE Beat
  BY <1>3, StrayQuiet DEF Beat, TakeSlot, otaVars, strayVars
<1>4. CASE HeartDone \/ Monitor \/ Control \/ ControlSweep
  BY <1>4, StrayQuiet DEF HeartDone, Monitor, Control, ControlSweep, vars, otaVars, strayVars
<1>5. CASE StartUpgrade
  <2>1. /\ UNCHANGED <<uartTXCmd, sender, stray, refilled>>
        /\ devOtaUpdateingFlag = 0 /\ devOtaUpdateingFlag' = 1
    BY <1>5 DEF StartUpgrade, vars, loopVars, strayVars
  <2>2. Writable' = Writable
    BY <2>1 DEF Writable, Valid, Done
  <2>. QED
    BY <2>1, <2>2, WritableSize, SizesAssumption
       DEF StrayInv, HeldBack, DispatchedValid, TurnBounded, StrayBounded
<1>6. CASE EndUpgrade
  <2>1. /\ UNCHANGED <<uartTXCmd, sender>>
        /\ devOtaUpdateingFlag' = 0 /\ stray' = 0 /\ refilled' = 0
    BY <1>6 DEF EndUpgrade, vars
  <2>. QED
    BY <2>1, SizesAssumption DEF StrayInv, HeldBack, DispatchedValid, TurnBounded, StrayBounded
<1>7. CASE UNCHANGED gatewayVars
  BY <1>7, StrayQuiet DEF gatewayVars, vars, otaVars, loopVars, strayVars
<1>. QED
  BY <1>1, <1>2, <1>3, <1>4, <1>5, <1>6, <1>7, StrayPass, StrayFill, LoopAssumption
     DEF GatewayNext, SenderTurn

\* However many upgrades start in the middle of a turn, no more commands are written into
\* one of them than there are slots, and slots made valid while that turn was under way.
THEOREM StrayAlwaysBounded == GatewaySpec => []StrayBounded
<1>1. GatewaySpec => [](TypeOK /\ HoldsSlot /\ LoopTypes)
  <2>1. Spec => [](TypeOK /\ HoldsSlot)
    BY TypeInit, HoldsInit, TypeStep, PTL DEF Spec
  <2>2. GatewayTypeOK => LoopTypes
    BY DEF GatewayTypeOK
  <2>. QED BY <2>1, <2>2, BufferIsTxQueue, GatewayTypes, PTL
<1>2. GatewaySpec => []StrayInv
  BY <1>1, StrayInit, StrayStep, PTL DEF GatewaySpec
<1>3. StrayInv => StrayBounded
  BY DEF StrayInv
<1>. QED BY <1>2, <1>3, PTL
=============================================================================
