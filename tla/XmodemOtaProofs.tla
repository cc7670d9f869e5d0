-------------------------- MODULE XmodemOtaProofs --------------------------
(***************************************************************************)
(* Proofs about XmodemOta, for every image size, counter width, retry and  *)
(* time-out limit: the types, that a record carries the block its counter  *)
(* names, that the ZC accepts the blocks of an image in order through      *)
(* every wrap of the counter, that the first image is recorded as          *)
(* installed only once it is, that no call leaves a ZC in the middle of an *)
(* upload, and that the upgrade implements ImageTransfer.                  *)
(*                                                                         *)
(* HandleInv ties the locals of userXmodemTransport to the position in the *)
(* file; AcceptedFaithful carries RecordsFaithful over to the ZC; OrderInv *)
(* keeps the records under way, the frame buffer and the last block the ZC *)
(* has kept less than a round of the counter apart; NoWordOfSuccess is     *)
(* where the news of the first success can be; MidInv says what the ZC and *)
(* the line hold at each stage of an upload.                               *)
(***************************************************************************)
EXTENDS XmodemRefines, NumberFacts, SequenceTheorems, TLAPS

InCall == otaPc \in {"switch", "sentRecord", "sentEOT"}

\* In a call that opened the file itself the packet counter, the file position,
\* the frame buffer and the remaining size all name the same block.
HandleInv ==
  reused = 0 =>
    /\ fp \in {"none", "own"}
    /\ InCall =>
         /\ openFileFlag = 1 <=> fp = "own"
         /\ xfer.pack = xfer.real % PackMod
         /\ fp = "none" => xfer.real = 0 /\ xfer.frame = 0 /\ xfer.endFlag = 0
         /\ fp = "own" => otaStationInfo.devImageSize = NumBlocks
         /\ fp = "own" /\ xfer.endFlag = 0 =>
              /\ xfer.real <= NumBlocks
              /\ filePos = xfer.real
              /\ xfer.frame = xfer.real
              /\ xfer.remain = NumBlocks - xfer.real
         /\ fp = "own" /\ xfer.endFlag = 1 => xfer.remain <= 0

\* Every block the ZC accepted sits at a place its counter could not tell from
\* its own.
AcceptedFaithful ==
  /\ Len(zc.got) <= NumBlocks
  /\ reused = 0 => \A i \in 1 .. Len(zc.got) : zc.got[i] % PackMod = i % PackMod

-----------------------------------------------------------------------------
(* What is put on a line *)

LEMMA PutType ==
  ASSUME NEW S, NEW line \in Seq(S), NEW m \in S
  PROVE  Put(line, m) \in Seq(S)
  BY DEF Put

\* A message under way after a write is an old one or the one written.
LEMMA PutElements ==
  ASSUME NEW S, NEW line \in Seq(S), NEW m \in S, NEW i \in 1 .. Len(Put(line, m))
  PROVE  \/ i \in 1 .. Len(line) /\ Put(line, m)[i] = line[i]
         \/ Put(line, m)[i] = m
  BY DEF Put

LEMMA InsistType ==
  ASSUME NEW S, NEW line \in Seq(S), NEW m \in S
  PROVE  Insist(line, m) \in Seq(S)
  BY SizesAssumption DEF Insist

LEMMA InsistElements ==
  ASSUME NEW S, NEW line \in Seq(S), NEW m \in S, NEW i \in 1 .. Len(Insist(line, m))
  PROVE  \/ i \in 1 .. Len(line) /\ Insist(line, m)[i] = line[i]
         \/ Insist(line, m)[i] = m
  BY SizesAssumption DEF Insist

LEMMA MessageTypes ==
  /\ \A k \in {"EOT", "CAN", "r"} : Byte(k) \in ToZcMsg
  /\ \A n \in 0 .. PackMod - 1, b \in 0 .. NumBlocks : RecordOf(n, b) \in ToZcMsg
  BY DEF Byte, RecordOf, ToZcMsg, Record

-----------------------------------------------------------------------------
(* Types *)

\* The record of the board's station and what is stored in it.
InfoOf(sizes) ==
  [firmwareValid : {1, 255}, devUpdateNeedFlag : {0, 1, 255}, devImageSize : sizes,
   needDownloadImageFromCloud : {0, 1, 255}]

LEMMA InfoStores ==
  ASSUME NEW sizes, NEW info \in InfoOf(sizes), NEW size \in sizes, NEW n \in {0, 1}
  PROVE  /\ [info EXCEPT !.needDownloadImageFromCloud = n] \in InfoOf(sizes)
         /\ [info EXCEPT !.firmwareValid = 1, !.devImageSize = size] \in InfoOf(sizes)
<1>1. [info EXCEPT !.needDownloadImageFromCloud = n] \in InfoOf(sizes)
  BY DEF InfoOf
<1>2. [info EXCEPT !.firmwareValid = 1, !.devImageSize = size] \in InfoOf(sizes)
  BY DEF InfoOf
<1>. QED BY <1>1, <1>2

LEMMA TypeInit == Init => TypeOK
<1>. SUFFICES ASSUME Init PROVE TypeOK
  OBVIOUS
<1>1. SharedTypes
  BY BoardsAssumption DEF Init, SharedTypes, Station
<1>2. LocalsType
  BY SizesAssumption DEF Init, LocalsType, NoLocals
<1>3. ThreadTypes
  BY SizesAssumption, BoardsAssumption DEF Init, ThreadTypes
<1>4. ExternalTypes
  <2>1. toZc \in Seq(ToZcMsg) /\ toGw \in Seq(ToGwMsg)
    BY DEF Init
  <2>2. zc \in [mode : {"app", "boot", "erased", "done"}, got : Seq(0 .. NumBlocks)]
    BY DEF Init
  <2>3. installed \in {0, 1} /\ offers \in 0 .. MaxOffers + 1
    BY SizesAssumption DEF Init
  <2>. QED BY <2>1, <2>2, <2>3 DEF ExternalTypes
<1>. QED BY <1>1, <1>2, <1>3, <1>4 DEF TypeOK

LEMMA NextTypes ==
  ASSUME TypeOK
  PROVE  /\ NextPack \in 0 .. PackMod - 1
         /\ NextBlock \in 0 .. NumBlocks
         /\ Left \in Int /\ ImageSize \in {NumBlocks, -1} /\ Position \in 0 .. NumBlocks
         /\ NextMessage \in ToZcMsg
<1>. USE DEF TypeOK
<1>1. NextPack \in 0 .. PackMod - 1
  <2>1. xfer.pack + 1 \in Int
    BY DEF LocalsType
  <2>2. PackMod \in Nat \ {0}
    BY SizesAssumption
  <2>. QED BY <2>1, <2>2, DivMod DEF NextPack
<1>2. Left \in Int /\ ImageSize \in {NumBlocks, -1} /\ Position \in 0 .. NumBlocks
  BY SizesAssumption DEF Left, ImageSize, Position, Opening, LocalsType, SharedTypes, ThreadTypes
<1>3. NextBlock \in 0 .. NumBlocks
  BY SizesAssumption, <1>2 DEF NextBlock
<1>4. NextMessage \in ToZcMsg
  BY <1>1, <1>3, MessageTypes DEF NextMessage
<1>. QED BY <1>1, <1>2, <1>3, <1>4

LEMMA CancelType == ExternalTypes => Cancel \in Seq(ToZcMsg)
  BY InsistType, MessageTypes DEF ExternalTypes, Cancel

\* A failing branch leaves a well-formed ZC and line, reset or not.
LEMMA AbandonType ==
  ASSUME LocalsType, ExternalTypes, NEW line \in Seq(ToZcMsg), Abandon(line)
  PROVE  ExternalTypes'
<1>0. xfer.real \in Nat
  BY DEF LocalsType
<1>1. CASE xfer.real > 1
  <2>1. zigbeeModeReset /\ offers' = offers
    BY <1>0, <1>1 DEF Abandon, Begun
  <2>2. RestartMode \in {"app", "erased"}
    BY DEF RestartMode
  <2>3. zc' \in [mode : {"app", "boot", "erased", "done"}, got : Seq(0 .. NumBlocks)]
    BY <2>1, <2>2 DEF zigbeeModeReset
  <2>4. toZc' \in Seq(ToZcMsg)
    BY <2>1 DEF zigbeeModeReset
  <2>. QED BY <2>1, <2>3, <2>4 DEF ExternalTypes, zigbeeModeReset
<1>2. CASE xfer.real <= 1
  BY <1>0, <1>2 DEF ExternalTypes, Abandon, Begun
<1>. QED BY <1>0, <1>1, <1>2

\* What the ZC makes of a message keeps it and the line well formed.
LEMMA ReceiveType ==
  ASSUME ExternalTypes, ZcReceive
  PROVE  ExternalTypes'
<1>. USE DEF ExternalTypes
<1>0. /\ toZc # <<>> /\ toZc' = Tail(toZc) /\ offers' = offers
      /\ Head(toZc) \in ToZcMsg
  BY DEF ZcReceive
<1>1. toZc' \in Seq(ToZcMsg)
  BY <1>0
<1>2. \A m \in {"ACK", "CAN"} : Put(toGw, m) \in Seq(ToGwMsg)
  BY PutType DEF ToGwMsg, SingleByte
<1>. DEFINE Zc == [mode : {"app", "boot", "erased", "done"}, got : Seq(0 .. NumBlocks)]
<1>3. /\ zc \in Zc /\ Aborted \in Zc /\ [mode |-> "app", got |-> <<>>] \in Zc
      /\ [mode |-> "done", got |-> zc.got] \in Zc
      /\ \A b \in 0 .. NumBlocks : [mode |-> "erased", got |-> Append(zc.got, b)] \in Zc
  <2>1. zc.mode \in {"app", "boot", "erased", "done"} /\ zc.got \in Seq(0 .. NumBlocks)
    OBVIOUS
  <2>2. <<>> \in Seq(0 .. NumBlocks)
    OBVIOUS
  <2>3. \A b \in 0 .. NumBlocks : Append(zc.got, b) \in Seq(0 .. NumBlocks)
    BY <2>1
  <2>. QED BY <2>1, <2>2, <2>3 DEF Aborted
<1>. HIDE DEF Zc
<1>4. ASSUME zc' \in Zc, toGw' \in Seq(ToGwMsg), installed' \in {0, 1}
      PROVE  ExternalTypes'
  BY <1>0, <1>1, <1>4 DEF Zc
<1>5. CASE Head(toZc).kind = "record" /\ ZcRecord(Head(toZc)) /\ UNCHANGED installed
  <2>1. Head(toZc).blk \in 0 .. NumBlocks
    BY <1>0, <1>5 DEF ToZcMsg, Record
  <2>2. zc' \in Zc
    BY <1>3, <1>5, <2>1 DEF ZcRecord
  <2>3. toGw' \in Seq(ToGwMsg)
    BY <1>2, <1>5 DEF ZcRecord, Answer
  <2>. QED BY <1>4, <1>5, <2>2, <2>3
<1>6. CASE ZcEot
  <2>1. Append(Put(toGw, "ACK"), "complete") \in Seq(ToGwMsg)
    BY <1>2 DEF ToGwMsg
  <2>2. toGw' \in Seq(ToGwMsg) /\ installed' \in {0, 1}
    BY <1>2, <1>6, <2>1 DEF ZcEot, Answer
  <2>3. zc' \in Zc
    BY <1>3, <1>6 DEF ZcEot
  <2>. QED BY <1>4, <2>2, <2>3
<1>7. CASE zc' \in {zc, Aborted, [mode |-> "app", got |-> <<>>]} /\ UNCHANGED <<toGw, installed>>
  BY <1>3, <1>4, <1>7
<1>. QED BY <1>5, <1>6, <1>7 DEF ZcReceive

LEMMA TypeStep == TypeOK /\ [Next]_vars => TypeOK'
<1>. SUFFICES ASSUME TypeOK, [Next]_vars PROVE TypeOK'
  OBVIOUS
<1>0. SharedTypes /\ LocalsType /\ ThreadTypes /\ ExternalTypes
  BY DEF TypeOK
<1>. USE <1>0, SizesAssumption DEF shared, otaVars, rxVars, zcVars, fileVars,
                              lineVars, flags, history
<1>1. CASE CallTransport
  <2>1. SharedTypes'
    BY <1>1 DEF SharedTypes, CallTransport, NoLocals
  <2>2. LocalsType'
    <3>1. PICK retry \in 0 .. MaxRetry + 1 :
            xfer' = [NoLocals EXCEPT !.remain = otaStationInfo.devImageSize, !.retry = retry]
      BY <1>1 DEF CallTransport
    <3>2. otaStationInfo.devImageSize \in Int
      BY DEF SharedTypes
    <3>3. xfer' = [pack |-> 0, real |-> 0, remain |-> otaStationInfo.devImageSize,
                   retry |-> retry, wait |-> 0, endFlag |-> 0, frame |-> 0]
      BY <3>1 DEF NoLocals
    <3>. QED BY <3>2, <3>3 DEF LocalsType
  <2>3. ThreadTypes'
    BY <1>1 DEF ThreadTypes, CallTransport, NoLocals
  <2>4. ExternalTypes'
    BY <1>1 DEF ExternalTypes, CallTransport, NoLocals
  <2>. QED BY <2>1, <2>2, <2>3, <2>4 DEF TypeOK
<1>2. CASE OpenFails
  BY <1>2 DEF TypeOK, SharedTypes, LocalsType, ThreadTypes, ExternalTypes, OpenFails, NoLocals
<1>3. CASE SendNext
  <2>1. SharedTypes'
    BY <1>3, NextTypes DEF SharedTypes, SendNext
  <2>2. LocalsType'
    BY <1>3, NextTypes DEF LocalsType, SendNext, SharedTypes
  <2>3. ThreadTypes'
    BY <1>3, NextTypes DEF ThreadTypes, SendNext
  <2>4. ExternalTypes'
    <3>1. toZc' \in Seq(ToZcMsg)
      BY <1>3, NextTypes, PutType DEF ExternalTypes, SendNext, Send
    <3>. QED BY <1>3, <3>1 DEF ExternalTypes, SendNext
  <2>. QED BY <2>1, <2>2, <2>3, <2>4 DEF TypeOK
<1>4. CASE StoreWait
  BY <1>4 DEF TypeOK, SharedTypes, LocalsType, ThreadTypes, ExternalTypes, StoreWait, Station
<1>5. CASE Resend
  <2>1. SharedTypes'
    BY <1>5 DEF SharedTypes, Resend, Send
  <2>2. LocalsType'
    BY <1>5 DEF LocalsType, Resend, Send
  <2>3. ThreadTypes'
    BY <1>5 DEF ThreadTypes, Resend, Send
  <2>4. ExternalTypes'
    <3>1. RecordOf(xfer.pack, xfer.frame) \in ToZcMsg /\ Byte("EOT") \in ToZcMsg
      BY MessageTypes DEF LocalsType
    <3>2. toZc' \in Seq(ToZcMsg)
      BY <1>5, <3>1, PutType DEF ExternalTypes, Resend, Send
    <3>. QED BY <1>5, <3>2 DEF ExternalTypes, Resend
  <2>. QED BY <2>1, <2>2, <2>3, <2>4 DEF TypeOK
<1>6. CASE GiveUp
  <2>1. SharedTypes'
    BY <1>6 DEF SharedTypes, GiveUp, Abandon, Begun, Cancel, zigbeeModeReset
  <2>2. LocalsType'
    BY <1>6 DEF LocalsType, GiveUp
  <2>3. ThreadTypes'
    BY <1>6 DEF ThreadTypes, GiveUp, Abandon, Begun, Cancel, zigbeeModeReset
  <2>4. ExternalTypes'
    BY <1>6, CancelType, AbandonType DEF GiveUp
  <2>. QED BY <2>1, <2>2, <2>3, <2>4 DEF TypeOK
<1>7. CASE Refused
  <2>1. SharedTypes'
    BY <1>7 DEF SharedTypes, Refused, Abandon, Begun
  <2>2. LocalsType'
    BY <1>7 DEF LocalsType, Refused
  <2>3. ThreadTypes'
    BY <1>7 DEF ThreadTypes, Refused, Abandon, Begun
  <2>4. ExternalTypes'
    <3>1. (IF zcXmodemStation = "NONE" THEN Cancel ELSE toZc) \in Seq(ToZcMsg)
      BY CancelType DEF ExternalTypes
    <3>. QED BY <1>7, <3>1, AbandonType DEF Refused
  <2>. QED BY <2>1, <2>2, <2>3, <2>4 DEF TypeOK
<1>9. CASE WaitTurn
  <2>1. SharedTypes'
    BY <1>9 DEF SharedTypes, WaitTurn
  <2>2. LocalsType'
    BY <1>9 DEF LocalsType, WaitTurn
  <2>3. ThreadTypes'
    BY <1>9 DEF ThreadTypes, WaitTurn
  <2>4. ExternalTypes'
    BY <1>9 DEF ExternalTypes, WaitTurn
  <2>. QED BY <2>1, <2>2, <2>3, <2>4 DEF TypeOK
<1>10. CASE WaitTimeout
  <2>1. SharedTypes'
    BY <1>10 DEF SharedTypes, WaitTimeout, Abandon, Begun, zigbeeModeReset, ZigbeeFailed, Waiting
  <2>2. LocalsType'
    BY <1>10 DEF LocalsType, WaitTimeout, Begun
  <2>3. ThreadTypes'
    <3>1. /\ otaPc' = "after"
          /\ UNCHANGED <<fileVars, FirstPowerOnZBOTAFlag, rxVars, history>>
      BY <1>10 DEF WaitTimeout, Abandon
    <3>2. zbreset_timeout_counts' \in 0 .. ResetLimit
      BY <1>10, SizesAssumption DEF ThreadTypes, WaitTimeout
    <3>. QED BY <3>1, <3>2 DEF ThreadTypes, fileVars, rxVars, history
  <2>4. ExternalTypes'
    <3>1. CASE UNCHANGED <<lineVars, offers>>
      BY <3>1 DEF ExternalTypes
    <3>2. CASE Abandon(toZc)
      BY <3>2, AbandonType DEF ExternalTypes
    <3>. QED BY <1>10, <3>1, <3>2 DEF WaitTimeout, Begun
  <2>. QED BY <2>1, <2>2, <2>3, <2>4 DEF TypeOK
<1>11. CASE EndAcked
  BY <1>11 DEF TypeOK, SharedTypes, LocalsType, ThreadTypes, ExternalTypes, EndAcked
<1>12. CASE UploadComplete
  BY <1>12 DEF TypeOK, SharedTypes, LocalsType, ThreadTypes, ExternalTypes, UploadComplete
<1>13. CASE RestartApp
  BY <1>13, PutType, MessageTypes DEF TypeOK, SharedTypes, LocalsType, ThreadTypes, ExternalTypes, RestartApp, Send
<1>14. CASE Crash
  BY <1>14 DEF TypeOK, SharedTypes, LocalsType, ThreadTypes, ExternalTypes, Crash
<1>15. CASE AfterLoop
  BY <1>15 DEF TypeOK, SharedTypes, LocalsType, ThreadTypes, ExternalTypes, AfterLoop, NoLocals, ZigbeeFailed
<1>16. CASE RxByte
  <2>1. SharedTypes'
    BY <1>16 DEF SharedTypes, RxByte, StartUpgrade
  <2>2. LocalsType'
    BY <1>16 DEF LocalsType, RxByte
  <2>3. ThreadTypes'
    <3>1. NextCheck \in 0 .. CheckMod - 1
      <4>1. userOtaZigbeeGWCheck + 1 \in Int /\ CheckMod \in Nat \ {0}
        BY SizesAssumption DEF ThreadTypes
      <4>. QED BY <4>1, DivMod DEF NextCheck
    <3>2. StationFor(Head(toGw)) \in {"nothing", "ACK", "END", "CAN", "NAK"}
      BY DEF StationFor
    <3>3. /\ rxWrite' \in {"nothing", "START", "ACK", "END", "CAN", "NAK", "RESTART_APP"}
          /\ userOtaZigbeeGWCheck' \in 0 .. CheckMod - 1
      BY <1>16, <3>1, <3>2 DEF ThreadTypes, RxByte, StartUpgrade
    <3>. QED BY <1>16, <3>3 DEF ThreadTypes, RxByte
  <2>4. ExternalTypes'
    <3>1. toGw' \in Seq(ToGwMsg)
      BY <1>16 DEF ExternalTypes, RxByte
    <3>. QED BY <1>16, <3>1 DEF ExternalTypes, RxByte
  <2>. QED BY <2>1, <2>2, <2>3, <2>4 DEF TypeOK
<1>17. CASE RxText
  <2>0. PICK k \in 1 .. Len(toGw) :
          /\ toGw' = SubSeq(toGw, k + 1, Len(toGw))
          /\ rxWrite' \in {rxWrite, "START", "RESTART_APP"}
          /\ userOtaZigbeeGWCheck' \in {0, userOtaZigbeeGWCheck}
          /\ devOtaUpdateingFlag' \in {1, devOtaUpdateingFlag}
    BY <1>17 DEF RxText, StartUpgrade
  <2>1. SharedTypes'
    <3>1. \/ otaStationInfo' = otaStationInfo
          \/ \E n \in {0, 1} :
               otaStationInfo' = [otaStationInfo EXCEPT !.needDownloadImageFromCloud = n]
      BY <1>17 DEF RxText, StartUpgrade
    <3>2. otaStationInfo' \in InfoOf({NumBlocks, -1})
      <4>1. otaStationInfo \in InfoOf({NumBlocks, -1})
        BY DEF SharedTypes, InfoOf
      <4>2. CASE otaStationInfo' = otaStationInfo
        BY <4>1, <4>2
      <4>3. CASE \E n \in {0, 1} :
                   otaStationInfo' = [otaStationInfo EXCEPT !.needDownloadImageFromCloud = n]
        <5>1. PICK n \in {0, 1} :
                otaStationInfo' = [otaStationInfo EXCEPT !.needDownloadImageFromCloud = n]
          BY <4>3
        <5>. QED BY <4>1, <5>1, InfoStores, NumBlocks \in {NumBlocks, -1}
      <4>. QED BY <3>1, <4>2, <4>3
    <3>3. UNCHANGED <<zcXmodemStation, otaContrlInfo, zcSoftVersion>>
      BY <1>17 DEF RxText
    <3>. QED BY <2>0, <3>2, <3>3 DEF SharedTypes, InfoOf
  <2>2. LocalsType'
    BY <1>17 DEF LocalsType, RxText
  <2>3. ThreadTypes'
    <3>1. UNCHANGED otaVars
      BY <1>17 DEF RxText
    <3>. QED BY <3>1, <2>0 DEF ThreadTypes
  <2>4. ExternalTypes'
    <3>1. toGw' \in Seq(ToGwMsg)
      BY <2>0, SubSeqProperties DEF ExternalTypes
    <3>. QED BY <1>17, <3>1 DEF ExternalTypes, RxText
  <2>. QED BY <2>1, <2>2, <2>3, <2>4 DEF TypeOK
<1>18. CASE RxStore
  BY <1>18 DEF TypeOK, SharedTypes, LocalsType, ThreadTypes, ExternalTypes, RxStore, Station
<1>19. CASE ZcEnterBoot
  BY <1>19, PutType DEF TypeOK, SharedTypes, LocalsType, ThreadTypes, ExternalTypes, ZcEnterBoot, Answer, GwUnchanged, ToGwMsg
<1>20. CASE ZcPoll
  <2>1. SharedTypes'
    BY <1>20 DEF SharedTypes, ZcPoll, Answer, GwUnchanged, ToGwMsg, SingleByte
  <2>2. LocalsType'
    BY <1>20 DEF LocalsType, ZcPoll, Answer, GwUnchanged, ToGwMsg, SingleByte
  <2>3. ThreadTypes'
    BY <1>20 DEF ThreadTypes, ZcPoll, Answer, GwUnchanged, ToGwMsg, SingleByte
  <2>4. ExternalTypes'
    <3>1. PICK m \in ToGwMsg : toGw' = Put(toGw, m)
      BY <1>20 DEF ZcPoll, Answer, ToGwMsg, SingleByte
    <3>2. toGw' \in Seq(ToGwMsg)
      BY <3>1, PutType DEF ExternalTypes
    <3>. QED BY <1>20, <3>2 DEF ExternalTypes, ZcPoll
  <2>. QED BY <2>1, <2>2, <2>3, <2>4 DEF TypeOK
<1>21. CASE ZcReceive
  <2>1. SharedTypes'
    BY <1>21 DEF SharedTypes, ZcReceive, ZcRecord, ZcEot, Aborted, Answer, GwUnchanged, ToGwMsg
  <2>2. LocalsType'
    BY <1>21 DEF LocalsType, ZcReceive, ZcRecord, ZcEot, Aborted, Answer, GwUnchanged, ToGwMsg
  <2>3. ThreadTypes'
    BY <1>21 DEF ThreadTypes, ZcReceive, ZcRecord, ZcEot, Aborted, Answer, GwUnchanged, ToGwMsg
  <2>4. ExternalTypes'
    BY <1>21, ReceiveType
  <2>. QED BY <2>1, <2>2, <2>3, <2>4 DEF TypeOK
<1>22. CASE LoseToZc
  BY <1>22 DEF TypeOK, SharedTypes, LocalsType, ThreadTypes, ExternalTypes, LoseToZc, GwUnchanged
<1>23. CASE LoseToGw
  <2>1. SharedTypes'
    BY <1>23 DEF SharedTypes, LoseToGw, GwUnchanged
  <2>2. LocalsType'
    BY <1>23 DEF LocalsType, LoseToGw, GwUnchanged
  <2>3. ThreadTypes'
    BY <1>23 DEF ThreadTypes, LoseToGw, GwUnchanged
  <2>4. ExternalTypes'
    <3>1. toGw' \in Seq(ToGwMsg)
      BY <1>23 DEF ExternalTypes, LoseToGw
    <3>. QED BY <1>23, <3>1 DEF ExternalTypes, LoseToGw
  <2>. QED BY <2>1, <2>2, <2>3, <2>4 DEF TypeOK
<1>24. CASE CloudOffer
  <2>1. SharedTypes'
    <3>1. otaStationInfo' \in InfoOf({NumBlocks, -1})
      <4>1. otaStationInfo \in InfoOf({NumBlocks, -1})
        BY DEF SharedTypes, InfoOf
      <4>2. otaStationInfo' = [otaStationInfo EXCEPT !.firmwareValid = 1,
                                                     !.devImageSize = NumBlocks]
        BY <1>24 DEF CloudOffer
      <4>. QED BY <4>1, <4>2, InfoStores, NumBlocks \in {NumBlocks, -1}
    <3>2. otaContrlInfo' \in [ota_type : {1, 2}, ota_status : {0, 1}, allow : {0, 1}]
      BY <1>24 DEF CloudOffer
    <3>3. UNCHANGED <<zcXmodemStation, devOtaUpdateingFlag>> /\ zcSoftVersion' = "old"
      BY <1>24 DEF CloudOffer
    <3>. QED BY <3>1, <3>2, <3>3 DEF SharedTypes, InfoOf
  <2>2. LocalsType'
    BY <1>24 DEF LocalsType, CloudOffer
  <2>3. ThreadTypes'
    <3>1. UNCHANGED <<otaVars, rxVars>>
      BY <1>24 DEF CloudOffer
    <3>. QED BY <3>1 DEF ThreadTypes, otaVars, rxVars
  <2>4. ExternalTypes'
    BY <1>24 DEF ExternalTypes, CloudOffer
  <2>. QED BY <2>1, <2>2, <2>3, <2>4 DEF TypeOK
<1>25. CASE UNCHANGED vars
  BY <1>25 DEF TypeOK, SharedTypes, LocalsType, ThreadTypes, ExternalTypes, vars
<1>. QED
  BY <1>1, <1>2, <1>3, <1>4, <1>5, <1>6, <1>7, <1>9, <1>10, <1>11, <1>12, <1>13,
     <1>14, <1>15, <1>16, <1>17, <1>18, <1>19, <1>20, <1>21, <1>22, <1>23, <1>24, <1>25
     DEF Next, OtaThread, RxThread, External

\* The shared state, the locals of both threads and the messages under way have the
\* types TypeOK gives them, in every state the two threads, the ZC and the line reach.
THEOREM TypeCorrect == Spec => []TypeOK
<1>. QED BY TypeInit, TypeStep, PTL DEF Spec

-----------------------------------------------------------------------------
(* The handle, the counter and the frame *)

LEMMA HandleInit == Init => HandleInv
  BY DEF Init, HandleInv, InCall

\* The steps that touch none of what HandleInv is about, or only end a call.
LEMMA HandleKept ==
  ASSUME HandleInv, fp' = fp \/ fp' = "none", reused' = reused,
         \/ /\ InCall' => InCall
            /\ UNCHANGED <<fp, openFileFlag, filePos>>
            /\ xfer'.pack = xfer.pack /\ xfer'.real = xfer.real
            /\ xfer'.frame = xfer.frame /\ xfer'.endFlag = xfer.endFlag
            /\ xfer'.remain = xfer.remain
            /\ otaStationInfo'.devImageSize = otaStationInfo.devImageSize
         \/ ~InCall'
  PROVE  HandleInv'
  BY DEF HandleInv, InCall

\* Sending the next message keeps counter, position and frame together: they all
\* advance by one, or nothing remains and the end flag goes up.
LEMMA HandleSend ==
  ASSUME TypeOK, HandleInv, SendNext
  PROVE  HandleInv'
<1>. SUFFICES ASSUME reused = 0 PROVE HandleInv'
  BY DEF HandleInv, SendNext
<1>. USE SizesAssumption
<1>0. /\ LocalsType /\ otaPc = "switch" /\ InCall /\ openFileFlag \in {0, 1}
      /\ otaPc' \in {"sentRecord", "sentEOT"} /\ InCall' /\ reused' = 0
      /\ fp' = (IF Opening THEN "own" ELSE fp) /\ openFileFlag' = 1
      /\ filePos' = (IF NextBlock # 0 THEN NextBlock ELSE Position)
      /\ otaStationInfo'.devImageSize = ImageSize
  BY DEF SendNext, TypeOK, InCall, ThreadTypes, SharedTypes
<1>1. /\ xfer'.pack = NextPack /\ xfer'.real = xfer.real + 1
      /\ xfer'.frame = NextBlock
      /\ xfer'.remain = (IF Left > 0 THEN ImageSize - (xfer.real + 1) ELSE Left)
      /\ xfer'.endFlag = (IF Left > 0 THEN xfer.endFlag ELSE 1)
  BY DEF SendNext
<1>2. xfer.real \in Nat /\ xfer.remain \in Int /\ xfer.endFlag \in {0, 1}
  BY <1>0 DEF LocalsType
<1>3. NextPack = xfer'.real % PackMod
  <2>1. xfer.pack = xfer.real % PackMod
    BY <1>0 DEF HandleInv
  <2>. QED BY <1>1, <1>2, <2>1, ModSucc DEF NextPack
<1>4. CASE Opening
  <2>1. xfer.real = 0 /\ xfer.endFlag = 0 /\ Left = NumBlocks /\ ImageSize = NumBlocks
    BY <1>0, <1>4 DEF HandleInv, Left, ImageSize, Opening
  <2>2. NextBlock = 1
    BY <1>4, <2>1 DEF NextBlock, Position, Opening
  <2>. QED BY <1>0, <1>1, <1>2, <1>3, <1>4, <2>1, <2>2 DEF HandleInv
<1>5. CASE ~Opening
  <2>1. /\ fp = "own" /\ Left = xfer.remain /\ ImageSize = NumBlocks
        /\ Position = filePos
    BY <1>0, <1>5 DEF HandleInv, Left, ImageSize, Position, Opening
  <2>2. CASE xfer.endFlag = 0 /\ Left > 0
    <3>1. /\ xfer.real < NumBlocks /\ filePos = xfer.real
      BY <1>0, <1>2, <2>1, <2>2 DEF HandleInv
    <3>2. NextBlock = xfer.real + 1
      BY <2>1, <2>2, <3>1 DEF NextBlock
    <3>. QED BY <1>0, <1>1, <1>2, <1>3, <1>5, <2>1, <2>2, <3>1, <3>2 DEF HandleInv
  <2>3. CASE ~(Left > 0)
    <3>1. xfer'.endFlag = 1 /\ xfer'.remain <= 0
      BY <1>1, <1>2, <2>1, <2>3
    <3>. QED BY <1>0, <1>1, <1>3, <1>5, <2>1, <3>1 DEF HandleInv
  <2>4. CASE xfer.endFlag = 1 /\ Left > 0
    BY <1>0, <1>2, <2>1, <2>4 DEF HandleInv
  <2>. QED BY <1>2, <2>2, <2>3, <2>4
<1>. QED BY <1>4, <1>5

\* The first two packet numbers do not wrap.
LEMMA PackSmall == 0 % PackMod = 0 /\ 1 % PackMod = 1
<1>1. PackMod \in Nat \ {0} /\ 0 \in 0 .. PackMod - 1 /\ 1 \in 0 .. PackMod - 1
  BY SizesAssumption
<1>2. 0 % PackMod = 0
  BY <1>1, ModSmall
<1>3. 1 % PackMod = 1
  BY <1>1, ModSmall
<1>. QED BY <1>2, <1>3

LEMMA HandleStep == TypeOK /\ HandleInv /\ [Next]_vars => HandleInv'
<1>. SUFFICES ASSUME TypeOK, HandleInv, [Next]_vars PROVE HandleInv'
  OBVIOUS
<1>. USE DEF shared, otaVars, fileVars, flags, history
<1>1. CASE CallTransport
  <2>1. PICK retry \in 0 .. MaxRetry + 1 :
          xfer' = [NoLocals EXCEPT !.remain = otaStationInfo.devImageSize, !.retry = retry]
    BY <1>1 DEF CallTransport
  <2>2. /\ xfer'.pack = 0 /\ xfer'.real = 0 /\ xfer'.frame = 0 /\ xfer'.endFlag = 0
    BY <2>1 DEF NoLocals
  <2>3. 0 % PackMod = 0
    BY PackSmall
  <2>4. openFileFlag \in {0, 1}
    BY DEF TypeOK, ThreadTypes
  <2>5. reused' = 0 => openFileFlag' = 0 /\ fp' = "none"
    BY <1>1, <2>4 DEF CallTransport
  <2>. QED BY <2>2, <2>3, <2>5 DEF HandleInv
<1>2. CASE SendNext
  BY <1>2, HandleSend
<1>3. CASE StoreWait
  BY <1>3, HandleKept DEF StoreWait, InCall
<1>4. CASE Resend
  <2>1. xfer' = [xfer EXCEPT !.retry = @ + 1] /\ LocalsType
    BY <1>4 DEF Resend, TypeOK
  <2>2. /\ xfer'.pack = xfer.pack /\ xfer'.real = xfer.real /\ xfer'.frame = xfer.frame
        /\ xfer'.endFlag = xfer.endFlag /\ xfer'.remain = xfer.remain
    BY <2>1 DEF LocalsType
  <2>. QED BY <1>4, <2>2, HandleKept DEF Resend, InCall
<1>5. CASE WaitTurn
  <2>1. xfer' = [xfer EXCEPT !.wait = @ + 1] /\ LocalsType
    BY <1>5 DEF WaitTurn, TypeOK
  <2>2. /\ xfer'.pack = xfer.pack /\ xfer'.real = xfer.real /\ xfer'.frame = xfer.frame
        /\ xfer'.endFlag = xfer.endFlag /\ xfer'.remain = xfer.remain
    BY <2>1 DEF LocalsType
  <2>. QED BY <1>5, <2>2, HandleKept DEF WaitTurn, InCall
<1>6. CASE OpenFails \/ EndAcked \/ UploadComplete \/ RestartApp \/ Crash \/ AfterLoop
  <2>1. ~InCall' /\ reused' = reused /\ (fp' = fp \/ fp' = "none")
    BY <1>6 DEF OpenFails, EndAcked, UploadComplete, RestartApp, Crash, AfterLoop, InCall
  <2>. QED BY <2>1, HandleKept
<1>7. CASE GiveUp \/ Refused \/ WaitTimeout
  <2>1. otaPc' = "after" /\ UNCHANGED <<reused, fp>>
    BY <1>7 DEF GiveUp, Refused, WaitTimeout, Abandon, Begun
  <2>. QED BY <2>1, HandleKept DEF InCall
<1>8. CASE CloudOffer
  <2>1. ~InCall' /\ UNCHANGED <<reused, fp>>
    BY <1>8 DEF CloudOffer, InCall
  <2>. QED BY <2>1, HandleKept
<1>9. CASE RxThread
  <2>1. UNCHANGED otaVars
    BY <1>9 DEF RxThread, RxByte, RxText, RxStore
  <2>2. \/ otaStationInfo' = otaStationInfo
        \/ \E n \in {0, 1} :
             otaStationInfo' = [otaStationInfo EXCEPT !.needDownloadImageFromCloud = n]
    BY <1>9 DEF RxThread, RxByte, RxText, RxStore, StartUpgrade
  <2>3. otaStationInfo'.devImageSize = otaStationInfo.devImageSize
    BY <2>2 DEF TypeOK, SharedTypes
  <2>. QED BY <2>1, <2>3, HandleKept DEF InCall
<1>10. CASE UNCHANGED <<shared, otaVars>>
  BY <1>10, HandleKept DEF InCall
<1>11. CASE ZcEnterBoot \/ ZcPoll \/ ZcReceive \/ LoseToZc \/ LoseToGw \/ UNCHANGED vars
  BY <1>10, <1>11 DEF ZcEnterBoot, ZcPoll, ZcReceive, LoseToZc, LoseToGw, GwUnchanged, vars
<1>. QED
  BY <1>1, <1>2, <1>3, <1>4, <1>5, <1>6, <1>7, <1>8, <1>9, <1>11
     DEF Next, OtaThread, External

-----------------------------------------------------------------------------
(* Records under way *)

\* A message is faithful when it is no record or its number is its block's.
Faithful(m) == m.kind = "record" => m.num = m.blk % PackMod

LEMMA FaithfulBytes == \A k \in {"EOT", "CAN", "r"} : Faithful(Byte(k))
  BY DEF Faithful, Byte

LEMMA FaithfulLine == RecordsFaithful <=> (reused = 0 => \A i \in 1 .. Len(toZc) : Faithful(toZc[i]))
  BY DEF RecordsFaithful, Faithful

\* One more message on a faithful line, a faithful one.
LEMMA FaithfulPut ==
  ASSUME toZc \in Seq(ToZcMsg), \A i \in 1 .. Len(toZc) : Faithful(toZc[i]),
         NEW m \in ToZcMsg, Faithful(m)
  PROVE  /\ \A i \in 1 .. Len(Put(toZc, m)) : Faithful(Put(toZc, m)[i])
         /\ \A i \in 1 .. Len(Insist(toZc, m)) : Faithful(Insist(toZc, m)[i])
<1>1. ASSUME NEW i \in 1 .. Len(Put(toZc, m)) PROVE Faithful(Put(toZc, m)[i])
  BY <1>1, PutElements
<1>2. ASSUME NEW i \in 1 .. Len(Insist(toZc, m)) PROVE Faithful(Insist(toZc, m)[i])
  BY <1>2, InsistElements
<1>. QED BY <1>1, <1>2

LEMMA FaithfulTail ==
  ASSUME toZc \in Seq(ToZcMsg), toZc # <<>>, \A i \in 1 .. Len(toZc) : Faithful(toZc[i])
  PROVE  /\ Faithful(Head(toZc))
         /\ \A i \in 1 .. Len(Tail(toZc)) : Faithful(Tail(toZc)[i])
<1>1. Head(toZc) = toZc[1] /\ 1 \in 1 .. Len(toZc)
  OBVIOUS
<1>2. ASSUME NEW i \in 1 .. Len(Tail(toZc))
      PROVE  Tail(toZc)[i] = toZc[i + 1] /\ i + 1 \in 1 .. Len(toZc)
  OBVIOUS
<1>. QED BY <1>1, <1>2

\* As long as a block remains it is the one after the last read, or the first.
LEMMA NextIsNext ==
  ASSUME TypeOK, HandleInv, reused = 0, SendNext, Left > 0
  PROVE  NextBlock = xfer.real + 1 /\ xfer.endFlag = 0
<1>. USE SizesAssumption
<1>0. /\ InCall /\ openFileFlag \in {0, 1} /\ xfer.real \in Nat /\ xfer.remain \in Int
      /\ xfer.endFlag \in {0, 1}
  BY DEF SendNext, InCall, TypeOK, ThreadTypes, LocalsType
<1>1. CASE Opening
  BY <1>0, <1>1 DEF NextBlock, Position, Opening, HandleInv
<1>2. CASE ~Opening
  <2>1. fp = "own" /\ Left = xfer.remain /\ Position = filePos
    BY <1>0, <1>2 DEF Left, Position, Opening, HandleInv
  <2>2. filePos = xfer.real /\ xfer.real < NumBlocks /\ xfer.endFlag = 0
    BY <1>0, <2>1 DEF HandleInv
  <2>. QED BY <2>1, <2>2 DEF NextBlock
<1>. QED BY <1>1, <1>2

\* The record sent next, and the one resent, carry the block their number names.
LEMMA FaithfulNext ==
  ASSUME TypeOK, HandleInv, reused = 0, SendNext
  PROVE  Faithful(NextMessage)
<1>. USE SizesAssumption
<1>0. /\ InCall /\ openFileFlag \in {0, 1} /\ xfer.real \in Nat /\ xfer.remain \in Int
      /\ xfer.endFlag \in {0, 1}
  BY DEF SendNext, InCall, TypeOK, ThreadTypes, LocalsType
<1>1. CASE Left > 0
  <2>1. NextMessage = RecordOf(NextPack, NextBlock)
    BY <1>1 DEF NextMessage
  <2>2. NextPack = (xfer.real + 1) % PackMod
    <3>1. xfer.pack = xfer.real % PackMod
      BY <1>0 DEF HandleInv
    <3>. QED BY <1>0, <3>1, ModSucc DEF NextPack
  <2>3. NextBlock = xfer.real + 1
    BY <1>1, NextIsNext
  <2>. QED BY <2>1, <2>2, <2>3 DEF Faithful, RecordOf
<1>2. CASE ~(Left > 0)
  BY <1>2, FaithfulBytes DEF NextMessage
<1>. QED BY <1>1, <1>2

LEMMA FaithfulAgain ==
  ASSUME TypeOK, HandleInv, reused = 0, InCall, xfer.endFlag # 1
  PROVE  Faithful(RecordOf(xfer.pack, xfer.frame))
<1>1. /\ xfer.pack = xfer.real % PackMod /\ xfer.endFlag = 0
      /\ fp \in {"none", "own"}
  BY DEF HandleInv, TypeOK, LocalsType
<1>2. xfer.frame = xfer.real
  BY <1>1 DEF HandleInv
<1>. QED BY <1>1, <1>2 DEF Faithful, RecordOf

LEMMA FaithfulAbandon ==
  ASSUME TypeOK, \A i \in 1 .. Len(toZc) : Faithful(toZc[i]),
         Abandon(toZc) \/ Abandon(Cancel)
  PROVE  \A i \in 1 .. Len(toZc') : Faithful(toZc'[i])
<1>1. toZc' \in {toZc, <<>>, Cancel}
  BY DEF Abandon, Begun, zigbeeModeReset
<1>2. \A i \in 1 .. Len(Cancel) : Faithful(Cancel[i])
  BY FaithfulPut, FaithfulBytes, MessageTypes DEF Cancel, TypeOK, ExternalTypes
<1>. QED BY <1>1, <1>2

\* A call that ran on a handle it did not open is never forgotten.
LEMMA ReusedStays == [Next]_vars /\ reused' = 0 => reused = 0
<1>. SUFFICES ASSUME [Next]_vars, reused' = 0 PROVE reused = 0
  OBVIOUS
<1>. USE DEF shared, otaVars, history
<1>1. CASE CallTransport
  BY <1>1 DEF CallTransport
<1>2. CASE OpenFails \/ SendNext \/ StoreWait \/ Resend \/ WaitTurn \/ EndAcked
           \/ UploadComplete \/ RestartApp \/ Crash \/ AfterLoop
  BY <1>2 DEF OpenFails, SendNext, StoreWait, Resend, WaitTurn, EndAcked,
              UploadComplete, RestartApp, Crash, AfterLoop
<1>3. CASE GiveUp \/ Refused \/ WaitTimeout
  BY <1>3 DEF GiveUp, Refused, WaitTimeout, Abandon, Begun
<1>4. CASE RxThread \/ CloudOffer \/ UNCHANGED vars
  BY <1>4 DEF RxThread, RxByte, RxText, RxStore, CloudOffer, vars
<1>5. CASE ZcEnterBoot \/ ZcPoll \/ ZcReceive \/ LoseToZc \/ LoseToGw
  BY <1>5 DEF ZcEnterBoot, ZcPoll, ZcReceive, LoseToZc, LoseToGw, GwUnchanged
<1>. QED BY <1>1, <1>2, <1>3, <1>4, <1>5 DEF Next, OtaThread, External

LEMMA RecordsStep ==
  TypeOK /\ HandleInv /\ RecordsFaithful /\ [Next]_vars => RecordsFaithful'
<1>. SUFFICES ASSUME TypeOK, HandleInv, RecordsFaithful, [Next]_vars, reused' = 0
              PROVE  \A i \in 1 .. Len(toZc') : Faithful(toZc'[i])
  BY DEF RecordsFaithful, Faithful
<1>. USE DEF shared, otaVars, rxVars, lineVars, Send
<1>0. reused = 0
  BY ReusedStays
<1>a. (\A i \in 1 .. Len(toZc) : Faithful(toZc[i])) /\ toZc \in Seq(ToZcMsg)
  BY <1>0, FaithfulLine DEF TypeOK, ExternalTypes
<1>1. CASE toZc' = toZc
  BY <1>a, <1>1
<1>2. CASE toZc # <<>> /\ toZc' = Tail(toZc)
  BY <1>a, <1>2, FaithfulTail
<1>3. CASE SendNext
  <2>1. NextMessage \in ToZcMsg /\ Faithful(NextMessage)
    BY <1>0, <1>3, NextTypes, FaithfulNext
  <2>. QED BY <1>3, <1>a, <2>1, FaithfulPut DEF SendNext
<1>4. CASE Resend
  <2>1. Byte("EOT") \in ToZcMsg /\ Faithful(Byte("EOT"))
    BY MessageTypes, FaithfulBytes
  <2>2. CASE xfer.endFlag = 1
    BY <1>4, <1>a, <2>1, <2>2, FaithfulPut DEF Resend
  <2>3. CASE xfer.endFlag # 1
    <3>1. RecordOf(xfer.pack, xfer.frame) \in ToZcMsg
      BY MessageTypes DEF TypeOK, LocalsType
    <3>2. Faithful(RecordOf(xfer.pack, xfer.frame))
      BY <1>0, <1>4, <2>3, FaithfulAgain DEF Resend, InCall
    <3>. QED BY <1>4, <1>a, <2>3, <3>1, <3>2, FaithfulPut DEF Resend
  <2>. QED BY <2>2, <2>3
<1>5. CASE GiveUp \/ Refused \/ (WaitTimeout /\ toZc' # toZc)
  <2>1. Abandon(toZc) \/ Abandon(Cancel)
    BY <1>5 DEF GiveUp, Refused, WaitTimeout, Begun
  <2>. QED BY <1>a, <2>1, FaithfulAbandon
<1>6. CASE RestartApp
  BY <1>6, <1>a, MessageTypes, FaithfulBytes, FaithfulPut DEF RestartApp
<1>7. CASE CallTransport \/ OpenFails \/ StoreWait \/ WaitTurn \/ EndAcked \/ UploadComplete
           \/ Crash \/ AfterLoop
  BY <1>1, <1>7 DEF CallTransport, OpenFails, StoreWait, WaitTurn, EndAcked,
                    UploadComplete, Crash, AfterLoop
<1>8. CASE RxThread \/ CloudOffer \/ ZcEnterBoot \/ ZcPoll \/ LoseToGw \/ UNCHANGED vars
  BY <1>1, <1>8 DEF RxThread, RxByte, RxText, RxStore, CloudOffer, ZcEnterBoot, ZcPoll,
                    LoseToGw, vars
<1>9. CASE ZcReceive \/ LoseToZc
  BY <1>2, <1>9 DEF ZcReceive, LoseToZc
<1>. QED
  BY <1>1, <1>3, <1>4, <1>5, <1>6, <1>7, <1>8, <1>9 DEF Next, OtaThread, External

\* Whatever is lost, cancelled, resent or acknowledged late, a record under way in
\* a call that opened the file itself carries the block its counter names: the frame
\* buffer, pack_counter and the file position never drift apart.
THEOREM RecordsAlwaysFaithful == Spec => []RecordsFaithful
<1>1. Init => RecordsFaithful
  BY DEF Init, RecordsFaithful
<1>. QED BY TypeInit, TypeStep, HandleInit, HandleStep, <1>1, RecordsStep, PTL DEF Spec

-----------------------------------------------------------------------------
(* Blocks accepted by the ZC *)

\* What one message may do to the accepted blocks.
LEMMA ReceivedBlocks ==
  ASSUME TypeOK, ZcReceive
  PROVE  \/ zc'.got = zc.got
         \/ zc'.got = <<>>
         \/ /\ Len(zc.got) < NumBlocks
            /\ Head(toZc).kind = "record"
            /\ Head(toZc).num = (Len(zc.got) + 1) % PackMod
            /\ zc'.got = Append(zc.got, Head(toZc).blk)
<1>1. zc \in [mode : {"app", "boot", "erased", "done"}, got : Seq(0 .. NumBlocks)]
  BY DEF TypeOK, ExternalTypes
<1>2. CASE Head(toZc).kind = "record" /\ ZcRecord(Head(toZc))
  BY <1>1, <1>2 DEF ZcRecord, Aborted
<1>3. CASE ZcEot
  BY <1>1, <1>3 DEF ZcEot, Aborted
<1>4. CASE zc' \in {zc, Aborted, [mode |-> "app", got |-> <<>>]}
  BY <1>1, <1>4 DEF Aborted
<1>. QED BY <1>2, <1>3, <1>4 DEF ZcReceive

LEMMA AcceptedInit == Init => AcceptedFaithful
  BY SizesAssumption DEF Init, AcceptedFaithful

LEMMA AcceptedStep ==
  TypeOK /\ RecordsFaithful /\ AcceptedFaithful /\ [Next]_vars => AcceptedFaithful'
<1>. SUFFICES ASSUME TypeOK, RecordsFaithful, AcceptedFaithful, [Next]_vars
              PROVE  AcceptedFaithful'
  OBVIOUS
<1>. USE DEF shared, otaVars, rxVars, zcVars, lineVars
<1>0. zc.got \in Seq(0 .. NumBlocks) /\ toZc \in Seq(ToZcMsg)
  BY DEF TypeOK, ExternalTypes
<1>1. reused' = 0 => reused = 0
  BY ReusedStays
<1>2. CASE zc'.got = zc.got
  BY <1>1, <1>2 DEF AcceptedFaithful
<1>3. CASE zc'.got = <<>>
  BY <1>3, SizesAssumption DEF AcceptedFaithful
<1>4. CASE ZcReceive /\ zc'.got # zc.got /\ zc'.got # <<>>
  <2>1. /\ Len(zc.got) < NumBlocks
        /\ Head(toZc).kind = "record"
        /\ Head(toZc).num = (Len(zc.got) + 1) % PackMod
        /\ zc'.got = Append(zc.got, Head(toZc).blk)
    BY <1>4, ReceivedBlocks
  <2>2. /\ Len(zc'.got) = Len(zc.got) + 1 /\ Len(zc.got) \in Nat
        /\ \A i \in 1 .. Len(zc.got) : zc'.got[i] = zc.got[i]
        /\ zc'.got[Len(zc.got) + 1] = Head(toZc).blk
    BY <1>0, <2>1
  <2>3. Len(zc'.got) <= NumBlocks
    BY <2>1, <2>2, SizesAssumption
  <2>4. ASSUME reused' = 0 PROVE \A i \in 1 .. Len(zc'.got) : zc'.got[i] % PackMod = i % PackMod
    <3>1. Faithful(Head(toZc))
      <4>1. \A i \in 1 .. Len(toZc) : Faithful(toZc[i])
        BY <1>1, <2>4, FaithfulLine
      <4>2. toZc # <<>>
        BY <1>4 DEF ZcReceive
      <4>. QED BY <1>0, <4>1, <4>2, FaithfulTail
    <3>2. Head(toZc).blk % PackMod = (Len(zc.got) + 1) % PackMod
      BY <2>1, <3>1 DEF Faithful
    <3>3. \A i \in 1 .. Len(zc.got) : zc.got[i] % PackMod = i % PackMod
      BY <1>1, <2>4 DEF AcceptedFaithful
    <3>4. TAKE i \in 1 .. Len(zc'.got)
    <3>5. CASE i \in 1 .. Len(zc.got)
      BY <2>2, <3>3, <3>5
    <3>6. CASE i = Len(zc.got) + 1
      BY <2>2, <3>2, <3>6
    <3>. QED BY <2>2, <3>5, <3>6
  <2>. QED BY <2>3, <2>4 DEF AcceptedFaithful
<1>5. CASE GiveUp \/ Refused \/ WaitTimeout
  BY <1>2, <1>3, <1>5 DEF GiveUp, Refused, WaitTimeout, Abandon, Begun, zigbeeModeReset
<1>6. CASE CallTransport \/ OpenFails \/ SendNext \/ StoreWait \/ Resend \/ WaitTurn
           \/ EndAcked \/ UploadComplete \/ RestartApp \/ Crash \/ AfterLoop
  BY <1>2, <1>6 DEF CallTransport, OpenFails, SendNext, StoreWait, Resend, WaitTurn,
                    EndAcked, UploadComplete, RestartApp, Crash, AfterLoop
<1>7. CASE RxThread \/ CloudOffer \/ UNCHANGED vars
  BY <1>2, <1>7 DEF RxThread, RxByte, RxText, RxStore, CloudOffer, vars
<1>8. CASE ZcEnterBoot \/ ZcPoll \/ LoseToZc \/ LoseToGw
  BY <1>2, <1>3, <1>8 DEF ZcEnterBoot, ZcPoll, LoseToZc, LoseToGw
<1>. QED
  BY <1>2, <1>3, <1>4, <1>5, <1>6, <1>7, <1>8 DEF Next, OtaThread, External

\* Whatever the image's size, the counter tells no accepted block from the one that
\* belongs in its place.
THEOREM AcceptedAlwaysFaithful == Spec => []AcceptedFaithful
<1>1. Init => RecordsFaithful
  BY DEF Init, RecordsFaithful
<1>. QED BY TypeInit, TypeStep, HandleInit, HandleStep, <1>1, RecordsStep,
            AcceptedInit, AcceptedStep, PTL DEF Spec

-----------------------------------------------------------------------------
(* The first upload *)

\* As long as the first image on offer is not installed, nothing says it is: no text
\* under way, no station, no pending store, no call past its end.
NoWordOfSuccess ==
  offers >= 1 /\ (offers = 1 /\ installed = 0 =>
    /\ zcSoftVersion = "old" /\ otaPc # "restart"
    /\ zcXmodemStation # "RESTART_APP" /\ rxWrite # "RESTART_APP"
    /\ \A i \in 1 .. Len(toGw) : toGw[i] # "complete")

\* What Put adds to a line is the message put.
LEMMA PutOnly ==
  ASSUME NEW S, NEW line \in Seq(S), NEW m \in S, NEW i \in 1 .. Len(Put(line, m))
  PROVE  Put(line, m)[i] = m \/ (i \in 1 .. Len(line) /\ Put(line, m)[i] = line[i])
<1>1. CASE Len(line) < LineCap
  <2>1. Put(line, m) = Append(line, m)
    BY <1>1 DEF Put
  <2>2. i \in 1 .. Len(line) + 1
    BY <2>1
  <2>. QED BY <2>1, <2>2
<1>2. CASE ~(Len(line) < LineCap)
  BY <1>2 DEF Put
<1>. QED BY <1>1, <1>2

LEMMA NoWordInit == Init => NoWordOfSuccess
  BY DEF Init, NoWordOfSuccess

LEMMA NoWordStep ==
  TypeOK /\ NoWordOfSuccess /\ [Next]_vars => NoWordOfSuccess'
<1>. SUFFICES ASSUME TypeOK, NoWordOfSuccess, [Next]_vars
              PROVE  NoWordOfSuccess'
  OBVIOUS
<1>1. /\ toGw \in Seq(ToGwMsg) /\ installed \in {0, 1} /\ offers \in Nat
      /\ offers >= 1
  BY DEF TypeOK, ExternalTypes, NoWordOfSuccess
<1>2. CASE CloudOffer
  BY <1>1, <1>2 DEF CloudOffer, NoWordOfSuccess
<1>3. CASE ~CloudOffer
  <2>1. offers' = offers /\ (installed' = 0 => installed = 0)
    <3>1. CASE OtaThread
      BY <1>1, <3>1 DEF OtaThread, CallTransport, OpenFails, SendNext, StoreWait, Resend,
        GiveUp, Refused, WaitTurn, WaitTimeout, Abandon, zigbeeModeReset, EndAcked,
        UploadComplete, RestartApp, Crash, AfterLoop, lineVars
    <3>2. CASE RxThread
      BY <1>1, <3>2 DEF RxThread, RxByte, RxText, RxStore, zcVars, lineVars
    <3>3. CASE External
      BY <1>1, <1>3, <3>3 DEF External, ZcEnterBoot, ZcPoll, ZcReceive, ZcRecord, ZcEot,
        LoseToZc, LoseToGw, zcVars
    <3>4. CASE UNCHANGED vars
      BY <3>4 DEF vars
    <3>. QED BY <3>1, <3>2, <3>3, <3>4 DEF Next
  <2>. SUFFICES ASSUME offers = 1, installed = 0, installed' = 0
                PROVE  /\ zcSoftVersion' = "old" /\ otaPc' # "restart"
                       /\ zcXmodemStation' # "RESTART_APP" /\ rxWrite' # "RESTART_APP"
                       /\ \A i \in 1 .. Len(toGw') : toGw'[i] # "complete"
    BY <1>1, <2>1 DEF NoWordOfSuccess
  <2>2. /\ zcSoftVersion = "old" /\ otaPc # "restart"
        /\ zcXmodemStation # "RESTART_APP" /\ rxWrite # "RESTART_APP"
        /\ \A i \in 1 .. Len(toGw) : toGw[i] # "complete"
    BY DEF NoWordOfSuccess
  <2>3. CASE OtaThread
    <3>1. toGw' = toGw /\ rxWrite' = rxWrite
      BY <2>3 DEF OtaThread, CallTransport, OpenFails, SendNext, StoreWait, Resend, GiveUp,
        Refused, WaitTurn, WaitTimeout, Abandon, zigbeeModeReset, EndAcked, UploadComplete,
        RestartApp, Crash, AfterLoop, lineVars, rxVars
    <3>2. zcSoftVersion' = "old" /\ otaPc' # "restart" /\ zcXmodemStation' # "RESTART_APP"
      BY <2>2, <2>3 DEF OtaThread, CallTransport, OpenFails, SendNext, StoreWait, Resend,
        GiveUp, Refused, WaitTurn, WaitTimeout, Abandon, zigbeeModeReset, EndAcked,
        UploadComplete, RestartApp, Crash, AfterLoop, shared, flags
    <3>. QED BY <2>2, <3>1, <3>2
  <2>4. CASE RxThread
    <3>1. zcSoftVersion' = "old" /\ otaPc' # "restart" /\ zcXmodemStation' # "RESTART_APP"
      BY <2>2, <2>4 DEF RxThread, RxByte, RxText, RxStore, otaVars, flags
    <3>2. \A k \in 1 .. Len(toGw) : ~UploadEnds(k)
      BY <1>1, <2>2 DEF UploadEnds
    <3>3. rxWrite' # "RESTART_APP"
      BY <1>1, <2>2, <2>4, <3>2 DEF RxThread, RxByte, RxText, RxStore, StationFor,
        StartUpgrade, SingleByte
    <3>4. toGw' = toGw \/ \E k \in 1 .. Len(toGw) : toGw' = SubSeq(toGw, k + 1, Len(toGw))
      <4>1. CASE RxByte
        <5>1. toGw # <<>> /\ toGw' = Tail(toGw)
          BY <4>1 DEF RxByte
        <5>2. 1 \in 1 .. Len(toGw) /\ Tail(toGw) = SubSeq(toGw, 1 + 1, Len(toGw))
          BY <1>1, <5>1
        <5>. QED BY <5>1, <5>2
      <4>2. CASE RxText
        BY <4>2 DEF RxText
      <4>3. CASE RxStore
        BY <4>3 DEF RxStore, lineVars
      <4>. QED BY <2>4, <4>1, <4>2, <4>3 DEF RxThread
    <3>5. \A i \in 1 .. Len(toGw') : toGw'[i] # "complete"
      <4>1. CASE toGw' = toGw
        BY <2>2, <4>1
      <4>2. ASSUME NEW k \in 1 .. Len(toGw), toGw' = SubSeq(toGw, k + 1, Len(toGw))
            PROVE  \A i \in 1 .. Len(toGw') : toGw'[i] # "complete"
        <5>1. /\ Len(toGw') = Len(toGw) - k
              /\ \A i \in 1 .. Len(toGw') : toGw'[i] = toGw[k + i]
          BY <1>1, <4>2
        <5>2. \A i \in 1 .. Len(toGw') : k + i \in 1 .. Len(toGw)
          BY <1>1, <5>1
        <5>. QED BY <2>2, <5>1, <5>2
      <4>. QED BY <3>4, <4>1, <4>2
    <3>. QED BY <3>1, <3>3, <3>5
  <2>5. CASE External
    <3>1. zcSoftVersion' = "old" /\ otaPc' # "restart"
          /\ zcXmodemStation' # "RESTART_APP" /\ rxWrite' # "RESTART_APP"
      BY <1>3, <2>2, <2>5 DEF External, ZcEnterBoot, ZcPoll, ZcReceive, LoseToZc, LoseToGw,
        GwUnchanged, shared, otaVars, rxVars
    <3>2. \/ toGw' = toGw
          \/ \E m \in ToGwMsg \ {"complete"} : toGw' = Put(toGw, m)
          \/ toGw # <<>> /\ toGw' = Tail(toGw)
      <4>1. CASE ZcEnterBoot \/ ZcPoll
        BY <4>1 DEF ZcEnterBoot, ZcPoll, Answer, ToGwMsg, SingleByte
      <4>2. CASE ZcReceive
        <5>1. CASE ZcRecord(Head(toZc))
          BY <5>1 DEF ZcRecord, Answer, ToGwMsg, SingleByte
        <5>2. CASE ZcEot
          BY <5>2 DEF ZcEot, Answer, ToGwMsg, SingleByte
        <5>. QED BY <4>2, <5>1, <5>2 DEF ZcReceive
      <4>3. CASE LoseToZc \/ LoseToGw
        BY <4>3 DEF LoseToZc, LoseToGw
      <4>. QED BY <1>3, <2>5, <4>1, <4>2, <4>3 DEF External
    <3>3. \A i \in 1 .. Len(toGw') : toGw'[i] # "complete"
      <4>1. CASE \E m \in ToGwMsg \ {"complete"} : toGw' = Put(toGw, m)
        BY <1>1, <2>2, <4>1, PutOnly
      <4>2. CASE toGw # <<>> /\ toGw' = Tail(toGw)
        BY <1>1, <2>2, <4>2
      <4>. QED BY <2>2, <3>2, <4>1, <4>2
    <3>. QED BY <3>1, <3>3
  <2>6. CASE UNCHANGED vars
    BY <2>2, <2>6 DEF vars
  <2>. QED BY <2>3, <2>4, <2>5, <2>6 DEF Next
<1>. QED BY <1>2, <1>3

\* Until a second image is offered, a recorded version is that of an image the ZC holds.
THEOREM FirstUploadAlwaysHonest == Spec => []FirstUploadHonest
<1>1. TypeOK /\ NoWordOfSuccess => FirstUploadHonest
  BY DEF TypeOK, ExternalTypes, NoWordOfSuccess, FirstUploadHonest
<1>. QED BY <1>1, TypeInit, TypeStep, NoWordInit, NoWordStep, PTL DEF Spec

-----------------------------------------------------------------------------
(* The ZC an upload leaves behind *)

\* The ZC keeps an image until 'r', and the serial line belongs to a call until it ends.
LineFits == Len(toZc) <= LineCap
DoneHolds == zc.mode = "done" => zc.got = Image

FlagHeld ==
  /\ InCall => devOtaUpdateingFlag = 1
  /\ otaPc = "restart" => openFileFlag = 0

NumsIn(S) == \A i \in 1 .. Len(toZc) : toZc[i].kind = "record" => toZc[i].num \in S

NoComplete == \A i \in 1 .. Len(toGw) : toGw[i] # "complete"

\* Before a call opens the file nothing of an upload is there, nor of its end.
Fresh == openFileFlag = 0
FreshHeld ==
  Fresh => /\ zc.mode = "done" \/ zc.got = <<>>
           /\ NumsIn({0})
           /\ NoComplete /\ rxWrite # "RESTART_APP"

\* While a failing call would not reset the ZC, and once such a call has given the line
\* back, the ZC has one block at most and can get no other.
Few == Fresh \/ (InCall /\ xfer.real <= 1) \/ (~InCall /\ devOtaUpdateingFlag = 0)
FewHeld == Few => (zc.mode = "done" \/ Len(zc.got) <= 1) /\ NumsIn({0, 1})

\* An EOT that a ZC with an image drops: no 'r' comes before it.
Spent(i) == zc.mode = "done" /\ \A l \in 1 .. i : toZc[l].kind # "r"

\* Nothing but EOT and CAN follows an EOT, unless that EOT is one of an upload before;
\* and before a call has sent the last record every EOT is.
Pairs ==
  \A i, j \in 1 .. Len(toZc) :
    i < j /\ toZc[i].kind = "EOT" /\ toZc[j].kind \in {"record", "r"} => Spent(i)
Eots == \A i \in 1 .. Len(toZc) : toZc[i].kind = "EOT" => Spent(i)
BeforeEnd == Fresh \/ (InCall /\ xfer.endFlag = 0)
LineHeld == Pairs /\ (BeforeEnd => Eots)

\* In a call that has the file open the news of the end, wherever it is, is that of a
\* ZC with an image and of a line without records, and there is one such piece of news.
Ended ==
  /\ zc.mode = "done" /\ xfer.endFlag = 1
  /\ \A i \in 1 .. Len(toZc) : toZc[i].kind \in {"EOT", "CAN"}
NewsInText ==
  \A i \in 1 .. Len(toGw) : toGw[i] = "complete" =>
    /\ Ended /\ rxWrite # "RESTART_APP" /\ zcXmodemStation # "RESTART_APP"
    /\ \A j \in 1 .. Len(toGw) : toGw[j] = "complete" => j = i
NewsInStation ==
  /\ rxWrite = "RESTART_APP" => Ended /\ zcXmodemStation # "RESTART_APP"
  /\ zcXmodemStation = "RESTART_APP" => Ended
Open == InCall /\ openFileFlag = 1
EndHeld == Open => NewsInText /\ NewsInStation

Held == FreshHeld /\ FewHeld /\ LineHeld /\ EndHeld
MidInv == reused = 0 => LineFits /\ DoneHolds /\ FlagHeld /\ Held

-----------------------------------------------------------------------------
(* How a step changes a line *)

\* toZc with m written behind it, or m in the place of its last message.
Grown(m) ==
  \A i \in 1 .. Len(toZc') : \/ i \in 1 .. Len(toZc) /\ toZc'[i] = toZc[i]
                             \/ i = Len(toZc') /\ toZc'[i] = m
\* toZc with its first message gone, toGw with its first k gone.
Shortened ==
  Len(toZc') \in Nat /\ \A i \in 1 .. Len(toZc') : i + 1 \in 1 .. Len(toZc) /\ toZc'[i] = toZc[i + 1]
Read(k) ==
  Len(toGw') \in Nat /\ \A i \in 1 .. Len(toGw') : i + k \in 1 .. Len(toGw) /\ toGw'[i] = toGw[i + k]

LEMMA PutGrows ==
  ASSUME toZc \in Seq(ToZcMsg), LineFits, NEW m \in ToZcMsg,
         toZc' \in {toZc, Put(toZc, m), Insist(toZc, m)}
  PROVE  Grown(m) /\ Len(toZc') \in Nat /\ LineFits'
<1>1. CASE toZc' = toZc
  BY <1>1 DEF Grown, LineFits
<1>2. CASE toZc' = Append(toZc, m) /\ Len(toZc) < LineCap
  BY <1>2, SizesAssumption DEF Grown, LineFits
<1>3. CASE toZc' = [toZc EXCEPT ![LineCap] = m] /\ ~(Len(toZc) < LineCap)
  <2>. USE SizesAssumption
  <2>1. Len(toZc') = Len(toZc) /\ Len(toZc') \in Nat
    BY <1>3
  <2>2. ASSUME NEW i \in 1 .. Len(toZc') PROVE toZc'[i] = IF i = LineCap THEN m ELSE toZc[i]
    BY <1>3, <2>1
  <2>3. Len(toZc) = LineCap
    BY <1>3 DEF LineFits
  <2>. QED BY <2>1, <2>2, <2>3 DEF Grown, LineFits
<1>. QED BY <1>1, <1>2, <1>3 DEF Put, Insist

LEMMA TailShortens ==
  ASSUME toZc \in Seq(ToZcMsg), toZc # <<>>, toZc' = Tail(toZc)
  PROVE  Shortened
  BY DEF Shortened

LEMMA SuffixReads ==
  ASSUME toGw \in Seq(ToGwMsg), NEW k \in 1 .. Len(toGw),
         toGw' = SubSeq(toGw, k + 1, Len(toGw))
  PROVE  Read(k)
<1>1. Len(toGw') = Len(toGw) - k /\ \A i \in 1 .. Len(toGw') : toGw'[i] = toGw[k + i]
  OBVIOUS
<1>. QED BY <1>1 DEF Read

LEMMA TailReads ==
  ASSUME toGw \in Seq(ToGwMsg), toGw # <<>>, toGw' = Tail(toGw)
  PROVE  Read(1)
  BY DEF Read

\* A message written keeps the line to the ZC as it is held, if it is no record or 'r'
\* behind an EOT that counts.
LEMMA GrownLine ==
  ASSUME LineHeld, NEW m \in ToZcMsg, Grown(m), Len(toZc') \in Nat, zc'.mode = zc.mode,
         m.kind \in {"record", "r"} => BeforeEnd,
         BeforeEnd' => BeforeEnd /\ m.kind # "EOT"
  PROVE  LineHeld'
<1>1. ASSUME NEW i \in 1 .. Len(toZc'), toZc'[i].kind = "EOT", BeforeEnd \/ i < Len(toZc'),
             i \in 1 .. Len(toZc) /\ toZc'[i] = toZc[i], Spent(i)
      PROVE  Spent(i)'
  <2>1. ASSUME NEW l \in 1 .. i PROVE toZc'[l].kind # "r"
    <3>1. CASE l = i
      BY <1>1, <3>1
    <3>2. CASE l # i
      <4>1. l \in 1 .. Len(toZc') /\ l # Len(toZc')
        BY <1>1, <3>2
      <4>2. toZc'[l] = toZc[l]
        BY <4>1 DEF Grown
      <4>. QED BY <1>1, <4>2 DEF Spent
    <3>. QED BY <3>1, <3>2
  <2>. QED BY <1>1, <2>1 DEF Spent
<1>2. ASSUME NEW i \in 1 .. Len(toZc'), NEW j \in 1 .. Len(toZc'), i < j,
             toZc'[i].kind = "EOT", toZc'[j].kind \in {"record", "r"}
      PROVE  Spent(i)'
  <2>1. i \in 1 .. Len(toZc) /\ toZc'[i] = toZc[i]
    BY <1>2 DEF Grown
  <2>2. Spent(i)
    <3>1. CASE j \in 1 .. Len(toZc) /\ toZc'[j] = toZc[j]
      BY <1>2, <2>1, <3>1 DEF LineHeld, Pairs
    <3>2. CASE toZc'[j] = m
      BY <1>2, <2>1, <3>2 DEF LineHeld, Eots
    <3>. QED BY <3>1, <3>2 DEF Grown
  <2>. QED BY <1>1, <1>2, <2>1, <2>2
<1>3. ASSUME BeforeEnd', NEW i \in 1 .. Len(toZc'), toZc'[i].kind = "EOT"
      PROVE  Spent(i)'
  <2>1. i \in 1 .. Len(toZc) /\ toZc'[i] = toZc[i]
    BY <1>3 DEF Grown
  <2>2. Spent(i)
    BY <1>3, <2>1 DEF LineHeld, Eots
  <2>. QED BY <1>1, <1>3, <2>1, <2>2
<1>4. Pairs'
  BY <1>2 DEF Pairs
<1>5. BeforeEnd' => Eots'
  BY <1>3 DEF Eots
<1>. QED BY <1>4, <1>5 DEF LineHeld

\* ... and so does a message received, lost or dropped by a ZC that stays done.
LEMMA ShortenedLine ==
  ASSUME LineHeld, Shortened, zc.mode = "done" => zc'.mode = "done", BeforeEnd' => BeforeEnd
  PROVE  LineHeld'
<1>1. ASSUME NEW i \in 1 .. Len(toZc'), Spent(i + 1)
      PROVE  Spent(i)'
  <2>1. ASSUME NEW l \in 1 .. i PROVE toZc'[l].kind # "r"
    <3>1. l \in 1 .. Len(toZc') /\ l + 1 \in 1 .. i + 1
      BY DEF Shortened
    <3>. QED BY <1>1, <3>1 DEF Spent, Shortened
  <2>. QED BY <1>1, <2>1 DEF Spent
<1>2. ASSUME NEW i \in 1 .. Len(toZc'), NEW j \in 1 .. Len(toZc'), i < j,
             toZc'[i].kind = "EOT", toZc'[j].kind \in {"record", "r"}
      PROVE  Spent(i)'
  <2>1. /\ i + 1 \in 1 .. Len(toZc) /\ toZc'[i] = toZc[i + 1]
        /\ j + 1 \in 1 .. Len(toZc) /\ toZc'[j] = toZc[j + 1]
        /\ i + 1 < j + 1
    BY <1>2 DEF Shortened
  <2>2. Spent(i + 1)
    BY <1>2, <2>1 DEF LineHeld, Pairs
  <2>. QED BY <1>1, <2>2
<1>3. ASSUME BeforeEnd', NEW i \in 1 .. Len(toZc'), toZc'[i].kind = "EOT"
      PROVE  Spent(i)'
  <2>1. i + 1 \in 1 .. Len(toZc) /\ toZc'[i] = toZc[i + 1]
    BY <1>3 DEF Shortened
  <2>2. Spent(i + 1)
    BY <1>3, <2>1 DEF LineHeld, Eots
  <2>. QED BY <1>1, <2>2
<1>4. Pairs'
  BY <1>2 DEF Pairs
<1>5. BeforeEnd' => Eots'
  BY <1>3 DEF Eots
<1>. QED BY <1>4, <1>5 DEF LineHeld

\* The records on a line that grows or shrinks.
LEMMA GrownNums ==
  ASSUME NEW S, NumsIn(S), NEW m \in ToZcMsg, Grown(m), m.kind = "record" => m.num \in S
  PROVE  NumsIn(S)'
  BY DEF NumsIn, Grown

LEMMA ShortenedNums ==
  ASSUME NEW S, NumsIn(S), Shortened
  PROVE  NumsIn(S)'
  BY DEF NumsIn, Shortened

-----------------------------------------------------------------------------
(* The OTA thread *)

\* What the steps below start from.
Before == TypeOK /\ HandleInv /\ MidInv /\ reused = 0

LEMMA BeforeFacts ==
  Before =>
    /\ Held /\ LineFits /\ DoneHolds /\ FlagHeld
    /\ toZc \in Seq(ToZcMsg) /\ toGw \in Seq(ToGwMsg)
    /\ zc \in [mode : {"app", "boot", "erased", "done"}, got : Seq(0 .. NumBlocks)]
    /\ xfer.real \in Nat /\ xfer.endFlag \in {0, 1} /\ xfer.remain \in Int
    /\ xfer.pack \in 0 .. PackMod - 1 /\ xfer.frame \in 0 .. NumBlocks
    /\ openFileFlag \in {0, 1} /\ devOtaUpdateingFlag \in {0, 1}
  BY DEF Before, MidInv, TypeOK, ExternalTypes, LocalsType, ThreadTypes, SharedTypes

\* The steps that leave the lines, the ZC and the pending store alone.
LEMMA HeldKept ==
  ASSUME Held, UNCHANGED <<toZc, toGw, zc, rxWrite>>,
         Fresh' => Fresh, Few' => Few, BeforeEnd' => BeforeEnd,
         Open' => Open /\ xfer'.endFlag = xfer.endFlag,
         zcXmodemStation' = zcXmodemStation \/ zcXmodemStation' # "RESTART_APP"
  PROVE  Held'
<1>1. FreshHeld'
  BY DEF Held, FreshHeld, NumsIn, NoComplete
<1>2. FewHeld'
  BY DEF Held, FewHeld, NumsIn
<1>3. LineHeld'
  BY DEF Held, LineHeld, Pairs, Eots, Spent
<1>4. EndHeld'
  BY DEF Held, EndHeld, NewsInText, NewsInStation, Ended
<1>. QED BY <1>1, <1>2, <1>3, <1>4 DEF Held

LEMMA HeldCalls ==
  ASSUME Before, reused' = 0,
         CallTransport \/ OpenFails \/ StoreWait \/ WaitTurn \/ EndAcked \/ Crash \/ AfterLoop
  PROVE  Held'
<1>. USE BeforeFacts DEF InCall, Fresh, Few, BeforeEnd, Open, FlagHeld
<1>. USE DEF shared, flags, rxVars, lineVars, fileVars
<1>1. UNCHANGED <<toZc, toGw, zc, rxWrite>>
  BY DEF CallTransport, OpenFails, StoreWait, WaitTurn, EndAcked, Crash, AfterLoop
<1>2. zcXmodemStation' = zcXmodemStation \/ zcXmodemStation' # "RESTART_APP"
  BY DEF CallTransport, OpenFails, StoreWait, WaitTurn, EndAcked, Crash, AfterLoop
<1>3. CASE CallTransport
  <2>1. openFileFlag = 0 /\ openFileFlag' = openFileFlag
    BY <1>3 DEF CallTransport
  <2>2. Fresh /\ ~Open' /\ Few /\ BeforeEnd
    BY <2>1
  <2>. QED BY <1>1, <1>2, <2>2, HeldKept
<1>4. CASE OpenFails \/ Crash \/ AfterLoop \/ EndAcked
  BY <1>1, <1>2, <1>4, HeldKept DEF OpenFails, Crash, AfterLoop, EndAcked
<1>5. CASE StoreWait
  BY <1>1, <1>2, <1>5, HeldKept DEF StoreWait
<1>6. CASE WaitTurn
  <2>1. xfer'.endFlag = xfer.endFlag /\ xfer'.real = xfer.real
    BY <1>6 DEF WaitTurn, TypeOK, LocalsType, Before
  <2>. QED BY <1>1, <1>2, <1>6, <2>1, HeldKept DEF WaitTurn
<1>. QED BY <1>3, <1>4, <1>5, <1>6

LEMMA HeldAbandon ==
  ASSUME Before, otaPc = "switch", NEW line \in {toZc, Cancel}, Abandon(line)
  PROVE  Held' /\ LineFits' /\ DoneHolds'
<1>. USE BeforeFacts
<1>0. /\ InCall /\ ~InCall' /\ openFileFlag' = openFileFlag /\ rxWrite' = rxWrite
      /\ toGw' = toGw
  BY DEF Abandon, InCall, fileVars, rxVars, zigbeeModeReset
<1>1. CASE Begun
  <2>1. toZc' = <<>> /\ zc' = [mode |-> RestartMode, got |-> <<>>]
    <3>1. Begun /\ zigbeeModeReset
      BY <1>1 DEF Abandon
    <3>. QED BY <3>1 DEF zigbeeModeReset
  <2>2. Fresh' => Fresh
    BY <1>0 DEF Fresh
  <2>3. FreshHeld'
    BY <1>0, <2>1, <2>2 DEF Held, FreshHeld, NumsIn, NoComplete
  <2>4. FewHeld'
    BY <2>1 DEF FewHeld, NumsIn
  <2>5. LineHeld'
    BY <2>1 DEF LineHeld, Pairs, Eots
  <2>6. EndHeld'
    BY <1>0 DEF EndHeld, Open
  <2>7. LineFits' /\ DoneHolds'
    BY <2>1, SizesAssumption DEF LineFits, DoneHolds, RestartMode
  <2>. QED BY <2>3, <2>4, <2>5, <2>6, <2>7 DEF Held
<1>2. CASE ~Begun
  <2>1. toZc' = line /\ zc' = zc
    BY <1>2 DEF Abandon
  <2>2. Few /\ (Fresh' => Fresh) /\ (BeforeEnd' => BeforeEnd)
    BY <1>0, <1>2 DEF Few, Fresh, BeforeEnd, Begun
  <2>. DEFINE m == Byte("CAN")
  <2>3. m \in ToZcMsg /\ m.kind = "CAN"
    BY MessageTypes DEF Byte
  <2>4. toZc' \in {toZc, Put(toZc, m), Insist(toZc, m)}
    BY <2>1 DEF Cancel
  <2>. HIDE DEF m
  <2>5. Grown(m) /\ Len(toZc') \in Nat /\ LineFits'
    BY <2>3, <2>4, PutGrows
  <2>6. FreshHeld'
    BY <1>0, <2>1, <2>2, <2>3, <2>5, GrownNums DEF Held, FreshHeld, NoComplete
  <2>7. FewHeld'
    BY <2>1, <2>2, <2>3, <2>5, GrownNums DEF Held, FewHeld
  <2>8. LineHeld'
    BY <2>1, <2>2, <2>3, <2>5, GrownLine DEF Held
  <2>9. EndHeld'
    BY <1>0 DEF EndHeld, Open
  <2>. QED BY <2>1, <2>5, <2>6, <2>7, <2>8, <2>9 DEF Held, DoneHolds
<1>. QED BY <1>1, <1>2

\* The message of a call that has the file open by then, a record or EOT.
LEMMA HeldSend ==
  ASSUME Before, SendNext
  PROVE  Held' /\ LineFits'
<1>. USE BeforeFacts, SizesAssumption
<1>. DEFINE m == NextMessage
<1>1. /\ InCall /\ InCall' /\ openFileFlag' = 1 /\ zc' = zc /\ toGw' = toGw
      /\ rxWrite' = rxWrite /\ zcXmodemStation' = zcXmodemStation
      /\ zcXmodemStation \in {"ACK", "START"}
  BY DEF SendNext, InCall, rxVars
<1>2. /\ xfer'.real = xfer.real + 1
      /\ xfer'.endFlag = IF Left > 0 THEN xfer.endFlag ELSE 1
      /\ toZc' = Put(toZc, m)
  BY DEF SendNext, Send
<1>3. m \in ToZcMsg /\ NextPack \in 0 .. PackMod - 1 /\ NextBlock \in 0 .. NumBlocks /\ Left \in Int
  BY NextTypes DEF Before
<1>4. /\ m.kind = IF Left > 0 THEN "record" ELSE "EOT"
      /\ Left > 0 => m.num = NextPack
  BY DEF NextMessage, RecordOf, Byte
<1>. HIDE DEF m
<1>5. Grown(m) /\ Len(toZc') \in Nat /\ LineFits'
  BY <1>2, <1>3, PutGrows
<1>6. Fresh => xfer.real = 0 /\ xfer.endFlag = 0
  BY <1>1 DEF Before, HandleInv, Fresh
<1>7. ~Fresh => (xfer.endFlag = 1 => Left <= 0)
  BY <1>1 DEF Before, HandleInv, Fresh, Left, Opening
<1>8. Left > 0 => xfer.endFlag = 0 /\ BeforeEnd
  BY <1>1, <1>3, <1>6, <1>7 DEF BeforeEnd
<1>9. FreshHeld'
  BY <1>1 DEF FreshHeld, Fresh
<1>10. FewHeld'
  <2>. SUFFICES ASSUME Few' PROVE (zc.mode = "done" \/ Len(zc.got) <= 1) /\ NumsIn({0, 1})'
    BY <1>1 DEF FewHeld
  <2>1. xfer.real = 0
    BY <1>1, <1>2 DEF Few, Fresh
  <2>2. Few
    BY <1>1, <2>1 DEF Few
  <2>3. NextPack = 1
    <3>1. xfer.pack = 0 % PackMod
      BY <1>1, <2>1 DEF Before, HandleInv
    <3>2. 0 % PackMod = 0 /\ 1 % PackMod = 1
      BY PackSmall
    <3>. QED BY <3>1, <3>2 DEF NextPack
  <2>4. m.kind = "record" => m.num \in {0, 1}
    BY <1>4, <2>3
  <2>. QED BY <1>3, <1>5, <2>2, <2>4, GrownNums DEF Held, FewHeld
<1>11. LineHeld'
  <2>1. m.kind \in {"record", "r"} => BeforeEnd
    BY <1>3, <1>4, <1>8
  <2>2. BeforeEnd' => BeforeEnd /\ m.kind # "EOT"
    BY <1>1, <1>2, <1>3, <1>4, <1>8 DEF BeforeEnd, Fresh
  <2>. QED BY <1>1, <1>3, <1>5, <2>1, <2>2, GrownLine DEF Held
<1>12. EndHeld'
  <2>1. CASE Fresh
    BY <1>1, <2>1 DEF EndHeld, NewsInText, NewsInStation, Held, FreshHeld, NoComplete
  <2>2. CASE ~Fresh
    <3>1. Open
      BY <1>1, <2>2 DEF Open, Fresh
    <3>2. NewsInText /\ NewsInStation
      BY <3>1 DEF Held, EndHeld
    <3>3. Ended => Ended'
      <4>. SUFFICES ASSUME Ended PROVE Ended'
        OBVIOUS
      <4>1. xfer'.endFlag = 1 /\ m.kind = "EOT"
        BY <1>2, <1>4, <1>3, <1>7, <2>2 DEF Ended
      <4>2. \A i \in 1 .. Len(toZc') : toZc'[i].kind \in {"EOT", "CAN"}
        BY <1>5, <4>1 DEF Ended, Grown
      <4>. QED BY <1>1, <4>1, <4>2 DEF Ended
    <3>. QED BY <1>1, <3>2, <3>3 DEF EndHeld, NewsInText, NewsInStation
  <2>. QED BY <2>1, <2>2
<1>. QED BY <1>5, <1>9, <1>10, <1>11, <1>12 DEF Held

\* The same frame again.
LEMMA HeldResend ==
  ASSUME Before, Resend
  PROVE  Held' /\ LineFits'
<1>. USE BeforeFacts
<1>. DEFINE m == IF xfer.endFlag = 1 THEN Byte("EOT") ELSE RecordOf(xfer.pack, xfer.frame)
<1>1. /\ InCall /\ InCall' /\ openFileFlag' = openFileFlag /\ zc' = zc /\ toGw' = toGw
      /\ rxWrite' = rxWrite /\ zcXmodemStation' = zcXmodemStation
      /\ zcXmodemStation = "NAK"
  BY DEF Resend, InCall, rxVars, fileVars, shared
<1>2. /\ xfer'.real = xfer.real /\ xfer'.endFlag = xfer.endFlag
      /\ toZc' = Put(toZc, m)
  BY DEF Resend, Send, Before, TypeOK, LocalsType
<1>3. m \in ToZcMsg
  BY MessageTypes
<1>4. /\ m.kind = IF xfer.endFlag = 1 THEN "EOT" ELSE "record"
      /\ m.kind = "record" => m.num = xfer.pack
  BY DEF RecordOf, Byte
<1>. HIDE DEF m
<1>5. Grown(m) /\ Len(toZc') \in Nat /\ LineFits'
  BY <1>2, <1>3, PutGrows
<1>6. Fresh => xfer.real = 0 /\ xfer.endFlag = 0
  BY <1>1 DEF Before, HandleInv, Fresh
<1>7. xfer.real \in {0, 1} => xfer.pack = xfer.real
  <2>1. xfer.pack = xfer.real % PackMod
    BY <1>1 DEF Before, HandleInv
  <2>. QED BY <2>1, PackSmall
<1>8. FreshHeld'
  <2>. SUFFICES ASSUME Fresh' PROVE FreshHeld'
    BY DEF FreshHeld
  <2>1. Fresh /\ (m.kind = "record" => m.num \in {0})
    BY <1>1, <1>4, <1>6, <1>7 DEF Fresh
  <2>. QED BY <1>1, <1>3, <1>5, <2>1, GrownNums DEF Held, FreshHeld, NoComplete
<1>9. FewHeld'
  <2>. SUFFICES ASSUME Few' PROVE FewHeld'
    BY DEF FewHeld
  <2>1. Few /\ xfer.real \in {0, 1}
    <3>1. CASE Fresh
      BY <1>6, <3>1 DEF Few
    <3>2. CASE ~Fresh
      <4>1. xfer.real <= 1
        BY <1>1, <1>2, <3>2 DEF Few, Fresh
      <4>2. xfer.real \in {0, 1}
        BY <4>1
      <4>. QED BY <1>1, <4>1, <4>2 DEF Few
    <3>. QED BY <3>1, <3>2
  <2>2. m.kind = "record" => m.num \in {0, 1}
    BY <1>4, <1>7, <2>1
  <2>. QED BY <1>1, <1>3, <1>5, <2>1, <2>2, GrownNums DEF Held, FewHeld
<1>10. LineHeld'
  <2>1. m.kind \in {"record", "r"} => BeforeEnd
    BY <1>1, <1>4 DEF BeforeEnd
  <2>2. BeforeEnd' => BeforeEnd /\ m.kind # "EOT"
    BY <1>1, <1>2, <1>4, <1>6 DEF BeforeEnd, Fresh
  <2>. QED BY <1>1, <1>3, <1>5, <2>1, <2>2, GrownLine DEF Held
<1>11. EndHeld'
  <2>. SUFFICES ASSUME Open' PROVE NewsInText' /\ NewsInStation'
    BY DEF EndHeld
  <2>1. NewsInText /\ NewsInStation
    BY <1>1 DEF Held, EndHeld, Open
  <2>2. Ended => Ended'
    <3>. SUFFICES ASSUME Ended PROVE Ended'
      OBVIOUS
    <3>1. m.kind = "EOT"
      BY <1>4 DEF Ended
    <3>2. \A i \in 1 .. Len(toZc') : toZc'[i].kind \in {"EOT", "CAN"}
      BY <1>5, <3>1 DEF Ended, Grown
    <3>. QED BY <1>1, <1>2, <3>2 DEF Ended
  <2>. QED BY <1>1, <2>1, <2>2 DEF NewsInText, NewsInStation
<1>. QED BY <1>5, <1>8, <1>9, <1>10, <1>11 DEF Held

\* The end of an upload finds a ZC with an image and a line without records.
LEMMA HeldComplete ==
  ASSUME Before, UploadComplete
  PROVE  Held'
<1>1. /\ UNCHANGED <<toZc, toGw, zc, rxWrite, zcXmodemStation>>
      /\ zcXmodemStation = "RESTART_APP" /\ InCall /\ ~InCall' /\ openFileFlag' = 0
  BY DEF UploadComplete, InCall, lineVars, rxVars
<1>2. CASE Fresh
  BY <1>1, <1>2, HeldKept, BeforeFacts DEF Fresh, Few, BeforeEnd, Open
<1>3. CASE ~Fresh
  <2>1. Open
    BY <1>1, <1>3, BeforeFacts DEF Open, Fresh
  <2>2. NewsInText /\ NewsInStation
    BY <2>1, BeforeFacts DEF Held, EndHeld
  <2>3. Ended /\ NoComplete /\ rxWrite # "RESTART_APP"
    BY <1>1, <2>2 DEF NewsInText, NewsInStation, NoComplete
  <2>4. \A S : NumsIn(S)
    BY <2>3 DEF Ended, NumsIn
  <2>5. FreshHeld' /\ FewHeld'
    BY <1>1, <2>3, <2>4 DEF FreshHeld, FewHeld, Ended, NumsIn, NoComplete
  <2>6. LineHeld'
    <3>1. toZc \in Seq(ToZcMsg)
      BY BeforeFacts
    <3>2. \A i \in 1 .. Len(toZc) : Spent(i)'
      BY <1>1, <2>3, <3>1 DEF Ended, Spent
    <3>. QED BY <1>1, <3>2 DEF LineHeld, Pairs, Eots
  <2>7. EndHeld'
    BY <1>1 DEF EndHeld, Open
  <2>. QED BY <2>5, <2>6, <2>7 DEF Held
<1>. QED BY <1>2, <1>3

LEMMA HeldRestart ==
  ASSUME Before, RestartApp
  PROVE  Held' /\ LineFits'
<1>. DEFINE m == Byte("r")
<1>1. /\ UNCHANGED <<toGw, zc, rxWrite, openFileFlag>> /\ toZc' = Put(toZc, m)
      /\ ~InCall' /\ openFileFlag = 0
  BY BeforeFacts DEF RestartApp, InCall, rxVars, fileVars, Send, FlagHeld
<1>2. m \in ToZcMsg /\ m.kind = "r"
  BY MessageTypes DEF Byte
<1>. HIDE DEF m
<1>3. Grown(m) /\ Len(toZc') \in Nat /\ LineFits'
  BY <1>1, <1>2, PutGrows, BeforeFacts
<1>4. Fresh /\ Fresh' /\ Few /\ BeforeEnd /\ ~Open'
  BY <1>1 DEF Fresh, Few, BeforeEnd, Open
<1>5. FreshHeld'
  BY <1>1, <1>2, <1>3, <1>4, GrownNums, BeforeFacts DEF Held, FreshHeld, NoComplete
<1>6. FewHeld'
  BY <1>1, <1>2, <1>3, <1>4, GrownNums, BeforeFacts DEF Held, FewHeld
<1>7. LineHeld'
  BY <1>1, <1>2, <1>3, <1>4, GrownLine, BeforeFacts DEF Held
<1>8. EndHeld'
  BY <1>4 DEF EndHeld
<1>. QED BY <1>3, <1>5, <1>6, <1>7, <1>8 DEF Held

-----------------------------------------------------------------------------
(* The receive thread *)

\* What is read of the text, and what is stored for it.
LEMMA RxMoves ==
  ASSUME Before, RxByte \/ RxText \/ RxStore
  PROVE  /\ UNCHANGED <<toZc, zc, otaPc, openFileFlag, xfer>>
         /\ devOtaUpdateingFlag' \in {devOtaUpdateingFlag, 1}
         /\ \/ /\ UNCHANGED toGw
               /\ rxWrite' = "nothing" /\ zcXmodemStation' = rxWrite
            \/ /\ UNCHANGED zcXmodemStation
               /\ \E k \in 1 .. Len(toGw) :
                    /\ toGw' = SubSeq(toGw, k + 1, Len(toGw))
                    /\ rxWrite' = "RESTART_APP" =>
                         \E i \in 1 .. k : toGw[i] = "complete"
<1>0. toGw \in Seq(ToGwMsg)
  BY BeforeFacts
<1>1. UNCHANGED <<toZc, zc, otaPc, openFileFlag, xfer>>
  BY DEF RxByte, RxText, RxStore, otaVars, zcVars, lineVars
<1>2. CASE RxByte
  <2>1. toGw # <<>> /\ toGw' = Tail(toGw) /\ UNCHANGED zcXmodemStation
    BY <1>2 DEF RxByte
  <2>2. 1 \in 1 .. Len(toGw) /\ Tail(toGw) = SubSeq(toGw, 1 + 1, Len(toGw))
    BY <1>0, <2>1
  <2>3. rxWrite' # "RESTART_APP"
    BY <1>2 DEF RxByte, StationFor, StartUpgrade
  <2>4. devOtaUpdateingFlag' \in {devOtaUpdateingFlag, 1}
    BY <1>2 DEF RxByte, StartUpgrade
  <2>. QED BY <1>1, <2>1, <2>2, <2>3, <2>4
<1>3. CASE RxText
  <2>1. devOtaUpdateingFlag' \in {devOtaUpdateingFlag, 1} /\ UNCHANGED zcXmodemStation
        /\ rxWrite = "nothing"
    BY <1>3 DEF RxText, StartUpgrade
  <2>2. PICK k \in 1 .. Len(toGw) :
          /\ toGw' = SubSeq(toGw, k + 1, Len(toGw))
          /\ rxWrite' = "RESTART_APP" => UploadEnds(k)
    BY <1>3 DEF RxText, StartUpgrade
  <2>. QED BY <1>1, <2>1, <2>2 DEF UploadEnds
<1>4. CASE RxStore
  BY <1>1, <1>4 DEF RxStore, flags, lineVars
<1>. QED BY <1>2, <1>3, <1>4

LEMMA HeldRx ==
  ASSUME Before, RxByte \/ RxText \/ RxStore
  PROVE  Held'
<1>1. /\ UNCHANGED <<toZc, zc, otaPc, openFileFlag, xfer>>
      /\ devOtaUpdateingFlag' \in {devOtaUpdateingFlag, 1}
  BY RxMoves
<1>2. /\ Fresh' <=> Fresh
      /\ Few' => Few
      /\ BeforeEnd' <=> BeforeEnd
      /\ Open' <=> Open
      /\ Ended' <=> Ended
  <2>1. InCall' <=> InCall
    BY <1>1 DEF InCall
  <2>. QED BY <1>1, <2>1, BeforeFacts DEF Fresh, Few, BeforeEnd, Open, Ended
<1>3. FewHeld'
  BY <1>1, <1>2, BeforeFacts DEF Held, FewHeld, NumsIn
<1>4. LineHeld'
  BY <1>1, <1>2, BeforeFacts DEF Held, LineHeld, Pairs, Eots, Spent
<1>5. CASE UNCHANGED toGw /\ rxWrite' = "nothing" /\ zcXmodemStation' = rxWrite
  <2>1. FreshHeld'
    BY <1>1, <1>2, <1>5, BeforeFacts DEF Held, FreshHeld, NumsIn, NoComplete
  <2>2. EndHeld'
    BY <1>1, <1>2, <1>5, BeforeFacts DEF Held, EndHeld, NewsInText, NewsInStation
  <2>. QED BY <1>3, <1>4, <2>1, <2>2 DEF Held
<1>6. ASSUME NEW k \in 1 .. Len(toGw), UNCHANGED zcXmodemStation,
             toGw' = SubSeq(toGw, k + 1, Len(toGw)),
             rxWrite' = "RESTART_APP" => \E i \in 1 .. k : toGw[i] = "complete"
      PROVE  Held'
  <2>0. toGw \in Seq(ToGwMsg) /\ Read(k) /\ k \in Nat
    BY <1>6, SuffixReads, BeforeFacts
  <2>1. FreshHeld'
    <3>. SUFFICES ASSUME Fresh PROVE FreshHeld'
      BY <1>2 DEF FreshHeld
    <3>1. FreshHeld /\ NoComplete
      BY BeforeFacts DEF Held, FreshHeld
    <3>2. rxWrite' # "RESTART_APP"
      BY <1>6, <2>0, <3>1 DEF NoComplete
    <3>3. NoComplete'
      BY <2>0, <3>1 DEF NoComplete, Read
    <3>. QED BY <1>1, <3>1, <3>2, <3>3 DEF FreshHeld, Fresh, NumsIn
  <2>2. EndHeld'
    <3>. SUFFICES ASSUME Open PROVE NewsInText' /\ NewsInStation'
      BY <1>2 DEF EndHeld
    <3>1. NewsInText /\ NewsInStation
      BY BeforeFacts DEF Held, EndHeld
    <3>2. CASE rxWrite' = "RESTART_APP"
      <4>1. PICK i \in 1 .. k : toGw[i] = "complete"
        BY <1>6, <3>2
      <4>2. i \in 1 .. Len(toGw)
        BY <2>0
      <4>3. /\ Ended /\ zcXmodemStation # "RESTART_APP"
            /\ \A j \in 1 .. Len(toGw) : toGw[j] = "complete" => j = i
        BY <3>1, <4>1, <4>2 DEF NewsInText
      <4>4. \A j \in 1 .. Len(toGw') : toGw'[j] # "complete"
        <5>1. ASSUME NEW j \in 1 .. Len(toGw'), toGw'[j] = "complete" PROVE FALSE
          <6>1. j + k \in 1 .. Len(toGw) /\ toGw[j + k] = "complete"
            BY <2>0, <5>1 DEF Read
          <6>2. j + k = i
            BY <4>3, <6>1
          <6>. QED BY <2>0, <6>2
        <5>. QED BY <5>1
      <4>. QED BY <1>2, <1>6, <4>3, <4>4 DEF NewsInText, NewsInStation
    <3>3. CASE rxWrite' # "RESTART_APP"
      <4>1. ASSUME NEW i \in 1 .. Len(toGw'), toGw'[i] = "complete"
            PROVE  /\ Ended' /\ zcXmodemStation' # "RESTART_APP"
                   /\ \A j \in 1 .. Len(toGw') : toGw'[j] = "complete" => j = i
        <5>1. i + k \in 1 .. Len(toGw) /\ toGw[i + k] = "complete"
          BY <2>0, <4>1 DEF Read
        <5>2. /\ Ended /\ zcXmodemStation # "RESTART_APP"
              /\ \A j \in 1 .. Len(toGw) : toGw[j] = "complete" => j = i + k
          BY <3>1, <5>1 DEF NewsInText
        <5>3. ASSUME NEW j \in 1 .. Len(toGw'), toGw'[j] = "complete" PROVE j = i
          <6>1. j + k \in 1 .. Len(toGw) /\ toGw[j + k] = "complete"
            BY <2>0, <5>3 DEF Read
          <6>2. j + k = i + k
            BY <5>2, <6>1
          <6>. QED BY <2>0, <6>2
        <5>. QED BY <1>2, <1>6, <5>2, <5>3
      <4>2. NewsInText'
        BY <3>3, <4>1 DEF NewsInText
      <4>. QED BY <1>2, <1>6, <3>1, <3>3, <4>2 DEF NewsInStation
    <3>. QED BY <3>2, <3>3
  <2>. QED BY <1>3, <1>4, <2>1, <2>2 DEF Held
<1>. QED BY <1>5, <1>6, RxMoves

-----------------------------------------------------------------------------
(* The ZC and the line *)

LEMMA GatewayKept ==
  ASSUME GwUnchanged
  PROVE  /\ Fresh' <=> Fresh
         /\ Few' <=> Few
         /\ BeforeEnd' <=> BeforeEnd
         /\ Open' <=> Open
         /\ UNCHANGED <<zcXmodemStation, rxWrite, otaPc, openFileFlag, devOtaUpdateingFlag,
                        reused, xfer>>
  BY DEF GwUnchanged, shared, otaVars, rxVars, Fresh, Few, BeforeEnd, Open, InCall

\* Text that is no news of the end.
LEMMA TextGrows ==
  ASSUME toGw \in Seq(ToGwMsg), NEW m \in ToGwMsg \ {"complete"}, toGw' = Put(toGw, m)
  PROVE  /\ NoComplete => NoComplete'
         /\ Len(toGw') \in Nat
         /\ \A i \in 1 .. Len(toGw') :
              toGw'[i] = "complete" => i \in 1 .. Len(toGw) /\ toGw[i] = "complete"
<1>1. \A i \in 1 .. Len(toGw') :
        toGw'[i] = "complete" => i \in 1 .. Len(toGw) /\ toGw[i] = "complete"
  BY PutOnly
<1>2. Len(toGw') \in Nat
  BY DEF Put
<1>. QED BY <1>1, <1>2 DEF NoComplete

\* A ZC that is not done knows of no end, nor does the gateway.
LEMMA NotEnded ==
  ASSUME Before, Open, ~Ended
  PROVE  NoComplete /\ rxWrite # "RESTART_APP" /\ zcXmodemStation # "RESTART_APP"
  BY BeforeFacts DEF Held, EndHeld, NewsInText, NewsInStation, NoComplete

LEMMA NoNewsNext ==
  ASSUME Open' => NoComplete' /\ rxWrite' # "RESTART_APP" /\ zcXmodemStation' # "RESTART_APP"
  PROVE  EndHeld'
  BY DEF EndHeld, NewsInText, NewsInStation, NoComplete

LEMMA HeldBoot ==
  ASSUME Before, ZcEnterBoot \/ ZcPoll
  PROVE  Held' /\ DoneHolds' /\ LineFits'
<1>1. GwUnchanged /\ toZc' = toZc
  BY DEF ZcEnterBoot, ZcPoll
<1>2. PICK m \in ToGwMsg \ {"complete"} : toGw' = Put(toGw, m)
  BY DEF ZcEnterBoot, ZcPoll, Answer, ToGwMsg, SingleByte
<1>3. toGw \in Seq(ToGwMsg) /\ zc.mode # "done"
  BY BeforeFacts DEF ZcEnterBoot, ZcPoll, Booting
<1>4. zc'.mode # "done" /\ (zc'.got = zc.got \/ zc'.got = <<>>)
  BY <1>3 DEF ZcEnterBoot, ZcPoll, zcVars
<1>5. NoComplete => NoComplete'
  BY <1>2, <1>3, TextGrows
<1>6. ~Ended
  BY <1>3 DEF Ended
<1>7. FreshHeld'
  BY <1>1, <1>3, <1>4, <1>5, GatewayKept, BeforeFacts DEF Held, FreshHeld, NumsIn
<1>8. FewHeld'
  BY <1>1, <1>3, <1>4, GatewayKept, BeforeFacts DEF Held, FewHeld, NumsIn
<1>9. LineHeld'
  BY <1>1, <1>3, <1>4, GatewayKept, BeforeFacts DEF Held, LineHeld, Pairs, Eots, Spent
<1>10. EndHeld'
  BY <1>1, <1>5, <1>6, GatewayKept, NotEnded, NoNewsNext
<1>11. DoneHolds' /\ LineFits'
  BY <1>1, <1>4, BeforeFacts DEF DoneHolds, LineFits
<1>. QED BY <1>7, <1>8, <1>9, <1>10, <1>11 DEF Held

LEMMA HeldLoseText ==
  ASSUME Before, LoseToGw
  PROVE  Held' /\ DoneHolds' /\ LineFits'
<1>1. GwUnchanged /\ toZc' = toZc /\ zc' = zc
  BY DEF LoseToGw, zcVars
<1>2. Read(1)
  BY TailReads, BeforeFacts DEF LoseToGw
<1>3. Len(toGw) \in Nat
  BY BeforeFacts
<1>4. Ended' <=> Ended
  BY <1>1, GatewayKept DEF Ended
<1>5. FreshHeld' /\ FewHeld' /\ LineHeld'
  <2>1. NoComplete => NoComplete'
    BY <1>2 DEF NoComplete, Read
  <2>2. FreshHeld'
    BY <1>1, <2>1, GatewayKept, BeforeFacts DEF Held, FreshHeld, NumsIn
  <2>3. FewHeld'
    BY <1>1, GatewayKept, BeforeFacts DEF Held, FewHeld, NumsIn
  <2>4. LineHeld'
    BY <1>1, GatewayKept, BeforeFacts DEF Held, LineHeld, Pairs, Eots, Spent
  <2>. QED BY <2>2, <2>3, <2>4
<1>6. EndHeld'
  <2>. SUFFICES ASSUME Open PROVE NewsInText' /\ NewsInStation'
    BY <1>1, GatewayKept DEF EndHeld
  <2>1. NewsInText /\ NewsInStation
    BY BeforeFacts DEF Held, EndHeld
  <2>2. ASSUME NEW i \in 1 .. Len(toGw'), toGw'[i] = "complete"
        PROVE  /\ Ended' /\ rxWrite' # "RESTART_APP" /\ zcXmodemStation' # "RESTART_APP"
               /\ \A j \in 1 .. Len(toGw') : toGw'[j] = "complete" => j = i
    <3>1. i + 1 \in 1 .. Len(toGw) /\ toGw[i + 1] = "complete"
      BY <1>2, <2>2 DEF Read
    <3>2. /\ Ended /\ rxWrite # "RESTART_APP" /\ zcXmodemStation # "RESTART_APP"
          /\ \A j \in 1 .. Len(toGw) : toGw[j] = "complete" => j = i + 1
      BY <2>1, <3>1 DEF NewsInText
    <3>3. ASSUME NEW j \in 1 .. Len(toGw'), toGw'[j] = "complete" PROVE j = i
      <4>1. j + 1 \in 1 .. Len(toGw) /\ toGw[j + 1] = "complete"
        BY <1>2, <3>3 DEF Read
      <4>2. j + 1 = i + 1
        BY <3>2, <4>1
      <4>. QED BY <1>2, <4>2 DEF Read
    <3>. QED BY <1>1, <1>4, <3>2, <3>3, GatewayKept
  <2>3. NewsInText'
    BY <2>2 DEF NewsInText
  <2>. QED BY <1>1, <1>4, <2>1, <2>3, GatewayKept DEF NewsInStation
<1>. QED BY <1>1, <1>5, <1>6, BeforeFacts DEF Held, DoneHolds, LineFits

\* The line to the ZC shortened by a message, the text and the ZC as they were.
LEMMA HeldShortened ==
  ASSUME Before, GwUnchanged, Shortened, UNCHANGED <<zc, toGw>>
  PROVE  Held'
<1>1. FreshHeld'
  BY GatewayKept, ShortenedNums, BeforeFacts DEF Held, FreshHeld, NoComplete
<1>2. FewHeld'
  BY GatewayKept, ShortenedNums, BeforeFacts DEF Held, FewHeld
<1>3. LineHeld'
  BY GatewayKept, ShortenedLine, BeforeFacts DEF Held
<1>4. EndHeld'
  <2>1. Ended => Ended'
    BY GatewayKept DEF Ended, Shortened
  <2>. QED BY <2>1, GatewayKept, BeforeFacts DEF Held, EndHeld, NewsInText, NewsInStation
<1>. QED BY <1>1, <1>2, <1>3, <1>4 DEF Held

LEMMA ShortenedFits ==
  ASSUME Before, toZc # <<>>, toZc' = Tail(toZc)
  PROVE  Shortened /\ LineFits'
<1>1. toZc \in Seq(ToZcMsg) /\ LineFits
  BY BeforeFacts
<1>2. Len(toZc') = Len(toZc) - 1
  BY <1>1
<1>. QED BY <1>1, <1>2, TailShortens, SizesAssumption DEF LineFits

\* The ZC in its boot loader takes a record, and none beyond the first that a call may
\* leave behind.
LEMMA HeldRecord ==
  ASSUME Before, GwUnchanged, toZc # <<>>, toZc' = Tail(toZc), zc.mode \in Booting,
         Head(toZc).kind = "record", ZcRecord(Head(toZc))
  PROVE  Held' /\ DoneHolds'
<1>. DEFINE m == Head(toZc)
            n == Len(zc.got)
<1>1. /\ toZc \in Seq(ToZcMsg) /\ toGw \in Seq(ToGwMsg) /\ zc.mode # "done"
      /\ zc.got \in Seq(0 .. NumBlocks) /\ Shortened
      /\ zc \in [mode : {"app", "boot", "erased", "done"}, got : Seq(0 .. NumBlocks)]
  BY BeforeFacts, ShortenedFits DEF Booting
<1>2. m = toZc[1] /\ 1 \in 1 .. Len(toZc) /\ n \in Nat /\ m.kind = "record"
  BY <1>1
<1>3. zc'.mode # "done"
  BY <1>1 DEF ZcRecord, Aborted
<1>4. PICK t \in ToGwMsg \ {"complete"} : toGw' = Put(toGw, t)
  BY DEF ZcRecord, Answer, ToGwMsg, SingleByte
<1>5. \/ zc'.got = zc.got /\ Len(zc'.got) = n
      \/ zc'.got = <<>> /\ Len(zc'.got) = 0
      \/ m.num = (n + 1) % PackMod /\ Len(zc'.got) = n + 1
  BY <1>1, <1>2 DEF ZcRecord, Aborted
<1>. HIDE DEF m, n
<1>6. 1 % PackMod = 1 /\ 2 % PackMod = 2
  <2>1. PackMod \in Nat \ {0} /\ 1 \in 0 .. PackMod - 1 /\ 2 \in 0 .. PackMod - 1
    BY SizesAssumption
  <2>. QED BY <2>1, ModSmall
<1>7. FreshHeld'
  <2>. SUFFICES ASSUME Fresh PROVE FreshHeld'
    BY GatewayKept DEF FreshHeld
  <2>1. FreshHeld /\ n = 0 /\ NumsIn({0}) /\ zc.got = <<>> /\ NoComplete
        /\ rxWrite # "RESTART_APP"
    BY <1>1, BeforeFacts DEF Held, FreshHeld, n
  <2>2. m.num = 0
    BY <1>2, <2>1 DEF NumsIn, m
  <2>3. zc'.got = <<>>
    <3>1. m.num # (n + 1) % PackMod
      BY <1>6, <2>1, <2>2
    <3>. QED BY <1>5, <2>1, <3>1
  <2>4. NumsIn({0})'
    BY <1>1, <2>1, ShortenedNums
  <2>5. NoComplete'
    BY <1>1, <1>4, <2>1, TextGrows
  <2>. QED BY <2>1, <2>3, <2>4, <2>5, GatewayKept DEF FreshHeld
<1>8. FewHeld'
  <2>. SUFFICES ASSUME Few PROVE FewHeld'
    BY GatewayKept DEF FewHeld
  <2>1. n <= 1 /\ NumsIn({0, 1})
    BY <1>1, BeforeFacts DEF Held, FewHeld, n
  <2>2. m.num \in {0, 1}
    BY <1>2, <2>1 DEF NumsIn, m
  <2>3. n = 0 \/ n = 1
    BY <1>2, <2>1
  <2>4. Len(zc'.got) <= 1
    <3>1. CASE n = 0
      <4>1. Len(zc'.got) = 0 \/ Len(zc'.got) = 1
        BY <1>5, <3>1
      <4>2. \A l : l = 0 \/ l = 1 => l <= 1
        OBVIOUS
      <4>. QED BY <4>1, <4>2
    <3>2. CASE n = 1
      <4>1. (n + 1) % PackMod = 2
        BY <1>6, <3>2
      <4>2. m.num # (n + 1) % PackMod
        BY <2>2, <4>1
      <4>3. Len(zc'.got) = 0 \/ Len(zc'.got) = 1
        BY <1>5, <3>2, <4>2
      <4>4. \A l : l = 0 \/ l = 1 => l <= 1
        OBVIOUS
      <4>. QED BY <4>3, <4>4
    <3>. QED BY <2>3, <3>1, <3>2
  <2>5. NumsIn({0, 1})'
    BY <1>1, <2>1, ShortenedNums
  <2>. QED BY <2>4, <2>5 DEF FewHeld
<1>9. LineHeld'
  BY <1>1, ShortenedLine, GatewayKept, BeforeFacts DEF Held
<1>10. EndHeld'
  <2>1. ~Ended
    BY <1>1 DEF Ended
  <2>2. Open => NoComplete /\ rxWrite # "RESTART_APP" /\ zcXmodemStation # "RESTART_APP"
    BY <2>1, NotEnded
  <2>3. NoComplete => NoComplete'
    BY <1>1, <1>4, TextGrows
  <2>. QED BY <2>2, <2>3, GatewayKept, NoNewsNext
<1>11. DoneHolds'
  BY <1>3 DEF DoneHolds
<1>. QED BY <1>7, <1>8, <1>9, <1>10, <1>11 DEF Held

\* EOT: the ZC keeps the image, and only EOT and CAN follow, or drops what it has.
LEMMA HeldEot ==
  ASSUME Before, GwUnchanged, toZc # <<>>, toZc' = Tail(toZc), zc.mode \in Booting,
         Head(toZc).kind = "EOT", ZcEot
  PROVE  Held' /\ DoneHolds'
<1>1. /\ toZc \in Seq(ToZcMsg) /\ toGw \in Seq(ToGwMsg) /\ zc.mode # "done"
      /\ Shortened /\ 1 \in 1 .. Len(toZc) /\ toZc[1].kind = "EOT" /\ ~Ended
      /\ xfer.endFlag \in {0, 1}
  BY BeforeFacts, ShortenedFits DEF Booting, Ended
<1>2. ~Spent(1)
  BY <1>1 DEF Spent
<1>3. ~BeforeEnd
  BY <1>1, <1>2, BeforeFacts DEF Held, LineHeld, Eots
<1>4. \A j \in 1 .. Len(toZc) : j > 1 => toZc[j].kind \notin {"record", "r"}
  BY <1>1, <1>2, BeforeFacts DEF Held, LineHeld, Pairs
<1>5. \A j \in 1 .. Len(toZc') : toZc'[j].kind \in {"EOT", "CAN"}
  <2>1. ASSUME NEW j \in 1 .. Len(toZc') PROVE toZc'[j].kind \in {"EOT", "CAN"}
    <3>1. /\ j + 1 \in 1 .. Len(toZc) /\ toZc'[j] = toZc[j + 1] /\ j + 1 > 1
      BY <1>1 DEF Shortened
    <3>2. toZc[j + 1].kind \notin {"record", "r"} /\ toZc[j + 1] \in ToZcMsg
      BY <1>1, <1>4, <3>1, ElementOfSeq
    <3>. QED BY <3>1, <3>2 DEF ToZcMsg, Record
  <2>. QED BY <2>1
<1>6. FreshHeld'
  BY <1>3, GatewayKept DEF FreshHeld, BeforeEnd
<1>7. LineHeld'
  <2>1. Pairs'
    BY <1>5 DEF Pairs
  <2>. QED BY <1>3, <2>1, GatewayKept DEF LineHeld
<1>8. \A S : NumsIn(S)'
  BY <1>5 DEF NumsIn
<1>9. CASE zc.got = Image
  <2>1. /\ zc' = [mode |-> "done", got |-> zc.got]
        /\ toGw' = Append(Put(toGw, "ACK"), "complete")
    BY <1>9 DEF ZcEot
  <2>2. FewHeld'
    BY <1>8, <2>1 DEF FewHeld
  <2>3. DoneHolds'
    BY <1>9, <2>1 DEF DoneHolds, Image, Blocks
  <2>4. EndHeld'
    <3>. SUFFICES ASSUME Open PROVE NewsInText' /\ NewsInStation'
      BY GatewayKept DEF EndHeld
    <3>1. NoComplete /\ rxWrite # "RESTART_APP" /\ zcXmodemStation # "RESTART_APP"
      BY <1>1, NotEnded
    <3>2. xfer.endFlag = 1
      BY <1>1, <1>3 DEF BeforeEnd, Open
    <3>3. Ended'
      BY <1>5, <2>1, <3>2, GatewayKept DEF Ended
    <3>. DEFINE t == Put(toGw, "ACK")
    <3>4. t \in Seq(ToGwMsg) /\ \A i \in 1 .. Len(t) : t[i] # "complete"
      <4>1. "ACK" \in ToGwMsg
        BY DEF ToGwMsg, SingleByte
      <4>2. t \in Seq(ToGwMsg)
        BY <1>1, <4>1, PutType
      <4>. QED BY <1>1, <3>1, <4>1, <4>2, PutOnly DEF NoComplete
    <3>. HIDE DEF t
    <3>5. Len(toGw') = Len(t) + 1 /\ \A i \in 1 .. Len(toGw') :
            toGw'[i] = "complete" => i = Len(toGw')
      <4>1. toGw' = Append(t, "complete")
        BY <2>1 DEF t
      <4>. QED BY <3>4, <4>1
    <3>6. NewsInText'
      BY <3>1, <3>3, <3>5, GatewayKept DEF NewsInText
    <3>7. NewsInStation'
      BY <3>1, GatewayKept DEF NewsInStation
    <3>. QED BY <3>6, <3>7
  <2>. QED BY <1>6, <1>7, <2>2, <2>3, <2>4 DEF Held
<1>10. CASE zc.got # Image
  <2>1. zc' = Aborted /\ toGw' = Put(toGw, "CAN")
    BY <1>10 DEF ZcEot, Answer
  <2>2. FewHeld' /\ DoneHolds'
    BY <1>1, <1>8, <2>1 DEF FewHeld, DoneHolds, Aborted
  <2>3. EndHeld'
    <3>1. Open => NoComplete /\ rxWrite # "RESTART_APP" /\ zcXmodemStation # "RESTART_APP"
      BY <1>1, NotEnded
    <3>2. "CAN" \in ToGwMsg \ {"complete"}
      BY DEF ToGwMsg, SingleByte
    <3>3. NoComplete => NoComplete'
      BY <1>1, <2>1, <3>2, TextGrows
    <3>. QED BY <3>1, <3>3, GatewayKept, NoNewsNext
  <2>. QED BY <1>6, <1>7, <2>2, <2>3 DEF Held
<1>. QED BY <1>9, <1>10

\* The ZC drops what it has collected, or starts its application: on CAN in its boot
\* loader and on 'r' with an image.
LEMMA HeldDropped ==
  ASSUME Before, GwUnchanged, toZc # <<>>, toZc' = Tail(toZc), toGw' = toGw,
         zc'.got = <<>>, zc'.mode # "done",
         zc.mode = "done" => Head(toZc).kind = "r"
  PROVE  Held' /\ DoneHolds'
<1>1. /\ toZc \in Seq(ToZcMsg) /\ Shortened /\ 1 \in 1 .. Len(toZc)
      /\ toZc[1] = Head(toZc)
  BY BeforeFacts, ShortenedFits
<1>2. ~Ended
  BY <1>1 DEF Ended
<1>3. \A i \in 1 .. Len(toZc) : ~Spent(i)
  <2>1. ASSUME NEW i \in 1 .. Len(toZc), Spent(i) PROVE FALSE
    <3>1. 1 \in 1 .. i /\ toZc[1].kind = "r"
      BY <1>1, <2>1 DEF Spent
    <3>. QED BY <2>1, <3>1 DEF Spent
  <2>. QED BY <2>1
<1>4. FreshHeld'
  BY <1>1, GatewayKept, ShortenedNums, BeforeFacts DEF Held, FreshHeld, NoComplete
<1>5. FewHeld'
  BY <1>1, GatewayKept, ShortenedNums, BeforeFacts DEF Held, FewHeld
<1>6. LineHeld'
  <2>1. ASSUME NEW i \in 1 .. Len(toZc'), NEW j \in 1 .. Len(toZc'), i < j,
               toZc'[i].kind = "EOT", toZc'[j].kind \in {"record", "r"}
        PROVE  FALSE
    <3>1. /\ i + 1 \in 1 .. Len(toZc) /\ toZc'[i] = toZc[i + 1]
          /\ j + 1 \in 1 .. Len(toZc) /\ toZc'[j] = toZc[j + 1] /\ i + 1 < j + 1
      BY <1>1, <2>1 DEF Shortened
    <3>. QED BY <1>3, <2>1, <3>1, BeforeFacts DEF Held, LineHeld, Pairs
  <2>2. ASSUME BeforeEnd, NEW i \in 1 .. Len(toZc'), toZc'[i].kind = "EOT"
        PROVE  FALSE
    <3>1. i + 1 \in 1 .. Len(toZc) /\ toZc'[i] = toZc[i + 1]
      BY <1>1, <2>2 DEF Shortened
    <3>. QED BY <1>3, <2>2, <3>1, BeforeFacts DEF Held, LineHeld, Eots
  <2>. QED BY <2>1, <2>2, GatewayKept DEF LineHeld, Pairs, Eots
<1>7. EndHeld'
  <2>1. Open => NoComplete /\ rxWrite # "RESTART_APP" /\ zcXmodemStation # "RESTART_APP"
    BY <1>2, NotEnded
  <2>2. NoComplete => NoComplete'
    BY DEF NoComplete
  <2>. QED BY <2>1, <2>2, GatewayKept, NoNewsNext
<1>8. DoneHolds'
  BY DEF DoneHolds
<1>. QED BY <1>4, <1>5, <1>6, <1>7, <1>8 DEF Held

LEMMA HeldReceive ==
  ASSUME Before, ZcReceive
  PROVE  Held' /\ DoneHolds' /\ LineFits'
<1>1. GwUnchanged /\ toZc # <<>> /\ toZc' = Tail(toZc)
  BY DEF ZcReceive
<1>2. Shortened /\ LineFits'
  BY <1>1, ShortenedFits
<1>3. zc.mode \in Booting => zc.mode # "done"
  BY DEF Booting
<1>. DEFINE m == Head(toZc)
<1>4. CASE zc.mode \in Booting /\ m.kind = "record"
  BY <1>1, <1>2, <1>4, HeldRecord DEF ZcReceive
<1>5. CASE zc.mode \in Booting /\ m.kind = "EOT"
  BY <1>1, <1>2, <1>5, HeldEot DEF ZcReceive
<1>6. CASE zc.mode \in Booting /\ m.kind = "CAN"
  <2>1. zc' = Aborted /\ toGw' = toGw
    BY <1>6 DEF ZcReceive
  <2>2. zc'.got = <<>> /\ zc'.mode # "done"
    BY <1>3, <1>6, <2>1 DEF Aborted
  <2>. QED BY <1>1, <1>2, <1>3, <1>6, <2>1, <2>2, HeldDropped
<1>7. CASE zc.mode = "done" /\ m.kind = "r"
  <2>1. zc' = [mode |-> "app", got |-> <<>>] /\ toGw' = toGw
    BY <1>3, <1>7 DEF ZcReceive
  <2>. QED BY <1>1, <1>2, <1>7, <2>1, HeldDropped
<1>8. CASE /\ ~(zc.mode \in Booting /\ m.kind \in {"record", "EOT", "CAN"})
           /\ ~(zc.mode = "done" /\ m.kind = "r")
  <2>1. zc' = zc /\ toGw' = toGw
    BY <1>8 DEF ZcReceive
  <2>2. DoneHolds'
    BY <2>1, BeforeFacts DEF DoneHolds
  <2>. QED BY <1>1, <1>2, <2>1, <2>2, HeldShortened
<1>. QED BY <1>4, <1>5, <1>6, <1>7, <1>8

-----------------------------------------------------------------------------
(* What an upload leaves behind *)

LEMMA MidInit == Init => MidInv
<1>. SUFFICES ASSUME Init PROVE MidInv
  OBVIOUS
<1>1. /\ toZc = <<>> /\ toGw = <<>> /\ zc.mode = "app" /\ zc.got = <<>>
      /\ otaPc = "idle" /\ rxWrite = "nothing" /\ openFileFlag = 0
  BY DEF Init
<1>2. Len(toZc) = 0 /\ Len(toGw) = 0 /\ Len(zc.got) <= 1
  BY <1>1
<1>3. FreshHeld /\ FewHeld
  BY <1>1, <1>2 DEF FreshHeld, FewHeld, NumsIn, NoComplete
<1>4. LineHeld /\ EndHeld
  BY <1>1, <1>2 DEF LineHeld, Pairs, Eots, EndHeld, Open, InCall
<1>5. LineFits /\ DoneHolds /\ FlagHeld
  BY <1>1, <1>2, SizesAssumption DEF LineFits, DoneHolds, FlagHeld, InCall
<1>. QED BY <1>3, <1>4, <1>5 DEF MidInv, Held

\* The flag and the file, whatever handle a call uses.
LEMMA FlagStep ==
  ASSUME TypeOK, FlagHeld, [Next]_vars
  PROVE  FlagHeld'
<1>. USE DEF FlagHeld, InCall, shared, flags, otaVars, fileVars
<1>1. CASE CallTransport \/ OpenFails \/ SendNext \/ StoreWait \/ Resend \/ WaitTurn
  BY <1>1 DEF CallTransport, OpenFails, SendNext, StoreWait, Resend, WaitTurn
<1>2. CASE EndAcked \/ UploadComplete \/ RestartApp \/ Crash \/ AfterLoop
  BY <1>2 DEF EndAcked, UploadComplete, RestartApp, Crash, AfterLoop
<1>3. CASE GiveUp \/ Refused \/ WaitTimeout
  BY <1>3 DEF GiveUp, Refused, WaitTimeout, Abandon
<1>4. CASE RxThread
  <2>1. UNCHANGED <<otaPc, openFileFlag>> /\ devOtaUpdateingFlag' \in {devOtaUpdateingFlag, 1}
    BY <1>4 DEF RxThread, RxByte, RxText, RxStore, StartUpgrade
  <2>. QED BY <2>1
<1>5. CASE CloudOffer \/ UNCHANGED vars
  BY <1>5 DEF CloudOffer, vars
<1>6. CASE ZcEnterBoot \/ ZcPoll \/ ZcReceive \/ LoseToZc \/ LoseToGw
  BY <1>6 DEF ZcEnterBoot, ZcPoll, ZcReceive, LoseToZc, LoseToGw, GwUnchanged
<1>. QED BY <1>1, <1>2, <1>3, <1>4, <1>5, <1>6 DEF Next, OtaThread, External

LEMMA MidStep == TypeOK /\ HandleInv /\ MidInv /\ [Next]_vars => MidInv'
<1>. SUFFICES ASSUME TypeOK, HandleInv, MidInv, [Next]_vars, reused' = 0
              PROVE  LineFits' /\ DoneHolds' /\ FlagHeld' /\ Held'
  BY DEF MidInv
<1>0. Before
  BY ReusedStays DEF Before
<1>1. FlagHeld' /\ LineFits /\ DoneHolds /\ Held
  BY <1>0, FlagStep, BeforeFacts
<1>2. zc' = zc => DoneHolds'
  BY <1>1 DEF DoneHolds
<1>3. toZc' = toZc => LineFits'
  BY <1>1 DEF LineFits
<1>4. CASE CallTransport \/ OpenFails \/ StoreWait \/ WaitTurn \/ EndAcked \/ Crash \/ AfterLoop
  <2>1. toZc' = toZc /\ zc' = zc
    BY <1>4 DEF CallTransport, OpenFails, StoreWait, WaitTurn, EndAcked, Crash, AfterLoop,
                lineVars
  <2>. QED BY <1>0, <1>1, <1>2, <1>3, <1>4, <2>1, HeldCalls
<1>5. CASE SendNext
  <2>1. zc' = zc
    BY <1>5 DEF SendNext
  <2>. QED BY <1>0, <1>1, <1>2, <1>5, <2>1, HeldSend
<1>6. CASE Resend
  <2>1. zc' = zc
    BY <1>6 DEF Resend
  <2>. QED BY <1>0, <1>1, <1>2, <1>6, <2>1, HeldResend
<1>7. CASE GiveUp \/ Refused
  <2>1. otaPc = "switch" /\ (Abandon(Cancel) \/ Abandon(toZc))
    BY <1>7 DEF GiveUp, Refused
  <2>. QED BY <1>0, <1>1, <2>1, HeldAbandon
<1>8. CASE WaitTimeout
  <2>1. CASE Abandon(toZc)
    <3>1. otaPc = "switch"
      BY <1>8 DEF WaitTimeout
    <3>. QED BY <1>0, <1>1, <2>1, <3>1, HeldAbandon
  <2>2. CASE ~Abandon(toZc)
    <3>1. /\ UNCHANGED <<toZc, toGw, zc, rxWrite, zcXmodemStation, openFileFlag,
                         devOtaUpdateingFlag>>
          /\ InCall /\ ~InCall'
      BY <1>8, <2>2 DEF WaitTimeout, lineVars, rxVars, fileVars, InCall
    <3>2. (Fresh' => Fresh) /\ (Few' => Few) /\ (BeforeEnd' => BeforeEnd) /\ ~Open'
      BY <1>1, <3>1, BeforeFacts, <1>0 DEF Fresh, Few, BeforeEnd, Open, FlagHeld
    <3>. QED BY <1>1, <1>2, <1>3, <3>1, <3>2, HeldKept
  <2>. QED BY <2>1, <2>2
<1>9. CASE UploadComplete
  <2>1. toZc' = toZc /\ zc' = zc
    BY <1>9 DEF UploadComplete, lineVars
  <2>. QED BY <1>0, <1>1, <1>2, <1>3, <1>9, <2>1, HeldComplete
<1>10. CASE RestartApp
  <2>1. zc' = zc
    BY <1>10 DEF RestartApp
  <2>. QED BY <1>0, <1>1, <1>2, <1>10, <2>1, HeldRestart
<1>11. CASE RxThread
  <2>1. toZc' = toZc /\ zc' = zc
    BY <1>0, <1>11, RxMoves DEF RxThread
  <2>. QED BY <1>0, <1>1, <1>2, <1>3, <1>11, <2>1, HeldRx DEF RxThread
<1>12. CASE ZcEnterBoot \/ ZcPoll
  BY <1>0, <1>1, <1>12, HeldBoot
<1>13. CASE ZcReceive
  BY <1>0, <1>1, <1>13, HeldReceive
<1>14. CASE LoseToZc
  <2>1. GwUnchanged /\ toZc # <<>> /\ toZc' = Tail(toZc) /\ UNCHANGED <<zc, toGw>>
    BY <1>14 DEF LoseToZc, zcVars
  <2>. QED BY <1>0, <1>1, <1>2, <2>1, ShortenedFits, HeldShortened
<1>15. CASE LoseToGw
  BY <1>0, <1>1, <1>15, HeldLoseText
<1>16. CASE CloudOffer \/ UNCHANGED vars
  <2>1. UNCHANGED <<toZc, toGw, zc, rxWrite, zcXmodemStation, openFileFlag,
                    devOtaUpdateingFlag, otaPc, xfer>>
    BY <1>16 DEF CloudOffer, otaVars, rxVars, vars
  <2>2. (Fresh' => Fresh) /\ (Few' => Few) /\ (BeforeEnd' => BeforeEnd) /\ (Open' => Open)
    BY <2>1 DEF Fresh, Few, BeforeEnd, Open, InCall
  <2>. QED BY <1>1, <1>2, <1>3, <2>1, <2>2, HeldKept
<1>. QED
  BY <1>4, <1>5, <1>6, <1>7, <1>8, <1>9, <1>10, <1>11, <1>12, <1>13, <1>14, <1>15, <1>16
  DEF Next, OtaThread, External

\* As long as no call has read through a handle it did not open, the gateway gives
\* the line back only to a ZC that holds one block at most or the whole image: every
\* failing branch of a call in which a second record went out resets the ZC, and a
\* call that ends well has news of the end that only a ZC with the image sends.
THEOREM NeverAbandonedMidImage == Spec => []NotAbandonedMidImage
<1>1. TypeOK /\ MidInv => NotAbandonedMidImage
  <2>. SUFFICES ASSUME TypeOK, MidInv, reused = 0, otaPc = "idle",
                       devOtaUpdateingFlag = 0
                PROVE  Len(zc.got) \in {0, 1, NumBlocks}
    BY DEF NotAbandonedMidImage
  <2>1. /\ zc.got \in Seq(0 .. NumBlocks) /\ NumBlocks \in Nat
        /\ Few /\ FewHeld /\ DoneHolds
    BY SizesAssumption DEF TypeOK, ExternalTypes, MidInv, Held, Few, InCall
  <2>2. CASE zc.mode = "done"
    <3>1. zc.got = Image
      BY <2>1, <2>2 DEF DoneHolds
    <3>2. Len(Image) = NumBlocks
      BY <2>1 DEF Image, Blocks
    <3>. QED BY <3>1, <3>2
  <2>3. CASE zc.mode # "done"
    <3>1. Len(zc.got) \in Nat /\ Len(zc.got) <= 1
      BY <2>1, <2>3 DEF FewHeld
    <3>2. \A l \in Nat : l <= 1 => l \in {0, 1, NumBlocks}
      OBVIOUS
    <3>. QED BY <3>1, <3>2
  <2>. QED BY <2>2, <2>3
<1>. QED BY <1>1, TypeInit, TypeStep, HandleInit, HandleStep, MidInit, MidStep, PTL DEF Spec

-----------------------------------------------------------------------------
(* The order of the blocks *)

\* Block c follows b, or is b, and fewer than PackMod blocks lie between them.
Near(b, c) == b <= c /\ c < b + PackMod

\* A ZC in the middle of an upload, and the last block it keeps.
Collecting == zc.mode # "done" /\ zc.got # <<>>
Last == zc.got[Len(zc.got)]
RecordAt(i) == toZc[i].kind = "record"

\* The records under way never go back, and neither they nor the frame buffer run away
\* from the first of them or from the last block kept; before a call opens the file there
\* are only those of an uninitialised buffer.
Ordered ==
  \A i, j \in 1 .. Len(toZc) :
    i < j /\ RecordAt(i) /\ RecordAt(j) => Near(toZc[i].blk, toZc[j].blk)
LastBehind ==
  Collecting => \A i \in 1 .. Len(toZc) : RecordAt(i) => Near(Last, toZc[i].blk)
BehindBlock(b) ==
  /\ \A i \in 1 .. Len(toZc) : RecordAt(i) => Near(toZc[i].blk, b)
  /\ Collecting => Near(Last, b)
FrameAhead == InCall /\ xfer.endFlag = 0 => BehindBlock(xfer.real)
FreshZero == Fresh => \A i \in 1 .. Len(toZc) : RecordAt(i) => toZc[i].blk = 0
InRow == \A i \in 1 .. Len(zc.got) : zc.got[i] = zc.got[1] + i - 1

OrderHeld == Ordered /\ LastBehind /\ FrameAhead /\ FreshZero /\ InRow
OrderInv == reused = 0 /\ overrun = 0 => OrderHeld

\* What the steps below start from.
InOrder == Before /\ RecordsFaithful /\ AcceptedFaithful /\ overrun = 0 /\ OrderHeld

LEMMA NearTypes ==
  ASSUME Before
  PROVE  /\ \A i \in 1 .. Len(toZc) : RecordAt(i) => toZc[i].blk \in 0 .. NumBlocks
         /\ Collecting => Len(zc.got) \in Nat \ {0} /\ Last \in 0 .. NumBlocks
<1>1. ASSUME NEW i \in 1 .. Len(toZc), RecordAt(i) PROVE toZc[i].blk \in 0 .. NumBlocks
  <2>1. toZc[i] \in ToZcMsg
    BY BeforeFacts, ElementOfSeq
  <2>. QED BY <1>1, <2>1 DEF RecordAt, ToZcMsg, Record
<1>2. ASSUME Collecting PROVE Len(zc.got) \in Nat \ {0} /\ Last \in 0 .. NumBlocks
  <2>1. zc.got \in Seq(0 .. NumBlocks) /\ zc.got # <<>>
    BY <1>2, BeforeFacts DEF Collecting
  <2>2. Len(zc.got) \in Nat \ {0} /\ Len(zc.got) \in 1 .. Len(zc.got)
    BY <2>1
  <2>. QED BY <2>1, <2>2, ElementOfSeq DEF Last
<1>. QED BY <1>1, <1>2

\* One more message on the line: no record, or one of a block near to all there are.
LEMMA OrderGrown ==
  ASSUME InOrder, NEW m \in ToZcMsg, Grown(m), Len(toZc') \in Nat, zc' = zc,
         m.kind = "record" => BehindBlock(m.blk)
  PROVE  Ordered' /\ LastBehind' /\ InRow'
<1>1. ASSUME NEW i \in 1 .. Len(toZc'), NEW j \in 1 .. Len(toZc'), i < j,
             toZc'[i].kind = "record", toZc'[j].kind = "record"
      PROVE  Near(toZc'[i].blk, toZc'[j].blk)
  <2>1. i \in 1 .. Len(toZc) /\ toZc'[i] = toZc[i]
    BY <1>1 DEF Grown
  <2>2. CASE j \in 1 .. Len(toZc) /\ toZc'[j] = toZc[j]
    BY <1>1, <2>1, <2>2 DEF InOrder, OrderHeld, Ordered, RecordAt
  <2>3. CASE toZc'[j] = m
    BY <1>1, <2>1, <2>3 DEF BehindBlock, RecordAt
  <2>. QED BY <2>2, <2>3 DEF Grown
<1>2. Ordered'
  BY <1>1 DEF Ordered, RecordAt, Near
<1>3. LastBehind'
  <2>. SUFFICES ASSUME Collecting, NEW i \in 1 .. Len(toZc'), toZc'[i].kind = "record"
                PROVE  Near(Last, toZc'[i].blk)
    BY DEF LastBehind, Collecting, RecordAt, Near, Last
  <2>1. CASE i \in 1 .. Len(toZc) /\ toZc'[i] = toZc[i]
    BY <2>1 DEF InOrder, OrderHeld, LastBehind, RecordAt
  <2>2. CASE toZc'[i] = m
    BY <2>2 DEF BehindBlock
  <2>. QED BY <2>1, <2>2 DEF Grown
<1>4. InRow'
  BY DEF InOrder, OrderHeld, InRow
<1>. QED BY <1>2, <1>3, <1>4

\* ... and what BehindBlock and FreshZero say of the line then.
LEMMA BehindGrown ==
  ASSUME NEW b, BehindBlock(b), NEW m \in ToZcMsg, Grown(m), zc' = zc,
         m.kind = "record" => Near(m.blk, b)
  PROVE  /\ \A i \in 1 .. Len(toZc') : toZc'[i].kind = "record" => Near(toZc'[i].blk, b)
         /\ Collecting' => Near(Last', b)
  BY DEF BehindBlock, Grown, RecordAt, Collecting, Last

LEMMA ZeroGrown ==
  ASSUME FreshZero, Fresh' => Fresh, NEW m \in ToZcMsg, Grown(m),
         Fresh' /\ m.kind = "record" => m.blk = 0
  PROVE  FreshZero'
  BY DEF FreshZero, Grown, RecordAt

\* A shorter line, or the same; the blocks as they were, or dropped.
LEMMA OrderShortened ==
  ASSUME InOrder, Shortened \/ toZc' = toZc,
         \/ zc'.got = zc.got /\ (zc'.mode # "done" => zc.mode # "done")
         \/ zc'.got = <<>>,
         Fresh' => Fresh,
         InCall' /\ xfer'.endFlag = 0 => BehindBlock(xfer'.real)
  PROVE  OrderHeld'
<1>1. PICK d \in {0, 1} : \A i \in 1 .. Len(toZc') : i + d \in 1 .. Len(toZc) /\ toZc'[i] = toZc[i + d]
  <2>1. CASE Shortened
    BY <2>1 DEF Shortened
  <2>2. CASE toZc' = toZc
    <3>1. \A i \in 1 .. Len(toZc') : i + 0 \in 1 .. Len(toZc) /\ toZc'[i] = toZc[i + 0]
      BY <2>2
    <3>. QED BY <3>1
  <2>. QED BY <2>1, <2>2
<1>2. Collecting' => Collecting /\ Last' = Last
  BY DEF Collecting, Last
<1>3. Ordered'
  <2>1. ASSUME NEW i \in 1 .. Len(toZc'), NEW j \in 1 .. Len(toZc'), i < j,
               toZc'[i].kind = "record", toZc'[j].kind = "record"
        PROVE  Near(toZc'[i].blk, toZc'[j].blk)
    <3>1. /\ i + d \in 1 .. Len(toZc) /\ toZc'[i] = toZc[i + d]
          /\ j + d \in 1 .. Len(toZc) /\ toZc'[j] = toZc[j + d] /\ i + d < j + d
      BY <1>1, <2>1
    <3>. QED BY <2>1, <3>1 DEF InOrder, OrderHeld, Ordered, RecordAt
  <2>. QED BY <2>1 DEF Ordered, RecordAt, Near
<1>4. LastBehind'
  <2>. SUFFICES ASSUME Collecting', NEW i \in 1 .. Len(toZc'), toZc'[i].kind = "record"
                PROVE  Near(Last, toZc'[i].blk)
    BY <1>2 DEF LastBehind, RecordAt, Near
  <2>. QED BY <1>1, <1>2 DEF InOrder, OrderHeld, LastBehind, RecordAt
<1>5. FreshZero'
  BY <1>1 DEF InOrder, OrderHeld, FreshZero, RecordAt
<1>6. InRow'
  <2>1. Len(<<>>) = 0
    OBVIOUS
  <2>. QED BY <2>1 DEF InOrder, OrderHeld, InRow
<1>7. FrameAhead'
  <2>. SUFFICES ASSUME InCall', xfer'.endFlag = 0
                PROVE  /\ \A i \in 1 .. Len(toZc') :
                            toZc'[i].kind = "record" => Near(toZc'[i].blk, xfer'.real)
                       /\ Collecting' => Near(Last', xfer'.real)
    BY DEF FrameAhead, BehindBlock, RecordAt, Near
  <2>. QED BY <1>1, <1>2 DEF BehindBlock, RecordAt
<1>. QED BY <1>3, <1>4, <1>5, <1>6, <1>7 DEF OrderHeld

\* The message of a call that has the file open by then.  That its number is not that of a
\* pending block keeps the new block less than PackMod behind the first of them.
LEMMA OrderSend ==
  ASSUME InOrder, SendNext, overrun' = 0
  PROVE  OrderHeld'
<1>. USE SizesAssumption
<1>. DEFINE m == NextMessage
<1>1. /\ InCall /\ InCall' /\ ~Fresh' /\ zc' = zc /\ toZc' = Put(toZc, m)
      /\ xfer'.real = xfer.real + 1 /\ xfer.real \in Nat
      /\ xfer'.endFlag = IF Left > 0 THEN xfer.endFlag ELSE 1
  BY BeforeFacts DEF InOrder, SendNext, Send, InCall, Fresh
<1>2. m \in ToZcMsg
  BY NextTypes DEF InOrder, Before
<1>3. Grown(m) /\ Len(toZc') \in Nat
  BY <1>1, <1>2, PutGrows, BeforeFacts DEF InOrder
<1>4. CASE ~(Left > 0)
  <2>1. m.kind # "record" /\ xfer'.endFlag = 1
    BY <1>1, <1>4 DEF NextMessage, Byte
  <2>. HIDE DEF m
  <2>2. Ordered' /\ LastBehind' /\ InRow'
    BY <1>1, <1>2, <1>3, <2>1, OrderGrown
  <2>. QED BY <1>1, <2>1, <2>2 DEF OrderHeld, FreshZero, FrameAhead
<1>5. CASE Left > 0
  <2>1. m.kind = "record" /\ m.blk = NextBlock
    BY <1>5 DEF NextMessage, RecordOf
  <2>2. NextBlock = xfer.real + 1 /\ xfer.endFlag = 0
    BY <1>5, NextIsNext DEF InOrder, Before
  <2>. HIDE DEF m
  <2>3. BehindBlock(xfer.real)
    BY <1>1, <2>2 DEF InOrder, OrderHeld, FrameAhead
  <2>4. ASSUME NEW b \in 0 .. NumBlocks, b \in Pending, Near(b, xfer.real)
        PROVE  Near(b, NextBlock)
    <3>1. ~Ambiguous
      BY DEF SendNext
    <3>2. b # NextBlock
      BY <1>1, <2>2, <2>4 DEF Near
    <3>3. b % PackMod # NextBlock % PackMod
      BY <1>5, <2>4, <3>1, <3>2 DEF Ambiguous
    <3>4. (b + PackMod) % PackMod = b % PackMod
      <4>1. b \in Int /\ PackMod \in Nat \ {0}
        BY <2>4
      <4>. QED BY <4>1, ModWraps
    <3>5. NextBlock # b + PackMod
      BY <3>3, <3>4
    <3>. QED BY <1>1, <2>2, <2>4, <3>5 DEF Near
  <2>5. BehindBlock(NextBlock)
    <3>1. ASSUME NEW i \in 1 .. Len(toZc), RecordAt(i) PROVE Near(toZc[i].blk, NextBlock)
      <4>1. toZc[i].blk \in Pending /\ toZc[i].blk \in 0 .. NumBlocks
        BY <3>1, NearTypes DEF Pending, RecordAt, InOrder
      <4>. QED BY <2>3, <2>4, <3>1, <4>1 DEF BehindBlock
    <3>2. ASSUME Collecting PROVE Near(Last, NextBlock)
      <4>1. Len(zc.got) \in 1 .. Len(zc.got) /\ Last \in 0 .. NumBlocks
        BY <3>2, NearTypes DEF InOrder
      <4>2. Last \in Pending
        BY <3>2, <4>1 DEF Pending, Last, Collecting
      <4>. QED BY <2>3, <2>4, <3>2, <4>1, <4>2 DEF BehindBlock
    <3>. QED BY <3>1, <3>2 DEF BehindBlock
  <2>6. Ordered' /\ LastBehind' /\ InRow'
    BY <1>1, <1>2, <1>3, <2>1, <2>5, OrderGrown
  <2>7. FrameAhead'
    <3>1. Near(m.blk, NextBlock)
      BY <1>1, <2>1, <2>2 DEF Near
    <3>2. /\ \A i \in 1 .. Len(toZc') : toZc'[i].kind = "record" => Near(toZc'[i].blk, NextBlock)
          /\ Collecting' => Near(Last', NextBlock)
      BY <1>1, <1>2, <1>3, <2>5, <3>1, BehindGrown
    <3>3. xfer'.real = NextBlock
      BY <1>1, <2>2
    <3>. QED BY <3>2, <3>3 DEF FrameAhead, BehindBlock, RecordAt, Near
  <2>. QED BY <1>1, <2>6, <2>7 DEF OrderHeld, FreshZero
<1>. QED BY <1>4, <1>5

\* The same frame again: the newest block, or an uninitialised buffer.
LEMMA OrderResend ==
  ASSUME InOrder, Resend
  PROVE  OrderHeld'
<1>. DEFINE m == IF xfer.endFlag = 1 THEN Byte("EOT") ELSE RecordOf(xfer.pack, xfer.frame)
<1>1. /\ InCall /\ InCall' /\ openFileFlag' = openFileFlag /\ zc' = zc /\ toZc' = Put(toZc, m)
      /\ xfer'.real = xfer.real /\ xfer'.endFlag = xfer.endFlag /\ xfer.real \in Nat
      /\ xfer.endFlag \in {0, 1}
  BY BeforeFacts DEF InOrder, Resend, InCall, fileVars, Send, Before, TypeOK, LocalsType
<1>2. m \in ToZcMsg
  BY MessageTypes, BeforeFacts DEF InOrder
<1>3. Grown(m) /\ Len(toZc') \in Nat
  BY <1>1, <1>2, PutGrows, BeforeFacts DEF InOrder
<1>4. m.kind = "record" => xfer.endFlag = 0 /\ m.blk = xfer.frame
  BY <1>1 DEF RecordOf, Byte
<1>. HIDE DEF m
<1>5. xfer.endFlag = 0 => xfer.frame = xfer.real
  BY <1>1 DEF InOrder, Before, HandleInv
<1>6. xfer.endFlag = 0 => BehindBlock(xfer.real)
  BY <1>1 DEF InOrder, OrderHeld, FrameAhead
<1>7. Ordered' /\ LastBehind' /\ InRow'
  BY <1>1, <1>2, <1>3, <1>4, <1>5, <1>6, OrderGrown
<1>8. FrameAhead'
  <2>. SUFFICES ASSUME xfer.endFlag = 0 PROVE FrameAhead'
    BY <1>1 DEF FrameAhead
  <2>1. m.kind = "record" => Near(m.blk, xfer.real)
    BY <1>1, <1>4, <1>5, SizesAssumption DEF Near
  <2>2. /\ \A i \in 1 .. Len(toZc') : toZc'[i].kind = "record" => Near(toZc'[i].blk, xfer.real)
        /\ Collecting' => Near(Last', xfer.real)
    BY <1>1, <1>2, <1>3, <1>6, <2>1, BehindGrown
  <2>. QED BY <1>1, <2>2 DEF FrameAhead, BehindBlock, RecordAt, Near
<1>9. FreshZero'
  <2>1. Fresh' => Fresh
    BY <1>1 DEF Fresh
  <2>2. Fresh => xfer.frame = 0
    BY <1>1 DEF Fresh, InOrder, Before, HandleInv
  <2>. QED BY <1>2, <1>3, <1>4, <2>1, <2>2, ZeroGrown DEF InOrder, OrderHeld
<1>. QED BY <1>7, <1>8, <1>9 DEF OrderHeld

LEMMA OrderAbandon ==
  ASSUME InOrder, NEW line \in {toZc, Cancel}, Abandon(line)
  PROVE  OrderHeld'
<1>1. ~InCall' /\ openFileFlag' = openFileFlag
  BY DEF Abandon, InCall, fileVars
<1>2. CASE zigbeeModeReset
  <2>1. toZc' = <<>> /\ zc'.got = <<>>
    BY <1>2 DEF zigbeeModeReset
  <2>2. Shortened
    BY <2>1 DEF Shortened
  <2>. QED BY <1>1, <2>1, <2>2, OrderShortened DEF Fresh
<1>3. CASE toZc' = line /\ zc' = zc
  <2>. DEFINE m == Byte("CAN")
  <2>1. m \in ToZcMsg /\ m.kind = "CAN"
    BY MessageTypes DEF Byte
  <2>2. toZc' \in {toZc, Put(toZc, m), Insist(toZc, m)}
    BY <1>3 DEF Cancel
  <2>. HIDE DEF m
  <2>3. Grown(m) /\ Len(toZc') \in Nat
    BY <2>1, <2>2, PutGrows, BeforeFacts DEF InOrder
  <2>4. Ordered' /\ LastBehind' /\ InRow'
    BY <1>3, <2>1, <2>3, OrderGrown
  <2>5. FreshZero'
    BY <1>1, <2>1, <2>3, ZeroGrown DEF InOrder, OrderHeld, Fresh
  <2>. QED BY <1>1, <2>4, <2>5 DEF OrderHeld, FrameAhead
<1>. QED BY <1>2, <1>3 DEF Abandon

\* The end of an upload finds no record under way.
LEMMA OrderComplete ==
  ASSUME InOrder, UploadComplete
  PROVE  OrderHeld'
<1>1. /\ toZc' = toZc /\ zc' = zc /\ InCall /\ ~InCall' /\ zcXmodemStation = "RESTART_APP"
  BY DEF UploadComplete, InCall, lineVars
<1>2. FreshZero'
  <2>1. CASE Fresh
    BY <1>1, <2>1 DEF InOrder, OrderHeld, FreshZero, RecordAt
  <2>2. CASE ~Fresh
    <3>1. Open
      BY <1>1, <2>2, BeforeFacts DEF InOrder, Open, Fresh
    <3>2. Ended
      BY <1>1, <3>1, BeforeFacts DEF InOrder, Held, EndHeld, NewsInStation
    <3>. QED BY <1>1, <3>2 DEF FreshZero, RecordAt, Ended
  <2>. QED BY <2>1, <2>2
<1>3. Ordered' /\ LastBehind' /\ InRow'
  BY <1>1 DEF InOrder, OrderHeld, Ordered, LastBehind, InRow, RecordAt, Collecting, Last, Near
<1>. QED BY <1>1, <1>2, <1>3 DEF OrderHeld, FrameAhead

LEMMA OrderRestart ==
  ASSUME InOrder, RestartApp
  PROVE  OrderHeld'
<1>. DEFINE m == Byte("r")
<1>1. /\ zc' = zc /\ toZc' = Put(toZc, m) /\ ~InCall' /\ openFileFlag' = openFileFlag
  BY DEF RestartApp, InCall, fileVars, Send
<1>2. m \in ToZcMsg /\ m.kind = "r"
  BY MessageTypes DEF Byte
<1>. HIDE DEF m
<1>3. Grown(m) /\ Len(toZc') \in Nat
  BY <1>1, <1>2, PutGrows, BeforeFacts DEF InOrder
<1>4. Ordered' /\ LastBehind' /\ InRow'
  BY <1>1, <1>2, <1>3, OrderGrown
<1>5. FreshZero'
  BY <1>1, <1>2, <1>3, ZeroGrown DEF InOrder, OrderHeld, Fresh
<1>. QED BY <1>1, <1>4, <1>5 DEF OrderHeld, FrameAhead

\* The other steps of the call and of the receive thread.
LEMMA OrderCalls ==
  ASSUME InOrder, reused' = 0,
         \/ CallTransport \/ OpenFails \/ StoreWait \/ WaitTurn \/ EndAcked \/ Crash
         \/ AfterLoop \/ RxThread
         \/ WaitTimeout /\ UNCHANGED <<lineVars, fileVars>>
  PROVE  OrderHeld'
<1>1. toZc' = toZc /\ zc' = zc
  BY RxMoves DEF InOrder, CallTransport, OpenFails, StoreWait, WaitTurn, EndAcked, Crash,
     AfterLoop, RxThread, lineVars
<1>2. Fresh' => Fresh
  BY RxMoves DEF InOrder, CallTransport, OpenFails, StoreWait, WaitTurn, EndAcked, Crash,
     AfterLoop, RxThread, fileVars, Fresh
<1>3. CASE CallTransport
  <2>1. Fresh /\ xfer'.real = 0
    BY <1>3, BeforeFacts DEF InOrder, CallTransport, NoLocals, Fresh
  <2>2. ~Collecting
    BY <2>1, BeforeFacts DEF InOrder, Held, FreshHeld, Collecting
  <2>3. BehindBlock(0)
    BY <2>1, <2>2, SizesAssumption DEF InOrder, OrderHeld, FreshZero, BehindBlock, Near
  <2>. QED BY <1>1, <1>2, <2>1, <2>3, OrderShortened
<1>4. CASE StoreWait \/ WaitTurn \/ RxThread
  <2>1. /\ InCall' => InCall
        /\ xfer'.real = xfer.real /\ xfer'.endFlag = xfer.endFlag
    BY <1>4, RxMoves DEF InOrder, StoreWait, WaitTurn, RxThread, InCall, Before, TypeOK,
       LocalsType
  <2>. QED BY <1>1, <1>2, <2>1, OrderShortened DEF InOrder, OrderHeld, FrameAhead
<1>5. CASE OpenFails \/ EndAcked \/ Crash \/ AfterLoop \/ WaitTimeout
  <2>1. ~InCall'
    BY <1>5 DEF OpenFails, EndAcked, Crash, AfterLoop, WaitTimeout, Abandon, InCall
  <2>. QED BY <1>1, <1>2, <2>1, OrderShortened
<1>. QED BY <1>3, <1>4, <1>5

\* A row of blocks with the one after its last is a row.
LEMMA RowGrows ==
  ASSUME NEW got \in Seq(0 .. NumBlocks), NEW b \in 0 .. NumBlocks,
         \A i \in 1 .. Len(got) : got[i] = got[1] + i - 1,
         Len(got) # 0 => b = got[Len(got)] + 1
  PROVE  \A i \in 1 .. Len(Append(got, b)) : Append(got, b)[i] = Append(got, b)[1] + i - 1
<1>. DEFINE n == Len(got)
            row == Append(got, b)
<1>1. /\ n \in Nat /\ Len(row) = n + 1 /\ row[n + 1] = b
      /\ \A i \in 1 .. n : row[i] = got[i]
      /\ NumBlocks \in Nat
  BY SizesAssumption
<1>2. CASE n = 0
  <2>. HIDE DEF n, row
  <2>1. \A i \in 1 .. n + 1 : i = 1
    BY <1>2
  <2>. QED BY <1>1, <1>2, <2>1 DEF row
<1>3. CASE n # 0
  <2>1. 1 \in 1 .. n /\ n \in 1 .. n
    BY <1>1, <1>3
  <2>2. got[1] \in Int /\ got[n] = got[1] + n - 1 /\ b = got[n] + 1 /\ row[1] = got[1]
    <3>1. got[1] \in 0 .. NumBlocks
      BY <2>1, ElementOfSeq
    <3>2. row[1] = got[1]
      BY <1>1, <2>1
    <3>. QED BY <1>1, <1>3, <2>1, <3>1, <3>2
  <2>. HIDE DEF n, row
  <2>3. row[n + 1] = row[1] + (n + 1) - 1
    BY <1>1, <2>2
  <2>4. \A i \in 1 .. n : row[i] = row[1] + i - 1
    BY <1>1, <2>2 DEF n
  <2>5. \A i \in 1 .. n + 1 : i \in 1 .. n \/ i = n + 1
    BY <1>1
  <2>. QED BY <1>1, <2>3, <2>4, <2>5 DEF row
<1>. QED BY <1>2, <1>3

\* A ZC that keeps one more block: the one after the last, no other has its number and is
\* near enough.
LEMMA OrderAccept ==
  ASSUME InOrder, GwUnchanged, Shortened, toZc # <<>>, RecordAt(1),
         zc'.got = Append(zc.got, toZc[1].blk), zc.mode # "done",
         toZc[1].num = (Len(zc.got) + 1) % PackMod
  PROVE  OrderHeld'
<1>. DEFINE b == toZc[1].blk
            n == Len(zc.got)
<1>1. /\ 1 \in 1 .. Len(toZc) /\ b \in 0 .. NumBlocks /\ n \in Nat
      /\ zc.got \in Seq(0 .. NumBlocks) /\ PackMod \in Nat \ {0}
  <2>1. Before
    BY DEF InOrder
  <2>2. toZc \in Seq(ToZcMsg) /\ zc.got \in Seq(0 .. NumBlocks)
    BY <2>1, BeforeFacts
  <2>3. 1 \in 1 .. Len(toZc) /\ n \in Nat /\ PackMod \in Nat \ {0}
    BY <2>2, SizesAssumption
  <2>4. b \in 0 .. NumBlocks
    BY <2>1, <2>3, NearTypes
  <2>. QED BY <2>2, <2>3, <2>4
<1>2. /\ zc'.got = Append(zc.got, b) /\ Len(zc'.got) = n + 1
      /\ \A i \in 1 .. n : zc'.got[i] = zc.got[i]
      /\ zc'.got[n + 1] = b
  BY <1>1
<1>3. b % PackMod = (n + 1) % PackMod
  BY <1>1 DEF InOrder, RecordsFaithful, RecordAt, Before
<1>. HIDE DEF b, n
<1>4. ASSUME n # 0 PROVE b = zc.got[n] + 1
  <2>1. Collecting /\ Last = zc.got[n] /\ n \in 1 .. n /\ zc.got[n] \in 0 .. NumBlocks
    <3>1. n \in 1 .. n /\ n = Len(zc.got)
      BY <1>1, <1>4 DEF n
    <3>2. zc.got # <<>> /\ zc.got[n] \in 0 .. NumBlocks
      <4>1. zc.got \in Seq(0 .. NumBlocks) /\ n \in 1 .. Len(zc.got)
        BY <1>1, <3>1
      <4>2. zc.got[n] \in 0 .. NumBlocks
        BY <4>1, ElementOfSeq
      <4>. QED BY <4>1, <4>2
    <3>. QED BY <3>1, <3>2 DEF Collecting, Last
  <2>2. Near(zc.got[n], b)
    BY <1>1, <2>1 DEF InOrder, OrderHeld, LastBehind, b
  <2>3. zc.got[n] % PackMod = n % PackMod
    BY <2>1 DEF InOrder, AcceptedFaithful, Before, n
  <2>4. (zc.got[n] + 1) % PackMod = b % PackMod
    <3>1. zc.got[n] \in Int /\ n \in Int
      BY <1>1, <2>1
    <3>. QED BY <1>1, <1>3, <2>3, <3>1, ModSucc
  <2>5. zc.got[n] \in Int /\ b \in Int /\ PackMod \in Nat \ {0, 1}
    BY <1>1, <2>1, SizesAssumption
  <2>. QED BY <2>2, <2>4, <2>5, ModNear DEF Near
<1>5. InRow'
  <2>1. \A i \in 1 .. Len(zc.got) : zc.got[i] = zc.got[1] + i - 1
    BY DEF InOrder, OrderHeld, InRow
  <2>2. Len(zc.got) # 0 => b = zc.got[Len(zc.got)] + 1
    BY <1>4 DEF n
  <2>3. \A i \in 1 .. Len(Append(zc.got, b)) :
          Append(zc.got, b)[i] = Append(zc.got, b)[1] + i - 1
    BY <1>1, <2>1, <2>2, RowGrows
  <2>4. zc'.got = Append(zc.got, b)
    BY <1>2
  <2>. QED BY <2>3, <2>4, Zenon DEF InRow
<1>6. Last' = b
  BY <1>2 DEF Last
<1>7. \A i \in 1 .. Len(toZc') : i + 1 \in 1 .. Len(toZc) /\ 1 < i + 1 /\ toZc'[i] = toZc[i + 1]
  BY DEF Shortened
<1>8. LastBehind'
  <2>. SUFFICES ASSUME NEW i \in 1 .. Len(toZc'), toZc'[i].kind = "record"
                PROVE  Near(b, toZc'[i].blk)
    BY <1>6 DEF LastBehind, RecordAt, Near
  <2>. QED BY <1>1, <1>7 DEF InOrder, OrderHeld, Ordered, RecordAt, b
<1>9. Ordered'
  <2>1. ASSUME NEW i \in 1 .. Len(toZc'), NEW j \in 1 .. Len(toZc'), i < j,
               toZc'[i].kind = "record", toZc'[j].kind = "record"
        PROVE  Near(toZc'[i].blk, toZc'[j].blk)
    <3>1. i + 1 < j + 1
      BY <2>1
    <3>. QED BY <1>7, <2>1, <3>1 DEF InOrder, OrderHeld, Ordered, RecordAt
  <2>. QED BY <2>1 DEF Ordered, RecordAt, Near
<1>10. FreshZero'
  BY <1>7, GatewayKept DEF InOrder, OrderHeld, FreshZero, RecordAt
<1>11. FrameAhead'
  <2>. SUFFICES ASSUME InCall, xfer.endFlag = 0
                PROVE  /\ \A i \in 1 .. Len(toZc') :
                            toZc'[i].kind = "record" => Near(toZc'[i].blk, xfer.real)
                       /\ Near(b, xfer.real)
    BY <1>6, GatewayKept DEF FrameAhead, BehindBlock, RecordAt, Near, InCall
  <2>1. BehindBlock(xfer.real)
    BY DEF InOrder, OrderHeld, FrameAhead
  <2>. QED BY <1>1, <1>7, <2>1 DEF BehindBlock, RecordAt, b
<1>. QED BY <1>5, <1>8, <1>9, <1>10, <1>11 DEF OrderHeld

LEMMA OrderExternal ==
  ASSUME InOrder, External \/ UNCHANGED vars
  PROVE  OrderHeld'
<1>1. CASE CloudOffer \/ UNCHANGED vars
  <2>1. toZc' = toZc /\ zc' = zc /\ UNCHANGED <<openFileFlag, otaPc, xfer>>
    BY <1>1 DEF CloudOffer, otaVars, vars
  <2>. QED BY <2>1, OrderShortened DEF Fresh, InCall, InOrder, OrderHeld, FrameAhead
<1>2. CASE (External \/ UNCHANGED vars) /\ GwUnchanged
  <2>0. /\ Fresh' => Fresh
        /\ InCall' /\ xfer'.endFlag = 0 => BehindBlock(xfer'.real)
    BY <1>2, GatewayKept DEF InCall, InOrder, OrderHeld, FrameAhead
  <2>1. CASE ZcEnterBoot \/ ZcPoll
    <3>1. toZc' = toZc /\ (zc' = zc \/ zc'.got = <<>>)
      BY <2>1 DEF ZcEnterBoot, ZcPoll, zcVars
    <3>. QED BY <2>0, <3>1, OrderShortened
  <2>2. CASE LoseToZc \/ LoseToGw
    <3>1. zc' = zc /\ (toZc' = toZc \/ (toZc # <<>> /\ toZc' = Tail(toZc)))
      BY <2>2 DEF LoseToZc, LoseToGw, zcVars
    <3>2. Shortened \/ toZc' = toZc
      BY <3>1, TailShortens, BeforeFacts DEF InOrder
    <3>. QED BY <2>0, <3>1, <3>2, OrderShortened
  <2>3. CASE ZcReceive
    <3>1. toZc # <<>> /\ toZc' = Tail(toZc) /\ Shortened /\ Head(toZc) = toZc[1]
      BY <2>3, TailShortens, BeforeFacts DEF InOrder, ZcReceive
    <3>2. CASE zc'.got = <<>>
      BY <2>0, <3>1, <3>2, OrderShortened
    <3>3. CASE zc'.got = zc.got /\ (zc'.mode # "done" => zc.mode # "done")
      BY <2>0, <3>1, <3>3, OrderShortened
    <3>4. CASE zc.mode = "done"
      <4>1. zc' = zc \/ zc'.got = <<>>
        BY <2>3, <3>4 DEF ZcReceive, Booting
      <4>. QED BY <3>2, <3>3, <3>4, <4>1
    <3>5. CASE /\ zc.mode # "done" /\ Head(toZc).kind = "record"
               /\ Head(toZc).num = (Len(zc.got) + 1) % PackMod
               /\ zc'.got = Append(zc.got, Head(toZc).blk)
      BY <1>2, <3>1, <3>5, OrderAccept DEF RecordAt
    <3>. QED BY <2>3, <3>2, <3>3, <3>4, <3>5, ReceivedBlocks DEF InOrder, Before
  <2>. QED BY <1>1, <1>2, <2>1, <2>2, <2>3 DEF External
<1>. QED BY <1>1, <1>2 DEF External, ZcEnterBoot, ZcPoll, ZcReceive, LoseToZc, LoseToGw

\* A number used again too soon is never forgotten.
LEMMA OverrunStays == TypeOK /\ [Next]_vars /\ overrun' = 0 => overrun = 0
<1>. SUFFICES ASSUME TypeOK, [Next]_vars, overrun' = 0 PROVE overrun = 0
  OBVIOUS
<1>. USE DEF shared, otaVars, history
<1>1. CASE SendNext
  BY <1>1 DEF SendNext
<1>2. CASE CallTransport \/ OpenFails \/ StoreWait \/ Resend \/ WaitTurn \/ EndAcked
           \/ UploadComplete \/ RestartApp \/ Crash \/ AfterLoop
  BY <1>2 DEF CallTransport, OpenFails, StoreWait, Resend, WaitTurn, EndAcked,
              UploadComplete, RestartApp, Crash, AfterLoop
<1>3. CASE GiveUp \/ Refused \/ WaitTimeout
  BY <1>3 DEF GiveUp, Refused, WaitTimeout, Abandon, Begun
<1>4. CASE RxThread \/ CloudOffer \/ UNCHANGED vars
  BY <1>4 DEF RxThread, RxByte, RxText, RxStore, CloudOffer, vars
<1>5. CASE ZcEnterBoot \/ ZcPoll \/ ZcReceive \/ LoseToZc \/ LoseToGw
  BY <1>5 DEF ZcEnterBoot, ZcPoll, ZcReceive, LoseToZc, LoseToGw, GwUnchanged
<1>. QED BY <1>1, <1>2, <1>3, <1>4, <1>5 DEF Next, OtaThread, External

LEMMA OrderInit == Init => OrderInv
<1>. SUFFICES ASSUME Init PROVE OrderHeld
  BY DEF OrderInv
<1>1. toZc = <<>> /\ Len(toZc) = 0 /\ zc.got = <<>> /\ Len(zc.got) = 0 /\ otaPc = "idle"
  BY DEF Init
<1>. QED BY <1>1 DEF OrderHeld, Ordered, LastBehind, FrameAhead, FreshZero, InRow, Collecting,
            InCall

LEMMA OrderStep ==
  TypeOK /\ HandleInv /\ MidInv /\ RecordsFaithful /\ AcceptedFaithful /\ OrderInv /\ [Next]_vars
    => OrderInv'
<1>. SUFFICES ASSUME TypeOK, HandleInv, MidInv, RecordsFaithful, AcceptedFaithful, OrderInv,
                     [Next]_vars, reused' = 0, overrun' = 0
              PROVE  OrderHeld'
  BY DEF OrderInv
<1>1. InOrder
  BY ReusedStays, OverrunStays DEF InOrder, Before, OrderInv
<1>2. CASE SendNext
  BY <1>1, <1>2, OrderSend
<1>3. CASE Resend
  BY <1>1, <1>3, OrderResend
<1>4. CASE GiveUp \/ Refused
  <2>1. Abandon(Cancel) \/ Abandon(toZc)
    BY <1>4 DEF GiveUp, Refused
  <2>. QED BY <1>1, <2>1, OrderAbandon
<1>5. CASE WaitTimeout
  <2>1. Abandon(toZc) \/ UNCHANGED <<lineVars, fileVars>>
    BY <1>5 DEF WaitTimeout
  <2>. QED BY <1>1, <1>5, <2>1, OrderAbandon, OrderCalls
<1>6. CASE UploadComplete \/ RestartApp
  BY <1>1, <1>6, OrderComplete, OrderRestart
<1>7. CASE CallTransport \/ OpenFails \/ StoreWait \/ WaitTurn \/ EndAcked \/ Crash
           \/ AfterLoop \/ RxThread
  BY <1>1, <1>7, OrderCalls
<1>8. CASE External \/ UNCHANGED vars
  BY <1>1, <1>8, OrderExternal
<1>. QED BY <1>2, <1>3, <1>4, <1>5, <1>6, <1>7, <1>8 DEF Next, OtaThread

\* However many blocks the image has and however often pack_counter has wrapped, the ZC
\* accepts the blocks in order and without a gap, in spite of losses, late answers and
\* resends: the records under way and the last block kept stay less than PackMod apart
\* until the transport uses a number again while a block that bore it is pending.
THEOREM BlocksAlwaysInOrder == Spec => []BlocksInOrder
<1>1. OrderInv /\ AcceptedFaithful => BlocksInOrder
  BY DEF OrderInv, OrderHeld, InRow, AcceptedFaithful, BlocksInOrder
<1>2. Init => RecordsFaithful
  BY DEF Init, RecordsFaithful
<1>. QED
  BY <1>1, <1>2, TypeInit, TypeStep, HandleInit, HandleStep, MidInit, MidStep, RecordsStep,
     AcceptedInit, AcceptedStep, OrderInit, OrderStep, PTL DEF Spec

-----------------------------------------------------------------------------
(* Beginnings of the image *)

\* The place where accepted blocks stop being the image exists: it is the least at
\* which they do not go on as the image does.
LEMMA BeginningExists ==
  ASSUME NEW got \in Seq(0 .. NumBlocks)
  PROVE  Beginning(got) \in 0 .. Len(got) /\ EndsAt(got, Beginning(got))
<1>. DEFINE Stops == {n \in 0 .. Len(got) : n = Len(got) \/ n >= NumBlocks \/ got[n + 1] # n + 1}
<1>1. Stops \in SUBSET Nat /\ Len(got) \in Stops
  OBVIOUS
<1>. HIDE DEF Stops
<1>2. PICK n \in Stops : \A k \in Stops : n <= k
  BY <1>1, LeastNat
<1>3. n \in 0 .. Len(got) /\ (n = Len(got) \/ n >= NumBlocks \/ got[n + 1] # n + 1)
  BY <1>2 DEF Stops
<1>4. ASSUME NEW k \in 1 .. n PROVE got[k] = k
  <2>1. k - 1 \in 0 .. Len(got) /\ k - 1 \notin Stops
    BY <1>1, <1>2, <1>3
  <2>. QED BY <2>1, <1>3 DEF Stops
<1>5. EndsAt(got, n)
  BY <1>3, <1>4 DEF EndsAt
<1>. QED BY <1>3, <1>5 DEF Beginning

\* ... and is the only one.
LEMMA BeginningUnique ==
  ASSUME NEW got \in Seq(0 .. NumBlocks), NEW n \in 0 .. Len(got), EndsAt(got, n)
  PROVE  Beginning(got) = n
<1>1. ASSUME NEW i \in 0 .. Len(got), NEW j \in 0 .. Len(got), EndsAt(got, i), EndsAt(got, j),
             i < j
      PROVE  FALSE
  <2>1. i + 1 \in 1 .. j /\ i + 1 \in 1 .. Len(got)
    BY <1>1
  <2>2. got[i + 1] \in 0 .. NumBlocks
    BY <2>1, ElementOfSeq
  <2>3. got[i + 1] = i + 1
    BY <1>1, <2>1 DEF EndsAt
  <2>4. i # Len(got) /\ i < NumBlocks
    BY <1>1, <2>2, <2>3, SizesAssumption
  <2>. QED BY <1>1, <2>3, <2>4, SizesAssumption DEF EndsAt
<1>. QED BY <1>1, BeginningExists

LEMMA BeginningEmpty == Beginning(<<>>) = 0
<1>. DEFINE got == <<>>
<1>1. got \in Seq(0 .. NumBlocks) /\ Len(got) = 0
  OBVIOUS
<1>. HIDE DEF got
<1>2. Beginning(got) \in 0 .. Len(got)
  BY <1>1, BeginningExists
<1>3. Beginning(got) = 0
  BY <1>1, <1>2
<1>. QED BY <1>3 DEF got

\* The whole image begins with all of its blocks.
LEMMA BeginningImage ==
  ASSUME NEW got \in Seq(0 .. NumBlocks), got = Image
  PROVE  Beginning(got) = NumBlocks
<1>1. Len(got) = NumBlocks /\ \A i \in 1 .. NumBlocks : got[i] = i
  BY SizesAssumption DEF Image, Blocks
<1>2. NumBlocks \in 0 .. Len(got) /\ EndsAt(got, NumBlocks)
  BY <1>1, SizesAssumption DEF EndsAt
<1>. QED BY <1>2, BeginningUnique

\* One more block is one more of the image, or none of it.
LEMMA BeginningAppend ==
  ASSUME NEW got \in Seq(0 .. NumBlocks), NEW b \in 0 .. NumBlocks
  PROVE  \/ Beginning(Append(got, b)) = Beginning(got)
         \/ /\ Beginning(got) < NumBlocks
            /\ Beginning(Append(got, b)) = Beginning(got) + 1
<1>. DEFINE n == Beginning(got)
            longer == Append(got, b)
<1>1. /\ longer \in Seq(0 .. NumBlocks) /\ Len(longer) = Len(got) + 1
      /\ \A i \in 1 .. Len(got) : longer[i] = got[i]
  OBVIOUS
<1>2. n \in 0 .. Len(got) /\ EndsAt(got, n)
  BY BeginningExists
<1>. HIDE DEF n, longer
<1>3. CASE EndsAt(longer, n)
  <2>1. n \in 0 .. Len(longer)
    BY <1>1, <1>2
  <2>2. Beginning(longer) = n
    BY <1>1, <1>3, <2>1, BeginningUnique
  <2>. QED BY <2>2 DEF n, longer
<1>4. CASE ~EndsAt(longer, n)
  <2>1. \A k \in 1 .. n : longer[k] = k
    BY <1>1, <1>2 DEF EndsAt
  <2>2. ~(n = Len(longer) \/ n >= NumBlocks \/ longer[n + 1] # n + 1)
    BY <1>4, <2>1 DEF EndsAt
  <2>3. n = Len(got) /\ n < NumBlocks
    <3>1. n < NumBlocks
      BY <1>2, <2>2, SizesAssumption
    <3>2. n = Len(got) \/ got[n + 1] # n + 1
      BY <1>2, <3>1, SizesAssumption DEF EndsAt
    <3>3. n # Len(got) => n + 1 \in 1 .. Len(got)
      BY <1>2
    <3>. QED BY <1>1, <2>2, <3>1, <3>2, <3>3
  <2>4. n + 1 \in 0 .. Len(longer) /\ EndsAt(longer, n + 1)
    BY <1>1, <2>1, <2>2, <2>3 DEF EndsAt
  <2>5. Beginning(longer) = n + 1
    BY <1>1, <2>4, BeginningUnique
  <2>. QED BY <2>3, <2>5 DEF n, longer
<1>. QED BY <1>3, <1>4

-----------------------------------------------------------------------------
(* The steps *)

\* What a step may do to the three things the transfer is about.
LEMMA Moves ==
  ASSUME TypeOK, NoWordOfSuccess, offers = 1, MaxOffers = 1, [Next]_vars
  PROVE  \/ zc'.got = zc.got /\ installed' = installed /\ zcSoftVersion' = zcSoftVersion
         \/ zc'.got = <<>> /\ installed' = installed /\ zcSoftVersion' = zcSoftVersion
         \/ /\ \E b \in 0 .. NumBlocks : zc'.got = Append(zc.got, b)
            /\ installed' = installed /\ zcSoftVersion' = zcSoftVersion
         \/ /\ zc.got = Image /\ zc'.got = zc.got /\ installed' = 1
            /\ zcSoftVersion' = zcSoftVersion
         \/ /\ installed = 1 /\ installed' = installed /\ zc'.got = zc.got
            /\ zcSoftVersion' = "new"
<1>1. CASE RestartApp
  <2>1. installed = 1
    BY <1>1 DEF NoWordOfSuccess, RestartApp, TypeOK, ExternalTypes
  <2>. QED BY <1>1, <2>1 DEF RestartApp
<1>2. CASE OtaThread /\ ~RestartApp
  <2>1. installed' = installed /\ zcSoftVersion' = zcSoftVersion
        /\ (zc' = zc \/ zc'.got = <<>>)
    <3>1. CASE GiveUp
      BY <3>1 DEF GiveUp, Abandon, zigbeeModeReset
    <3>2. CASE Refused
      BY <3>2 DEF Refused, Abandon, zigbeeModeReset
    <3>3. CASE WaitTimeout
      BY <3>3 DEF WaitTimeout, Abandon, zigbeeModeReset, lineVars
    <3>4. CASE SendNext \/ Resend
      BY <3>4 DEF SendNext, Resend, shared
    <3>5. CASE CallTransport \/ OpenFails \/ StoreWait \/ WaitTurn
      BY <3>5 DEF CallTransport, OpenFails, StoreWait, WaitTurn, shared, flags, lineVars
    <3>6. CASE EndAcked \/ UploadComplete \/ Crash \/ AfterLoop
      BY <3>6 DEF EndAcked, UploadComplete, Crash, AfterLoop, shared, lineVars
    <3>. QED BY <1>2, <3>1, <3>2, <3>3, <3>4, <3>5, <3>6 DEF OtaThread
  <2>. QED BY <2>1
<1>3. CASE RxThread
  BY <1>3 DEF RxThread, RxByte, RxText, RxStore, zcVars, lineVars, flags
<1>4. CASE ZcReceive
  <2>1. zcSoftVersion' = zcSoftVersion
    BY <1>4 DEF ZcReceive, GwUnchanged, shared
  <2>2. CASE installed' # installed
    <3>1. ZcEot /\ zc.got = Image
      BY <1>4, <2>2 DEF ZcReceive, ZcEot
    <3>2. zc' = [mode |-> "done", got |-> zc.got] /\ installed' = 1
      BY <3>1 DEF ZcEot
    <3>. QED BY <2>1, <3>1, <3>2
  <2>3. CASE installed' = installed
    <3>1. Head(toZc) \in ToZcMsg
      BY <1>4 DEF ZcReceive, TypeOK, ExternalTypes
    <3>2. Head(toZc).kind = "record" => Head(toZc).blk \in 0 .. NumBlocks
      BY <3>1 DEF ToZcMsg, Record
    <3>. QED BY <1>4, <2>1, <2>3, <3>2, ReceivedBlocks
  <2>. QED BY <2>2, <2>3
<1>5. CASE External /\ ~ZcReceive
  <2>1. ~CloudOffer
    BY DEF CloudOffer
  <2>2. installed' = installed /\ zcSoftVersion' = zcSoftVersion
        /\ (zc' = zc \/ zc'.got = <<>>)
    BY <1>5, <2>1 DEF External, ZcEnterBoot, ZcPoll, LoseToZc, LoseToGw, GwUnchanged, shared,
      zcVars
  <2>. QED BY <2>2
<1>6. CASE UNCHANGED vars
  BY <1>6 DEF vars
<1>. QED BY <1>1, <1>2, <1>3, <1>4, <1>5, <1>6 DEF Next

\* Each of these moves is a step of the transfer, or none.
LEMMA TransferStep ==
  TypeOK /\ TypeOK' /\ NoWordOfSuccess /\ offers = 1 /\ MaxOffers = 1 /\ [Next]_vars
    => [Transfer!Next]_(Transfer!imageVars)
<1>. SUFFICES ASSUME TypeOK, TypeOK', NoWordOfSuccess, offers = 1, MaxOffers = 1, [Next]_vars
              PROVE  [Transfer!Next]_(Transfer!imageVars)
  OBVIOUS
<1>. USE DEF Transfer!Next, Transfer!imageVars
<1>1. zc.got \in Seq(0 .. NumBlocks)
  BY DEF TypeOK, ExternalTypes
<1>2. CASE zc'.got = zc.got /\ installed' = installed /\ zcSoftVersion' = zcSoftVersion
  BY <1>2
<1>3. CASE zc'.got = <<>> /\ installed' = installed /\ zcSoftVersion' = zcSoftVersion
  BY <1>3, BeginningEmpty DEF Transfer!StartAgain
<1>4. CASE /\ \E b \in 0 .. NumBlocks : zc'.got = Append(zc.got, b)
           /\ installed' = installed /\ zcSoftVersion' = zcSoftVersion
  <2>1. \/ Beginning(zc'.got) = Beginning(zc.got)
        \/ Beginning(zc.got) < NumBlocks /\ Beginning(zc'.got) = Beginning(zc.got) + 1
    BY <1>1, <1>4, BeginningAppend
  <2>. QED BY <1>4, <2>1 DEF Transfer!Accept
<1>5. CASE /\ zc.got = Image /\ zc'.got = zc.got /\ installed' = 1
           /\ zcSoftVersion' = zcSoftVersion
  BY <1>1, <1>5, BeginningImage DEF Transfer!Install
<1>6. CASE /\ installed = 1 /\ installed' = installed /\ zc'.got = zc.got
           /\ zcSoftVersion' = "new"
  BY <1>6 DEF Transfer!Announce
<1>. QED BY Moves, <1>2, <1>3, <1>4, <1>5, <1>6

LEMMA TransferInit == Init => Transfer!Init
  BY BeginningEmpty DEF Init, Transfer!Init

\* With one image on offer.
LEMMA OneOffer == MaxOffers = 1 /\ offers = 1 /\ [Next]_vars => offers' = 1
<1>. SUFFICES ASSUME MaxOffers = 1, offers = 1, [Next]_vars PROVE offers' = 1
  OBVIOUS
<1>1. CASE OtaThread
  BY <1>1 DEF OtaThread, CallTransport, OpenFails, SendNext, StoreWait, Resend, GiveUp,
    Refused, WaitTurn, WaitTimeout, Abandon, zigbeeModeReset, EndAcked, UploadComplete,
    RestartApp, Crash, AfterLoop
<1>2. CASE RxThread
  BY <1>2 DEF RxThread, RxByte, RxText, RxStore
<1>3. CASE External
  BY <1>3 DEF External, ZcEnterBoot, ZcPoll, ZcReceive, LoseToZc, LoseToGw, CloudOffer
<1>4. CASE UNCHANGED vars
  BY <1>4 DEF vars
<1>. QED BY <1>1, <1>2, <1>3, <1>4 DEF Next

\* The upgrade implements the transfer for the one image on offer: the coordinator's
\* blocks are collected in order, the image is installed only when complete and the new
\* version announced only when it is installed, in spite of losses, time outs, late
\* answers and the two threads' unlocked station.
THEOREM UpgradeImplementsTransfer == ASSUME MaxOffers = 1 PROVE Spec => ImplementsTransfer
<1>1. Init => TypeOK /\ NoWordOfSuccess /\ offers = 1
  BY TypeInit, NoWordInit DEF Init
<1>2. TypeOK /\ NoWordOfSuccess /\ offers = 1 /\ [Next]_vars
        => (TypeOK /\ NoWordOfSuccess /\ offers = 1)'
  BY TypeStep, NoWordStep, OneOffer
<1>3. TypeOK /\ TypeOK' /\ NoWordOfSuccess /\ offers = 1 /\ [Next]_vars
        => [Transfer!Next]_(Transfer!imageVars)
  BY TransferStep
<1>. QED BY <1>1, <1>2, <1>3, TransferInit, PTL DEF Spec, ImplementsTransfer, Transfer!Spec
=============================================================================
