----------------------------- MODULE XmodemOta -----------------------------
(***************************************************************************)
(* The upgrade of the Zigbee coordinator (ZC) firmware over the serial     *)
(* line: userXmodemTransport of hm_zcOtaSource.c, run by the OTA thread,   *)
(* against the receive loop of uart_work_task_init (hm_uartCmdExecute.c),  *)
(* which turns the bytes of the ZC's boot loader into values of the shared *)
(* byte zcXmodemStation.  The two threads share that byte, the flag        *)
(* devOtaUpdateingFlag and otaStationInfo and take no lock.                *)
(*                                                                         *)
(* Sizes are counted in blocks of XMODEM_DATA_SIZE bytes: an image is the  *)
(* sequence of blocks 1 .. NumBlocks and a frame is the number of the      *)
(* block it holds, 0 standing for bytes that are no block of the file (an  *)
(* uninitialised buffer, or the zeros left by a read at end of file).  A   *)
(* record is atomic on the line: its CRC makes a damaged one a lost one.   *)
(* XMODEM_IDLE is never stored in zcXmodemStation by this code, so the     *)
(* branch that spins on it is left out.                                    *)
(***************************************************************************)
EXTENDS Integers, Sequences

CONSTANTS
  NumBlocks,    \* blocks of the image file /root/ota/exe/zigbee.gbl
  PackMod,      \* values of the uint8_t packet counter (256)
  MaxRetry,     \* 10 in `retry_num++ > 10`
  WaitLimit,    \* 50 in `waitNum >= 50`
  ResetLimit,   \* 3 in `++zbreset_timeout_counts < 3`
  CheckMod,     \* values of the uint8_t userOtaZigbeeGWCheck (256)
  LineCap,      \* bound on the messages in flight in each direction
  MaxOffers,    \* bound on the images the cloud offers
  Losable,      \* kinds of messages the line may lose
  Boards        \* pairs of flags a gateway may start with

ASSUME SizesAssumption ==
  /\ NumBlocks \in Nat \ {0}
  /\ PackMod \in Nat /\ PackMod > 2
  /\ MaxRetry \in Nat
  /\ WaitLimit \in Nat \ {0}
  /\ ResetLimit \in Nat \ {0}
  /\ CheckMod \in Nat /\ CheckMod > 2
  /\ LineCap \in Nat \ {0}
  /\ MaxOffers \in Nat

ASSUME BoardsAssumption ==
  Boards \subseteq [firstPowerOn : {0, 1}, needFlag : {0, 1}]

VARIABLES
  \* shared by the two threads
  zcXmodemStation,        \* what the OTA thread should do next
  devOtaUpdateingFlag,    \* 1 while the line belongs to the upgrade
  otaStationInfo,         \* the image on offer, as the cloud described it
  otaContrlInfo,          \* outcome of the upgrade for the WIFI side
  zcSoftVersion,          \* "new" once set to otaStationInfo.devImageVersion
  \* OTA thread
  otaPc,                  \* where userXmodemTransport stands
  openFileFlag,           \* global, 1: the file is believed open
  filePos,                \* blocks read so far through the open handle
  fp,                     \* what the local pointer fp holds
  xfer,                   \* the other locals of userXmodemTransport
  FirstPowerOnZBOTAFlag,
  zbreset_timeout_counts,
  \* receive thread
  rxWrite,                \* value it is about to store in zcXmodemStation
  userOtaZigbeeGWCheck,
  \* the line and the coordinator (external)
  toZc, toGw,
  zc,                     \* mode and accepted blocks
  installed,              \* 1: the ZC holds the whole image on offer
  offers,
  reused,                 \* history, 1: a call has run on a handle it did not open
  overrun                 \* history, 1: a number was used again while the ZC could still
                          \* take it for the block that bore it before

shared == <<zcXmodemStation, devOtaUpdateingFlag, otaStationInfo,
            otaContrlInfo, zcSoftVersion>>
otaVars == <<otaPc, openFileFlag, filePos, fp, xfer, FirstPowerOnZBOTAFlag,
             zbreset_timeout_counts, reused, overrun>>
rxVars == <<rxWrite, userOtaZigbeeGWCheck>>
zcVars == <<zc, installed>>
vars == <<zcXmodemStation, devOtaUpdateingFlag, otaStationInfo, otaContrlInfo,
          zcSoftVersion, otaPc, openFileFlag, filePos, fp, xfer,
          FirstPowerOnZBOTAFlag, zbreset_timeout_counts, rxWrite,
          userOtaZigbeeGWCheck, toZc, toGw, zc, installed, offers, reused,
          overrun>>

NO_DEV_NEED_UPDATE_IMAGE == 1

Station == {"NONE", "START", "ACK", "NAK", "CAN", "WAIT_COMMUNITE_ACK",
            "WAIT_END_ACK", "END", "RESTART_APP"}

Blocks == 1 .. NumBlocks

\* What the gateway writes: a record, EOT, CAN (the three in a row are one)
\* and 'r', the request to start the application.
Record == [kind : {"record"}, num : 0 .. PackMod - 1, blk : 0 .. NumBlocks]
Byte(k) == [kind |-> k]
ToZcMsg == Record \cup [kind : {"EOT", "CAN", "r"}]

\* What the ZC writes: single bytes, and console text of several bytes: the
\* banner that ends in a new line and 'C', and "Serial upload complete".
SingleByte == {"C", "ACK", "NAK", "CAN"}
ToGwMsg == SingleByte \cup {"prompt", "complete"}

-----------------------------------------------------------------------------
\* uartSendXmodemRecord, ...OTAEnd, ...ExApp: XmWriteBuf puts the
\* message on the line; what does not fit is lost.
Put(line, m) == IF Len(line) < LineCap THEN Append(line, m) ELSE line

\* A message written three times in a row: one of them gets through.
Insist(line, m) ==
  IF Len(line) < LineCap THEN Append(line, m) ELSE [line EXCEPT ![LineCap] = m]

\* uartSendXmodemCancel, called three times.
Cancel == Insist(toZc, Byte("CAN"))

Send(m) == toZc' = Put(toZc, m)

RecordOf(num, blk) == [kind |-> "record", num |-> num, blk |-> blk]

\* zigbeeModeReset: the ZC restarts, in its boot loader if an upload has begun
\* to overwrite the application, and the bytes under way to it are lost.
RestartMode == IF zc.mode = "erased" THEN "erased" ELSE "app"
zigbeeModeReset ==
  /\ zc' = [mode |-> RestartMode, got |-> <<>>]
  /\ toZc' = <<>>
  /\ UNCHANGED <<toGw, installed>>

\* The locals between two calls.
NoLocals == [pack |-> 0, real |-> 0, remain |-> 0, retry |-> 0, wait |-> 0,
             endFlag |-> 0, frame |-> 0]

-----------------------------------------------------------------------------
Init ==
  /\ zcXmodemStation = "NONE"
  /\ devOtaUpdateingFlag = 0
  /\ \E b \in Boards :
       /\ FirstPowerOnZBOTAFlag = b.firstPowerOn
       /\ otaStationInfo = [firmwareValid |-> 1, devUpdateNeedFlag |-> b.needFlag,
                            devImageSize |-> NumBlocks,
                            needDownloadImageFromCloud |-> 0]
  /\ otaContrlInfo = [ota_type |-> 1, ota_status |-> 0, allow |-> 0]
  /\ zcSoftVersion = "old"
  /\ otaPc = "idle"
  /\ openFileFlag = 0
  /\ filePos = 0
  /\ fp = "none"
  /\ xfer = NoLocals
  /\ zbreset_timeout_counts = 0
  /\ rxWrite = "nothing"
  /\ userOtaZigbeeGWCheck = 0
  /\ toZc = <<>>
  /\ toGw = <<>>
  /\ zc = [mode |-> "app", got |-> <<>>]
  /\ installed = 0
  /\ offers = 1
  /\ reused = 0 /\ overrun = 0

-----------------------------------------------------------------------------
(* The OTA thread.  The caller is not under src/: it calls the transport
   while devOtaUpdateingFlag is set. *)

fileVars == <<openFileFlag, filePos, fp>>
lineVars == <<toZc, toGw, zc, installed>>
history == <<reused, overrun>>
flags == <<devOtaUpdateingFlag, otaStationInfo, otaContrlInfo, zcSoftVersion>>

\* Entry: the counters restart, zcXmodemStation does not, and neither retry_num,
\* frame_data nor fp is initialised: fp holds what the stack holds, the handle
\* of the previous call or garbage.
CallTransport ==
  /\ otaPc = "idle" /\ devOtaUpdateingFlag = 1
  /\ otaPc' = "switch"
  /\ \E retry \in 0 .. MaxRetry + 1 :
       xfer' = [NoLocals EXCEPT !.remain = otaStationInfo.devImageSize, !.retry = retry]
  /\ fp' \in IF openFileFlag = 0 THEN {"none"}
             ELSE IF fp \in {"own", "stale"} THEN {"stale", "wild"} ELSE {"wild"}
  /\ reused' = IF openFileFlag = 1 THEN 1 ELSE reused
  /\ UNCHANGED <<shared, openFileFlag, filePos, FirstPowerOnZBOTAFlag, overrun,
                 zbreset_timeout_counts, rxVars, lineVars, offers>>

\* case XMODEM_ACK / XUSER_START when fopen fails: return, the flag left set.
OpenFails ==
  /\ otaPc = "switch" /\ zcXmodemStation \in {"ACK", "START"}
  /\ openFileFlag = 0
  /\ openFileFlag' = 1
  /\ otaPc' = "idle"
  /\ xfer' = NoLocals
  /\ UNCHANGED <<shared, filePos, fp, FirstPowerOnZBOTAFlag, history,
                 zbreset_timeout_counts, rxVars, lineVars, offers>>

\* The file as the branch below finds it: opened in this very pass, or before.
Opening == openFileFlag = 0
ImageSize == IF Opening THEN NumBlocks ELSE otaStationInfo.devImageSize
Left == IF Opening THEN NumBlocks ELSE xfer.remain
Position == IF Opening THEN 0 ELSE filePos

\* fread: the block at the position; nothing past the end of the file.
\* Mutant: a read that ignores the end of the file.
NextBlockUnchecked == IF Left > 0 THEN Position + 1 ELSE 0
NextBlock == IF Left > 0 /\ Position < NumBlocks THEN Position + 1 ELSE 0
\* Mutant: the counter incremented after the record is built.
NextPackLate == xfer.pack
NextPack == (xfer.pack + 1) % PackMod
NextMessage == IF Left > 0 THEN RecordOf(NextPack, NextBlock) ELSE Byte("EOT")

\* The blocks under way, and the last one kept by a ZC that waits for the next.
Pending == {toZc[i].blk : i \in {j \in 1 .. Len(toZc) : toZc[j].kind = "record"}}
           \cup {zc.got[i] : i \in {j \in 1 .. Len(zc.got) : j = Len(zc.got) /\ zc.mode # "done"}}

\* The next record bears the number of another of them: the counter has gone round.
Ambiguous == Left > 0 /\ \E b \in Pending : b # NextBlock /\ b % PackMod = NextBlock % PackMod

\* case XMODEM_ACK / XUSER_START: open the file in the first pass, then send the
\* next block, or EOT when none remains.  The station is stored afterwards.
SendNext ==
  /\ otaPc = "switch" /\ zcXmodemStation \in {"ACK", "START"}
  /\ openFileFlag' = 1
  /\ fp' = IF Opening THEN "own" ELSE fp
  /\ Left > 0 => fp' # "wild"
  /\ otaStationInfo' = [otaStationInfo EXCEPT !.devImageSize = ImageSize]
  /\ filePos' = IF NextBlock # 0 THEN NextBlock ELSE Position
  /\ xfer' = [pack |-> NextPack, real |-> xfer.real + 1, retry |-> 0, wait |-> 0,
              frame |-> NextBlock,
              remain |-> IF Left > 0 THEN ImageSize - (xfer.real + 1) ELSE Left,
              endFlag |-> IF Left > 0 THEN xfer.endFlag ELSE 1]
  /\ Send(NextMessage)
  /\ overrun' = IF Ambiguous THEN 1 ELSE overrun
  /\ otaPc' = IF Left > 0 THEN "sentRecord" ELSE "sentEOT"
  /\ UNCHANGED <<zcXmodemStation, devOtaUpdateingFlag, otaContrlInfo, zcSoftVersion,
                 FirstPowerOnZBOTAFlag, zbreset_timeout_counts, reused, rxVars,
                 toGw, zc, installed, offers>>

\* The assignment that follows the write of a record or of EOT.
StoreWait ==
  /\ otaPc \in {"sentRecord", "sentEOT"}
  /\ zcXmodemStation' = IF otaPc = "sentRecord" THEN "WAIT_COMMUNITE_ACK"
                                                ELSE "WAIT_END_ACK"
  /\ otaPc' = "switch"
  /\ UNCHANGED <<flags, fileVars, xfer, FirstPowerOnZBOTAFlag, history,
                 zbreset_timeout_counts, rxVars, lineVars, offers>>

\* Mutant: a resend that reads the file again.
ResendReread ==
  /\ otaPc = "switch" /\ zcXmodemStation = "NAK" /\ xfer.retry <= MaxRetry
  /\ xfer' = [xfer EXCEPT !.retry = @ + 1]
  /\ Send(IF xfer.endFlag = 1 THEN Byte("EOT") ELSE RecordOf(xfer.pack, NextBlock))
  /\ otaPc' = IF xfer.endFlag = 1 THEN "sentEOT" ELSE "sentRecord"
  /\ UNCHANGED <<shared, fileVars, FirstPowerOnZBOTAFlag, zbreset_timeout_counts,
                 history, rxVars, toGw, zc, installed, offers>>

\* case XMODEM_NAK, at most MaxRetry + 1 times in a row: the same frame again.
Resend ==
  /\ otaPc = "switch" /\ zcXmodemStation = "NAK" /\ xfer.retry <= MaxRetry
  /\ xfer' = [xfer EXCEPT !.retry = @ + 1]
  /\ Send(IF xfer.endFlag = 1 THEN Byte("EOT") ELSE RecordOf(xfer.pack, xfer.frame))
  /\ otaPc' = IF xfer.endFlag = 1 THEN "sentEOT" ELSE "sentRecord"
  /\ UNCHANGED <<shared, fileVars, FirstPowerOnZBOTAFlag, zbreset_timeout_counts,
                 history, rxVars, toGw, zc, installed, offers>>

\* Mutant: an upload that counts as begun one record too late.
BegunLate == xfer.real > 2

\* Whether an upload counts as begun: two records have been sent.
Begun == xfer.real > 1

\* How every failing branch leaves the ZC: reset once an upload has begun, else
\* only the line is given back.
Abandon(line) ==
  /\ otaPc' = "after"
  /\ \/ /\ Begun
        /\ zigbeeModeReset
        /\ UNCHANGED devOtaUpdateingFlag
     \/ /\ ~Begun
        /\ devOtaUpdateingFlag' = 0
        /\ toZc' = line
        /\ UNCHANGED <<toGw, zc, installed>>
  /\ UNCHANGED <<zcXmodemStation, otaStationInfo, zcSoftVersion, fileVars, history,
                 FirstPowerOnZBOTAFlag, rxVars, offers>>

\* case XMODEM_NAK once too often.
GiveUp ==
  /\ otaPc = "switch" /\ zcXmodemStation = "NAK" /\ xfer.retry > MaxRetry
  /\ xfer' = [xfer EXCEPT !.retry = MaxRetry + 1]
  /\ Abandon(Cancel)
  /\ UNCHANGED <<otaContrlInfo, zbreset_timeout_counts>>

\* case XMODEM_CAN, and the default branch for a station no one has set yet, which
\* cancels on its own account.
Refused ==
  /\ otaPc = "switch" /\ zcXmodemStation \in {"CAN", "NONE"}
  /\ Abandon(IF zcXmodemStation = "NONE" THEN Cancel ELSE toZc)
  /\ UNCHANGED <<otaContrlInfo, xfer, zbreset_timeout_counts>>

Waiting == zcXmodemStation \in {"WAIT_COMMUNITE_ACK", "WAIT_END_ACK"}

\* Mutant: a wait whose turns are not counted.
WaitTurnUncounted ==
  /\ otaPc = "switch" /\ Waiting /\ xfer.wait + 1 < WaitLimit
  /\ UNCHANGED <<shared, otaPc, fileVars, xfer, FirstPowerOnZBOTAFlag, history,
                 zbreset_timeout_counts, rxVars, lineVars, offers>>

\* case XUSER_WAIT_*: one turn of 50 ms.
WaitTurn ==
  /\ otaPc = "switch" /\ Waiting /\ xfer.wait + 1 < WaitLimit
  /\ xfer' = [xfer EXCEPT !.wait = @ + 1]
  /\ UNCHANGED <<shared, otaPc, fileVars, FirstPowerOnZBOTAFlag, history,
                 zbreset_timeout_counts, rxVars, lineVars, offers>>

\* The outcome recorded when the ZC upgrade is given up for the WIFI one.
ZigbeeFailed == [ota_type |-> 2, ota_status |-> 1, allow |-> 1]

ResetsUsedUp == Begun /\ zbreset_timeout_counts + 1 >= ResetLimit

\* ... the last turn: from the ResetLimit-th time on the ZC is not reset.
WaitTimeout ==
  /\ otaPc = "switch" /\ Waiting /\ xfer.wait + 1 >= WaitLimit
  /\ xfer' = [xfer EXCEPT !.wait = @ + 1]
  /\ \/ /\ ResetsUsedUp
        /\ otaContrlInfo' = ZigbeeFailed
        /\ otaPc' = "after"
        /\ UNCHANGED <<zcXmodemStation, devOtaUpdateingFlag, otaStationInfo,
                       zcSoftVersion, fileVars, history, lineVars,
                       FirstPowerOnZBOTAFlag, rxVars, offers>>
     \/ /\ ~ResetsUsedUp
        /\ Abandon(toZc)
        /\ UNCHANGED otaContrlInfo
  /\ zbreset_timeout_counts' = IF ~Begun \/ zbreset_timeout_counts >= ResetLimit
                               THEN zbreset_timeout_counts
                               ELSE zbreset_timeout_counts + 1

\* case XUSER_END: complete at the first pass; `waitEnd >= 30` is never reached.
EndAcked ==
  /\ otaPc = "switch" /\ zcXmodemStation = "END"
  /\ otaPc' = "after"
  /\ UNCHANGED <<shared, fileVars, xfer, FirstPowerOnZBOTAFlag, history,
                 zbreset_timeout_counts, rxVars, lineVars, offers>>

\* case XUSER_RESTART_APP up to the 800 ms pause: close the file, hand over to
\* the WIFI upgrade ("zigebee ota success,and wifi ota").
UploadComplete ==
  /\ otaPc = "switch" /\ zcXmodemStation = "RESTART_APP"
  /\ openFileFlag = 1 => fp # "wild"
  /\ openFileFlag' = 0
  /\ fp' = "none"
  /\ filePos' = 0
  /\ otaContrlInfo' = IF otaContrlInfo.ota_type = 1
                      THEN [ota_type |-> 2, ota_status |-> 0, allow |-> 1]
                      ELSE otaContrlInfo
  /\ otaPc' = "restart"
  /\ UNCHANGED <<zcXmodemStation, devOtaUpdateingFlag, otaStationInfo, zcSoftVersion,
                 xfer, FirstPowerOnZBOTAFlag, zbreset_timeout_counts, history,
                 rxVars, lineVars, offers>>

\* Mutant: a success that does not give the line back.
RestartAppKeepsLine ==
  /\ otaPc = "restart"
  /\ zcSoftVersion' = "new"
  /\ Send(Byte("r"))
  /\ otaPc' = "after"
  /\ UNCHANGED <<zcXmodemStation, devOtaUpdateingFlag, otaStationInfo, otaContrlInfo,
                 fileVars, xfer, FirstPowerOnZBOTAFlag, zbreset_timeout_counts, history,
                 rxVars, toGw, zc, installed, offers>>

\* ... and after it: the version, 'r', and the line given back.
RestartApp ==
  /\ otaPc = "restart"
  /\ zcSoftVersion' = "new"
  /\ Send(Byte("r"))
  /\ devOtaUpdateingFlag' = 0
  /\ otaPc' = "after"
  /\ UNCHANGED <<zcXmodemStation, otaStationInfo, otaContrlInfo, fileVars, xfer,
                 FirstPowerOnZBOTAFlag, zbreset_timeout_counts, history, rxVars,
                 toGw, zc, installed, offers>>

\* fread or fclose through garbage: the process is gone.
Crash ==
  /\ otaPc = "switch" /\ fp = "wild" /\ openFileFlag = 1
  /\ \/ zcXmodemStation \in {"ACK", "START"} /\ xfer.remain > 0
     \/ zcXmodemStation = "RESTART_APP"
  /\ otaPc' = "crashed"
  /\ UNCHANGED <<shared, fileVars, xfer, FirstPowerOnZBOTAFlag, history,
                 zbreset_timeout_counts, rxVars, lineVars, offers>>

\* After the loop zcXmodemStation is read again.  A failed upgrade at first power
\* on wipes otaStationInfo; any other one is reported and left to the WIFI side.
\* (zbota_complete_counts is 1 here, so `zbota_complete_counts < 1` is false.)
AfterLoop ==
  /\ otaPc = "after"
  /\ otaPc' = "idle"
  /\ xfer' = NoLocals
  /\ LET failed == zcXmodemStation # "RESTART_APP" IN
     /\ FirstPowerOnZBOTAFlag' = IF failed THEN 0 ELSE FirstPowerOnZBOTAFlag
     /\ otaStationInfo' =
          IF FirstPowerOnZBOTAFlag = 1 /\ failed
          THEN [firmwareValid |-> 255, devUpdateNeedFlag |-> 255,
                devImageSize |-> -1, needDownloadImageFromCloud |-> 255]
          ELSE otaStationInfo
     /\ otaContrlInfo' = IF failed /\ FirstPowerOnZBOTAFlag = 0 THEN ZigbeeFailed
                                                                ELSE otaContrlInfo
  /\ UNCHANGED <<zcXmodemStation, devOtaUpdateingFlag, zcSoftVersion, fileVars,
                 zbreset_timeout_counts, history, rxVars, lineVars, offers>>

OtaThread ==
  \/ CallTransport \/ OpenFails \/ SendNext \/ StoreWait \/ Resend \/ GiveUp
  \/ Refused \/ WaitTurn \/ WaitTimeout \/ EndAcked
  \/ UploadComplete \/ RestartApp \/ Crash \/ AfterLoop

-----------------------------------------------------------------------------
(* The receive thread.  One read returns what has arrived: one message, or
   several run together, and only a read of a single byte is a control byte. *)

Alive == otaPc # "crashed"

\* The boot loader shows up: with a valid image the flag is set, and the station
\* after it; without one the image is asked of the cloud.
StartUpgrade ==
  \/ /\ otaStationInfo.firmwareValid = 1
     /\ otaStationInfo' = [otaStationInfo EXCEPT !.needDownloadImageFromCloud = 0]
     /\ devOtaUpdateingFlag' = 1
     /\ rxWrite' = "START"
  \/ /\ otaStationInfo.firmwareValid # 1
     /\ otaStationInfo' = [otaStationInfo EXCEPT !.needDownloadImageFromCloud = 1]
     /\ UNCHANGED <<devOtaUpdateingFlag, rxWrite>>

\* Mutant: the acknowledgement of EOT taken for the end of the upload.
StationForHasty(b) ==
  CASE b = "ACK" /\ zcXmodemStation = "WAIT_COMMUNITE_ACK" -> "ACK"
    [] b = "ACK" /\ zcXmodemStation = "WAIT_END_ACK"       -> "RESTART_APP"
    [] b \in {"CAN", "NAK"}                                -> b
    [] OTHER                                               -> "nothing"

\* What a control byte makes of the station, "nothing" when it is dropped.
StationFor(b) ==
  CASE b = "ACK" /\ zcXmodemStation = "WAIT_COMMUNITE_ACK" -> "ACK"
    [] b = "ACK" /\ zcXmodemStation = "WAIT_END_ACK"       -> "END"
    [] b \in {"CAN", "NAK"}                                -> b
    [] OTHER                                               -> "nothing"

NextCheck == (userOtaZigbeeGWCheck + 1) % CheckMod

UpdateNeeded == otaStationInfo.devUpdateNeedFlag # NO_DEV_NEED_UPDATE_IMAGE

RxByte ==
  /\ Alive /\ rxWrite = "nothing"
  /\ toGw # <<>> /\ Head(toGw) \in SingleByte
  /\ toGw' = Tail(toGw)
  /\ \/ /\ UpdateNeeded /\ devOtaUpdateingFlag = 1
        /\ rxWrite' = StationFor(Head(toGw))
        /\ UNCHANGED <<otaStationInfo, devOtaUpdateingFlag, userOtaZigbeeGWCheck>>
     \/ /\ UpdateNeeded /\ devOtaUpdateingFlag = 0 /\ Head(toGw) \in {"NAK", "C"}
        /\ userOtaZigbeeGWCheck' = NextCheck
        /\ IF NextCheck >= 2 THEN StartUpgrade
           ELSE UNCHANGED <<otaStationInfo, devOtaUpdateingFlag, rxWrite>>
     \/ /\ ~UpdateNeeded \/ (devOtaUpdateingFlag = 0 /\ Head(toGw) \notin {"NAK", "C"})
        /\ UNCHANGED <<otaStationInfo, devOtaUpdateingFlag, rxWrite, userOtaZigbeeGWCheck>>
  /\ UNCHANGED <<zcXmodemStation, otaContrlInfo, zcSoftVersion, otaVars, toZc, zcVars,
                 offers>>

\* The text of the first k messages: the boot loader's banner last, or the end of
\* the upload while it is waited for.
Boots(k) == devOtaUpdateingFlag = 0 /\ toGw[k] = "prompt"
UploadEnds(k) == /\ zcXmodemStation \in {"END", "WAIT_END_ACK"}
                 /\ \E i \in 1 .. k : toGw[i] = "complete"

\* A read of several bytes: text, or messages run together.  Once the banner has
\* started an upgrade the station is XUSER_START and no end is waited for.
RxText ==
  /\ Alive /\ rxWrite = "nothing"
  /\ \E k \in 1 .. Len(toGw) :
       /\ k > 1 \/ toGw[1] \notin SingleByte
       /\ toGw' = SubSeq(toGw, k + 1, Len(toGw))
       /\ \/ /\ Boots(k) /\ (otaStationInfo.firmwareValid = 1 \/ ~UploadEnds(k))
             /\ StartUpgrade
             /\ userOtaZigbeeGWCheck' = 0
          \/ /\ UploadEnds(k) /\ ~(Boots(k) /\ otaStationInfo.firmwareValid = 1)
             /\ rxWrite' = "RESTART_APP"
             /\ otaStationInfo' =
                  IF Boots(k) THEN [otaStationInfo EXCEPT !.needDownloadImageFromCloud = 1]
                              ELSE otaStationInfo
             /\ UNCHANGED <<devOtaUpdateingFlag, userOtaZigbeeGWCheck>>
          \/ /\ ~Boots(k) /\ ~UploadEnds(k)
             /\ userOtaZigbeeGWCheck' = 0
             /\ UNCHANGED <<otaStationInfo, devOtaUpdateingFlag, rxWrite>>
  /\ UNCHANGED <<zcXmodemStation, otaContrlInfo, zcSoftVersion, otaVars, toZc, zcVars,
                 offers>>

\* The assignment to zcXmodemStation, after the tests it rests on.
RxStore ==
  /\ Alive /\ rxWrite # "nothing"
  /\ zcXmodemStation' = rxWrite
  /\ rxWrite' = "nothing"
  /\ UNCHANGED <<flags, otaVars, userOtaZigbeeGWCheck, lineVars, offers>>

RxThread == RxByte \/ RxText \/ RxStore

-----------------------------------------------------------------------------
(* The coordinator, the line and the cloud: external. *)

GwUnchanged == UNCHANGED <<shared, otaVars, rxVars>>

Answer(m) == toGw' = Put(toGw, m)

\* In its boot loader, the application intact or already overwritten.
Booting == {"boot", "erased"}

\* The ZC goes to its boot loader (on the 'u' of the gateway or by itself).
ZcEnterBoot ==
  /\ zc.mode = "app"
  /\ zc' = [mode |-> "boot", got |-> <<>>]
  /\ Answer("prompt")
  /\ GwUnchanged /\ UNCHANGED <<toZc, installed, offers>>

\* It asks for a first record, or again for the one it misses, once a second: what
\* it wrote before has been read by then.
ZcPoll ==
  /\ zc.mode \in Booting /\ toGw = <<>>
  /\ \E m \in IF zc.got = <<>> THEN {"C", "prompt"} ELSE {"NAK"} : Answer(m)
  /\ GwUnchanged /\ UNCHANGED <<toZc, zcVars, offers>>

Aborted == [mode |-> zc.mode, got |-> <<>>]

\* A record with the next number is kept, the previous one again is acknowledged
\* and dropped, any other number aborts the upload.
ZcRecord(m) ==
  LET n == Len(zc.got) IN
  \/ /\ m.num = (n + 1) % PackMod
     /\ n < NumBlocks
     /\ zc' = [mode |-> "erased", got |-> Append(zc.got, m.blk)]
     /\ Answer("ACK")
  \/ /\ n > 0 /\ m.num = n % PackMod
     /\ UNCHANGED zc
     /\ Answer("ACK")
  \/ /\ m.num # (n + 1) % PackMod \/ n = NumBlocks
     /\ n = 0 \/ m.num # n % PackMod
     /\ zc' = Aborted
     /\ Answer("CAN")

Image == [i \in Blocks |-> i]

\* EOT after the whole image: acknowledged, then "Serial upload complete".
ZcEot ==
  IF zc.got = Image
  THEN /\ zc' = [mode |-> "done", got |-> zc.got]
       /\ installed' = 1
       /\ toGw' = Append(Put(toGw, "ACK"), "complete")
  ELSE /\ zc' = Aborted
       /\ Answer("CAN")
       /\ UNCHANGED installed

ZcReceive ==
  /\ toZc # <<>>
  /\ toZc' = Tail(toZc)
  /\ LET m == Head(toZc) IN
       CASE zc.mode \in Booting /\ m.kind = "record" -> ZcRecord(m) /\ UNCHANGED installed
         [] zc.mode \in Booting /\ m.kind = "EOT"    -> ZcEot
         [] zc.mode \in Booting /\ m.kind = "CAN"    ->
              zc' = Aborted /\ UNCHANGED <<toGw, installed>>
         [] zc.mode = "done" /\ m.kind = "r"      ->
              zc' = [mode |-> "app", got |-> <<>>] /\ UNCHANGED <<toGw, installed>>
         [] OTHER -> UNCHANGED <<zc, toGw, installed>>
  /\ GwUnchanged /\ UNCHANGED offers

LoseToZc ==
  /\ toZc # <<>> /\ Head(toZc).kind \in Losable
  /\ toZc' = Tail(toZc)
  /\ GwUnchanged /\ UNCHANGED <<toGw, zcVars, offers>>

LoseToGw ==
  /\ toGw # <<>> /\ Head(toGw) \in Losable
  /\ toGw' = Tail(toGw)
  /\ GwUnchanged /\ UNCHANGED <<toZc, zcVars, offers>>

\* The cloud offers another image.
CloudOffer ==
  /\ offers < MaxOffers
  /\ devOtaUpdateingFlag = 0 /\ otaPc = "idle" /\ rxWrite = "nothing"
  /\ offers' = offers + 1
  /\ otaStationInfo' = [otaStationInfo EXCEPT !.firmwareValid = 1,
                                              !.devImageSize = NumBlocks]
  /\ otaContrlInfo' = [ota_type |-> 1, ota_status |-> 0, allow |-> 0]
  /\ zcSoftVersion' = "old"
  /\ installed' = 0
  /\ UNCHANGED <<zcXmodemStation, devOtaUpdateingFlag, otaVars, rxVars, toZc, toGw, zc>>

External == ZcEnterBoot \/ ZcPoll \/ ZcReceive \/ LoseToZc \/ LoseToGw \/ CloudOffer

-----------------------------------------------------------------------------
Next == OtaThread \/ RxThread \/ External

Spec == Init /\ [][Next]_vars

\* The OTA thread keeps running: its loop polls and sleeps and never blocks.
\* Nothing is assumed of the ZC, nor of the line.
FairSpec == Spec /\ WF_vars(OtaThread)

-----------------------------------------------------------------------------
(* Properties *)

\* The types of the shared state and of the locals of both threads.
SharedTypes ==
  /\ zcXmodemStation \in Station
  /\ devOtaUpdateingFlag \in {0, 1}
  /\ otaStationInfo \in [firmwareValid : {1, 255}, devUpdateNeedFlag : {0, 1, 255},
                         devImageSize : {NumBlocks, -1},
                         needDownloadImageFromCloud : {0, 1, 255}]
  /\ otaContrlInfo \in [ota_type : {1, 2}, ota_status : {0, 1}, allow : {0, 1}]
  /\ zcSoftVersion \in {"old", "new"}

LocalsType ==
  xfer \in [pack : 0 .. PackMod - 1, real : Nat, remain : Int,
            retry : 0 .. MaxRetry + 1, wait : Nat,
            endFlag : {0, 1}, frame : 0 .. NumBlocks]

ThreadTypes ==
  /\ otaPc \in {"idle", "switch", "sentRecord", "sentEOT", "restart", "after", "crashed"}
  /\ openFileFlag \in {0, 1}
  /\ filePos \in 0 .. NumBlocks
  /\ fp \in {"none", "own", "stale", "wild"}
  /\ FirstPowerOnZBOTAFlag \in {0, 1}
  /\ zbreset_timeout_counts \in 0 .. ResetLimit
  /\ rxWrite \in {"nothing", "START", "ACK", "END", "CAN", "NAK", "RESTART_APP"}
  /\ userOtaZigbeeGWCheck \in 0 .. CheckMod - 1
  /\ reused \in {0, 1} /\ overrun \in {0, 1}

ExternalTypes ==
  /\ toZc \in Seq(ToZcMsg)
  /\ toGw \in Seq(ToGwMsg)
  /\ zc \in [mode : {"app", "boot", "erased", "done"}, got : Seq(0 .. NumBlocks)]
  /\ installed \in {0, 1}
  /\ offers \in 0 .. MaxOffers + 1

TypeOK == SharedTypes /\ LocalsType /\ ThreadTypes /\ ExternalTypes

\* As long as no call has read through a handle it did not open, every record
\* under way carries the block of the file its counter names, resends included:
\* a record is never built from a block read ahead or behind.
RecordsFaithful ==
  reused = 0 => \A i \in 1 .. Len(toZc) :
               toZc[i].kind = "record" => toZc[i].num = toZc[i].blk % PackMod

\* Under the same condition the ZC accepts the blocks of the image in order and
\* without a gap, whatever is lost, resent or acknowledged twice and however often the
\* counter has wrapped, from the first block on or, after it has dropped an upload, from
\* one with the number of the first.  An 8-bit number cannot do more than tell 256 blocks
\* apart: the transport must not have used one again while the ZC could still take it
\* for the block before.
BlocksInOrder ==
  reused = 0 /\ overrun = 0 =>
    \A i \in 1 .. Len(zc.got) : /\ zc.got[i] = zc.got[1] + i - 1
                                /\ zc.got[i] % PackMod = i % PackMod

\* Under the same condition, once the gateway has given the line back the ZC is
\* not left in the middle of an upload: it has accepted one block at most (the
\* code resets it only from the second on) or the whole image.
NotAbandonedMidImage ==
  reused = 0 /\ otaPc = "idle" /\ devOtaUpdateingFlag = 0 /\ toZc = <<>>
    => Len(zc.got) \in {0, 1, NumBlocks}

\* Until a second image is offered, the version of the new image is recorded only
\* once the ZC holds the whole of it: no call takes a time out, a refusal or an
\* early answer for the end of the upload.
FirstUploadHonest == offers = 1 /\ zcSoftVersion = "new" => installed = 1

\* "zigebee ota success,and wifi ota": a version is recorded only for a ZC that
\* holds that image, whichever upgrade of the process it is.  (It fails: the receive
\* thread sets the flag that lets the transport run before it overwrites the station
\* left by the previous upgrade.)
VersionOnlyAfterUpload == zcSoftVersion = "new" => installed = 1

\* "ota_status = 1; // zigbee fail": an upgrade is recorded as failed only while the ZC
\* does not hold the image.  (It fails even on a line that loses nothing: the station
\* XUSER_END, entered when the ZC acknowledges EOT, ends the call at once instead of
\* waiting for "Serial upload complete", and the call records a failure.)
FailureMeansNotInstalled ==
  [][otaContrlInfo.ota_status = 0 /\ otaContrlInfo'.ota_status = 1 => installed = 0]_vars

\* Every call of userXmodemTransport returns (or dies in the C library).
CallReturns == (otaPc # "idle") ~> (otaPc \in {"idle", "crashed"})

\* A ZC that falls silent does not keep the line: once the receive thread stores
\* nothing more, the flag that locks the sender thread out is cleared, by a time
\* out or by a call that finds nothing to do.  The one exception is the station
\* XUSER_END, which no call leaves and no time out bounds.
SilentZcFreesLine ==
  <>[](rxWrite = "nothing")
    => []<>(devOtaUpdateingFlag = 0 \/ otaPc = "crashed" \/ zcXmodemStation = "END")
=============================================================================
