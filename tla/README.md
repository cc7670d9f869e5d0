# A specification of the Zigbee gateway

TLA+ modules, model checking configurations and machine-checked proofs for the
firmware of the gateway in `src/src_docs`: the program that drives a Zigbee
coordinator (ZC) over a serial line, upgrades its firmware, supervises the
commands sent to Zigbee devices and keeps the list of them. Line numbers are those of
`hm_zcOtaSource.c` ("ota") and `hm_uartCmdExecute.c` ("uart").

## The system

Threads, all in one process and without any lock:

| thread | runs | writes |
| --- | --- | --- |
| receive thread | `uart_work_task_init` (uart 3895), calls `uartRcvDataDeal` | upgrade station and flags, both command tables, device list, waiting commands |
| sender thread | `uart_sent_thread` (uart 3857), calls `uartTxDataCmdDeal`, `userManageUartHeart`, `userManageUartCmdMonitor`, `uartManageCmdControlSuccess` | serial line, transmit buffer, both command tables, device list |
| OTA thread | caller of `userXmodemTransport` (ota 367), not in the repository | serial line, upgrade station and flags |
| application threads | callers of the `userFill...` and `userApp...` functions, not in the repository | transmit buffer, waiting commands, variables of the warning timer |
| timer thread | `AlarmWDStateCbk` (uart 1390), called by the timer service | `setWDTimes`, the alarm state of a device |

Components, what they keep, and what makes them correct:

* **Coordinator firmware upgrade.** The transport sends the image in XMODEM
  records and polls `zcXmodemStation`, which the receive thread overwrites as the
  boot loader answers. State: station, `devOtaUpdateingFlag`, `otaStationInfo`,
  `otaContrlInfo`, the file handle and its flag, counters of packets, retries,
  turns and resets. Hard: two threads write one byte, the line loses messages,
  late answers, time outs, state that survives a call. Correct: the coordinator
  gets the blocks in order or is reset; success and failure are recorded as they
  happened; the line is given back.
* **Supervision of commands.** `uartCmdMonito` (8 entries) holds commands that
  await an answer, resent twice after 2.5 s; `uartCTRLCmd` (10 entries) holds
  on/off commands whose device is declared offline after 10 s. The sender thread
  enters and sweeps, the receive thread renames and deletes. Hard: an index used
  after the other thread changed the entry, answers before the entry exists,
  entries reused. Correct: bounded resends, nothing forgotten comes back, nothing
  stays for ever.
* **Transmit buffer.** `uartTXCmd` (10 slots): filling functions store a command
  field by field, the sender writes and clears it field by field. Hard: two fills
  in one slot, a fill during the clearing. Correct: a command is written at most
  once, to its own address, and not lost.
* **Sender thread loop** (uart 3857-3893). A turn tests `devOtaUpdateingFlag` once, then
  passes over the transmit buffer, every tenth time calls heart beat and resends, and
  late in each round of `controlAckTime` the sweep of on/off commands. Hard: an upgrade
  that starts within a turn shares the line with it. Correct: little is written into an
  upload, nothing of a later turn, and the sweeps come round again.
* **Serial framing and receive loop** (uart 3942-4064): control bytes, boot loader
  text, frames between 0xfa and 0xf5 with a length and a checksum, in a buffer that is
  never cleared. Hard: reads cut frames anywhere, and a length may point into an earlier
  read. Correct: back in step with the next frame, no upgrade started by payload.
* **Receive dispatcher** (uart 2736-3854): answers and reports.
* **Device list**: `HM_DEV_RAM_LIST` entries that the dispatcher adds, removes, renames
  and puts on line and that the sender's sweep declares offline. Hard: frames name a
  device by an address that another device may have by now; pointers are kept over
  removals. Correct: what is reported or declared is about the right device.
* **Heart beat** (uart 179-256): a beat after a minute of silence, repeated after
  5 s, two unanswered ones taken for a dead coordinator.
* **Commands waiting for a device's answer** (`wifiCmdWaitRspBuf`, uart 104-156): three
  entries filled by application threads. Hard: two fills of one entry. Correct: one entry
  for a key, kept for its own user until answered.
* **Warning device timer** (uart 1390-1420): one timer and its variables for all
  warnings. Hard: two starts, or a start and the end of an older timer. Correct: timed as
  asked, one timer, the right device reported.
* **Serial console tool** (`src/src/main.c`, `serial.c`): copies stdin to the port
  and the port to stdout.
* **Stubs, identifiers, build files**: no behaviour.

Interactions: the upgrade locks the sender thread out by `devOtaUpdateingFlag`
(uart 3865), bytes the receive loop reads start it, the sender fills the transmit buffer
with heart beats itself, writes from the buffer enter the command tables, answers leave
them, the sweep of one table declares a device of the list offline.

## Modules

| module | models | proofs |
| --- | --- | --- |
| `XmodemOta` | upgrade: OTA thread, receive thread, line and boot loader | `XmodemOtaProofs` |
| `ImageTransfer` | what an upgrade promises, seen from outside | |
| `XmodemRefines` | `XmodemOta` as an implementation of `ImageTransfer` | `XmodemOtaProofs` |
| `CmdMonitor` | command tables: sender and receive thread, the clock | `CmdMonitorProofs` |
| `TxQueue` | transmit buffer: filling threads and sender thread | `GatewayProofs` |
| `Gateway` | the sender's loop around `TxQueue`, and upgrades | `GatewayProofs` |
| `Heart` | heart beat: sender and receive thread, the clock | `HeartProofs` |
| `Framing` | reads and the scan for frames: receive thread and line | `FramingProofs` |
| `Devices` | device list: receive thread, sweep, coordinator | `DevicesProofs` |
| `AppCommands` | waiting commands and warnings: application threads, timer | `AppCommandsProofs` |
| `NumberFacts` | lemmas on least elements, induction, division and remainder | in itself |

`MCXmodemOta`, `MCXmodemRefines`, `MCCmdMonitor`, `MCGateway`, `MCFraming` and
`MCAppCommands` hold the constants of the runs; those of `Heart` and `Devices` are numbers
and names and stand in their configurations. Definitions keep the names of the C functions
and variables they stand for. An operator commented as a mutant is a plausible wrong
version of the definition that follows it; each shows that one property notices the
mistake.

### XmodemOta

One action per branch of the switch of `userXmodemTransport`, per assignment that
another thread may interleave with: a record is written (`SendNext`, `Resend`) and
the station stored (`StoreWait`) in two steps; `UploadComplete` and `RestartApp`
are the two sides of the pause of 800 ms; `AfterLoop` reads the station again. The
receive thread decides on a station (`RxByte`, `RxText`) and stores it (`RxStore`)
in two steps. `otaPc` and `rxWrite` are the places of the threads; `xfer` holds the
locals, `retry` starting with any value since `retry_num` is uninitialised (ota
370); `fp` is what the local file pointer holds, own, left over from an earlier
call, or garbage.

Sizes are counted in blocks of 128 bytes. A record is atomic on the line: its CRC
turns a damaged record into a lost one. External, modelled from how the code uses
them: the boot loader (it keeps a record with the next number, acknowledges the
previous one again, cancels at any other, answers EOT with ACK and "Serial upload
complete"), the line, the cloud that offers images. `zigbeeModeReset` toggles two
pins; what the reset does to the coordinator is external as well. The history
variable `reused` records that a call has run on a handle it did not open; `overrun`, that a
record was sent with the number of another block that is still on the line or is the last
one kept by a boot loader that waits for the next. An 8-bit number cannot tell the two apart,
and `BlocksInOrder` is stated up to there. It takes nearly a round of the counter, 256 records
in the code, between two blocks on one line: the run never gets there.

### CmdMonitor

The frame of a command is the number of its request. The sender writes
(`Transmit`), enters the command (`EnterMonitor`, `EnterControl`) and sweeps entry
by entry; a resend and its bookkeeping (`ResendEntry`, `CountResend`) are two
steps. The receive thread turns an answer into table operations (`RxReceive`), each
a search (`RxFind`) and a use of the index found (`RxApply`). Answers may come to
any request already written, at any time and any number of times. Ages stop at the
limits they are compared to, and no second passes within a sweep. What is read from
an entry between the test of `validFlag` and the end of the write is read at once.

### TxQueue

A step is one store of a filling function (all of them store address, end point,
command, `cmdValid`, then the payload, in that order; the order of the source is
taken, not that of an optimising compiler) or one of
`userClearValidUartTxBufIndex`. A field holds the number of the request that stored
it, so a mixture of two commands shows. "Written" means handed to the command's
`transportUartHexDataFor...` function; that such a function may return early (out of
memory, unknown device) is left out. The histories `shared` and `clash` record that
two fills held a slot at once, and that a slot was taken while it was being cleared.

### Gateway

`Gateway` extends `TxQueue`: its steps of the sender thread are those of `TxQueue` at the
place of a turn where the loop calls them (`loop`), and its fills are those of `TxQueue`
with the sender thread among the filling threads. `TestFlag` is the only look at
`devOtaUpdateingFlag`. `AfterPass` counts `monitorTime`, `Control` counts
`controlAckTime`, which wraps and is never reset. What `userManageUartCmdMonitor` and
`uartManageCmdControlSuccess` do is in `CmdMonitor`; here they are places of the loop.
Whether a beat is due is left open (`Heart` decides it), so it may be due in any call.
Upgrades start and end at any time. Histories: `stray`, the commands written into the upgrade
under way; `refilled`, the slots made valid in it while a turn was under way.

### Heart

A step is one read or write of `lastCommuTime100ms` or `uartHeartSendCount`, which
both threads change: `Compare` and `TooEarly`/`TimeIsUp` read the time twice, as the
code does (uart 218 and 222 or 232), `LoadCount` and `StoreCount` are the two halves
of `uartHeartSendCount++`. The clock is read and used within a second, so reading it
and storing it is one step in the receive thread; the sender's copy is `now`.
`Masked` and `Full` are the two ways of storing the time: `(t & 0x000fffff) * 10`, and
`t * 10` cut to 32 bits. `RxFrame` stores the latter for every frame between head and
end byte; `RxStamp` and `RxReset` are `userSetUartHeartTime`, called only when the
checksum holds. Histories: `quiet`, the seconds since the last valid frame; `beats`,
the beats since the count was set to 0; `clash`, that the last valid frame, or a
damaged one after it, was met by a call of `userManageUartHeart`; `early`, how many damaged
frames since the last valid one were stored while `Full` was behind `Masked`. Each of these
makes the limit then compared to, and no other, seem reached, so `BeatAfterSilence` and
`GivenUpAfterSilence` state the silence that is left: the whole of it without such a
frame, one wait less for the first, none at all after three.

`Tick` is external. Its guard is the timing the code has: the sender thread sleeps
30 ms a turn and calls in each tenth, so that outside an upgrade a call ends in each
second.

### Framing

The port hands over 1 to 128 bytes of what the coordinator has sent. `Taken` says of what
frames a read consists that ends in a given place, `Read` what its bytes are; they are put
over the beginning of the buffer (`Overlaid`), and `Scan` is the loop over them with its tests in the
code's order: head, length in range, end byte where the length says. The bytes are real
bytes, the checksum is computed (`calcFCS`, with its exclusive or bit by bit), and a length
may reach into an earlier read or past 128, where the buffer is 0. A single byte, and the two bytes of a prompt, are treated as the
code does when no upgrade runs. The line carries whole frames of the application, any of
which may have one byte of payload or check damaged. `last` is history: what the latest
read was made of (the rest of a frame, whole frames, a beginning) and the frames that
`uartRcvDataDeal` was called with; `Checked` is what it then requires of them.

### Devices

The coordinator (external) lets devices join, leave and move to addresses that are free,
and announces it; devices report. Frames wait in `line` in order, and one may be lost, which is
what `Framing` makes of a cut one. Each frame is an action with everything
`uartRcvDataDeal` does to the list, and `RxCheck` is the check at its end, a step of its
own since the sweep may come between. `SweepEntry`, `SweepFind` and `SweepDeclare` are the
looks of `uartManageCmdControlSuccess` at entry and device. An entry may expire at any
time. `devList` and its searches are not in the repository: a device has one
place, searches take the first. Histories: `from`, whom a frame is about; `mac` and
`steady`, whom a command was meant for and whether the gateway has been told of changes
since; `missed`, devices whose latest announcement was lost or found the list full.

### AppCommands

A step is one search or store of `userFillSpecialWatiRspCmdBuf` or one call or store of
`userAppControlWDFunc` and of `AlarmWDStateCbk`. `RxAnswer` and `Expire` are
`userDealWaitCmdRspEvent` as far as its calls show it: it takes the entry with the key out,
or gives one up. The timer service is external; a timer ends at any time. `alone` is
history: 0 once another thread was in the same part of the code.

### ImageTransfer and XmodemRefines

`ImageTransfer` has a number of blocks collected, an image held or not, a version
announced or not. `XmodemRefines` maps to the first the longest part of what the boot
loader has accepted that is a beginning of the image. The mapping counts blocks a call
has read through a foreign handle as no progress; the boot loader keeps an image only
if all blocks are the image's.

## What is checked

| run | instance | states | shows |
| --- | --- | --- | --- |
| `XmodemOta` | 4 blocks, packet counter modulo 3, 2 resends, 2 resets, 1 offer | 4.7 M | order, faithfulness, no half-written coordinator, no false success in the first upgrade; the upgrade implements `ImageTransfer` |
| `XmodemOtaLive` | 1 block, 2 offers, line of 1 | 1.2 M | calls return, a silent coordinator frees the line |
| `XmodemOtaStale` | 1 block, 2 offers | violation | finding 1 |
| `XmodemOtaEnd` | 1 block, nothing lost | violation | finding 2 |
| `CmdMonitor` | 2 entries, 1 control entry, 7 kinds of command, 2 commands | 0.3 M | bounded resends, no return of forgotten commands, latest command; entries of both tables are freed |
| `CmdMonitorNoDev` | 1 level command | violation | finding 3 |
| `Gateway` | 2 slots, a filling thread and the sender, 3 requests, 1 upgrade | 0.5 M | at most once; loss and mixture need an overlap; few commands go into an upload; slots are cleared and sweeps recur |
| `Heart` | 15 seconds, masked 5, word 75 tenths | 1.4 M | two beats at most, beats and giving up only after the silence they stand for, less one wait for each damaged frame stored behind the masked clock; a silent coordinator is noticed |
| `Framing` | 3 frames, reads of up to 16 bytes | 0.3 M | back in step after a cut frame, upgrades started by cut frames only |
| `Devices` | 2 devices, 2 addresses, 2 frames under way, 1 lost | 1.5 M | reports and offline devices are the right ones, the list follows the network, who reports is on line |
| `DevicesAddr` | 1 device, an address too wide | violation | finding 4 |
| `AppCommands` | 2 threads, 2 entries, 2 warning devices, 4 commands | 3.6 M | only fills, or starts, that overlap mix users, double or lose entries, or mistime warnings |

Bounds, and why they are enough:

* Upgrade: three blocks are the fewest of which a coordinator can be left with some; with
  a fourth and `PackMod` = 3 the packet counter wraps inside the image and two blocks bear
  one number. `MaxRetry` = 1 gives two
  resends before a call gives up, `ResetLimit` = 1 or 2 reaches the time outs that reset
  and the one that does not, `WaitLimit` = 1 or 2 a time out after the first or a later
  turn (50 where the ending of an upload on a faultless line is asked for, so that no time
  out can be the cause). `CheckMod` = 3 lets `userOtaZigbeeGWCheck` wrap. `LineCap` = 1
  holds one message to the coordinator and one from it, and the acknowledgement of EOT
  together with the completion text, which a read may find run together; an instance of three
  blocks with `LineCap` = 2 and one retry less passes too, in 12.6 M states, and what the run
  checks is proved for every length. `MaxOffers` = 2 gives a second upgrade in one process.
  `Losable` leaves CAN and 'r' out: a lost CAN is a coordinator that asks again. `Boards`
  are a gateway in the field and one at its first power on.
* `CmdMonitor`: two monitor entries and one control entry for two commands fill the
  tables; `MaxResend` is the code's 2 where it is compared to, ages reach their limits after
  one and two ticks. The seven commands are one of each family of answers.
* `Gateway`: two slots and two threads make two fills meet in a slot, meet the clearing and
  find the buffer full; three requests are two that overlap and a third that is hit.
  Counters of 2 bring heart beat and sweep into turns with and without them, and wrap.
* `Heart`: the masked clock wraps every 5 seconds, the word every 75 tenths. As with the
  code's 2^20 and 2^32 the word is no multiple of the masked clock, so the two wraps do not
  coincide and `Full` is in front of `Masked`, level with it or up to 25 tenths behind it; in 15
  seconds each such place comes once. A minute and 5 s become 2 s and 1 s, so that the
  whole sequence of a minute and two waits fits between two wraps. `QuietCap` = 4 is the
  longest silence a property names.
* `Framing`: a read of 16 holds two frames and a part of a third, a buffer of 24 lets
  lengths reach past the longest read. The messages are a plain one, one that ends like the
  boot loader's prompt and one with a head byte in its payload; all ways of cutting three of
  them (or fewer, with one damaged) into reads are tried.
* `Devices`: two devices and two addresses are enough for one to be given the other's;
  two frames under way let an announcement be overtaken by the next change; one is lost. One entry
  makes commands meet in it; one of the two devices is of a type the sweep spares. In
  `DevicesAddr` an address exceeds the 4 values of the field.
* `AppCommands`: two threads and two entries make two fills, and two starts, meet; keys
  that differ in end point and in command; a duration beyond the 4 values of
  `setWDTimes`; four commands let an entry and a timer be reused.

The runs of `XmodemOta`, `Framing` and `AppCommands` switch the deadlock check off: the upgrade really
may stop, when a call reads through an uninitialised file pointer (`Crash`), and the bounded
cloud, coordinator and application of these runs have nothing left to do in the end.
Elsewhere deadlock is checked where the run is not meant to fail.

Fairness. `XmodemOta`: the OTA thread keeps running, its loop only sleeps; nothing
is assumed of the coordinator, the line or the receive thread. `CmdMonitor`: the
sender thread loops for ever; its counters bring both sweeps round again and again, so
the sweeps are strongly fair though commands may keep arriving; time passes. That
assumption, which holds outside an upgrade, is what `SweepsRecur` of `Gateway` checks of the loop, there with
upgrades that end (`CallReturns` of `XmodemOta`) and filling functions that end once begun.
`Heart`: the sender thread runs and time passes; nothing is assumed of the receive
thread, and `SilenceNoticed` supposes that no upgrade runs and no frame arrives any more.
`Devices`: the receive thread keeps reading; nothing is assumed of the sweep or the
coordinator.

## Where code and its words disagree

1. *A second upgrade may be recorded without a record sent* (uart 3958). The
   receive thread sets `devOtaUpdateingFlag` before `zcXmodemStation`. A transport
   that enters in between finds `XUSER_RESTART_APP` from the upgrade before, prints
   "zigebee ota success,and wifi ota" and stores the new version. `FirstUploadHonest`
   shows, and is proved, that the first upgrade of a process is not exposed.
2. *An accepted upload is recorded as failed* (ota 538). `XUSER_END` announces a
   wait of up to 30 turns and leaves in its first; `ota_status = 1; // zigbee fail`
   is stored before the completion text can be read.
3. *"level control delete monitor" deletes nothing* (uart 2973) once the coordinator
   has accepted the command, since the entry has been renamed. The same holds for
   on/off, colour and RGB commands.
4. *A device is not found under the address it was updated to* (`hm_uartCmdExecute.h` 376,
   uart 3730). The device's `shortAddr` has 8 bits, the address 16. The properties of
   `Devices` are stated for addresses that fit (`AddressesFit`).

Remarks no run is kept for:

* A private binding is sent as an unbinding: uart 1571 stores the command of the function
  before, below the message "set privatebind buff" (1562). `AttrFills` in `TxQueue` has the command
  stored beside the one it is dispatched as.
* A coordinator may be given up in the second it was heard (uart 232): the time is read
  at 218 and again for the difference; a frame in between stores one that is later
  than the clock taken before, and the unsigned difference wraps. `clash` in `Heart` marks
  it. The consequence is small today: the reset that "the zc not respose the heart,reset it
  now" (239) announces is commented out.
* A beat less than a minute after the last frame (uart 4057 against "// 1 min", 222).
  The receive loop stores `t * 10` in 32 bits, the test uses 20 bits of `t`. After
  `t * 10` has passed a multiple of 2^32 (in June 2024, and every 13.6 years) the stored
  time is behind for days, and a frame with a bad checksum makes a beat due at once: in the run
  `Heart` at clock 8, with a valid frame and a damaged one in the same second. Three such
  frames are enough to give the coordinator up. The properties count them in `early` and
  say how much silence is left.
* "Serial upload complete" is searched in the buffer, not in the read (uart 4023), so the
  text of one upload may still stand behind a shorter read of the next.

## What is proved

For every value of the constants allowed by the named assumptions
(`SizesAssumption`, `BoardsAssumption`, `TargetsAssumption`, `ClockAssumption`,
`LoopAssumption`, `KeysAssumption`: sizes are positive naturals, commands and boards come from
the known sets). Each proof is an inductive
invariant, initial states first, then one step per action.

* `XmodemOtaProofs`: `TypeCorrect`; `RecordsAlwaysFaithful`, `AcceptedAlwaysFaithful`,
  `BlocksAlwaysInOrder`, `FirstUploadAlwaysHonest`. `RecordsFaithful` is not inductive: a resend sends the
  frame kept from before, so the invariant ties the frame kept to the counter, the
  file position to the records sent, and both to whether a call runs on a handle of
  its own. `BlocksAlwaysInOrder` holds for any number of blocks and of wraps: `OrderInv` says that
  the records under way never go back and that they, the frame buffer and the last block
  the coordinator has kept are less than a round of the counter apart, so a number the
  coordinator takes for the next, or for the last once more, is just that block's.
  `NeverAbandonedMidImage`: `MidInv` says what the coordinator and the line may hold
  before a call opens the file, before a second record is out, before EOT and after the end:
  only a coordinator with an image has sent the completion text, and then no record
  is left on the line that could begin another upload. For `FirstUploadHonest` the invariant follows every place from which a
  success could come (the completion text on the line, the station about to be
  stored, the station, the two sides of the pause): none exists before the
  coordinator has the image. `UpgradeImplementsTransfer`, for one image on offer
  (`MaxOffers` = 1, finding 1 is the reason), rests on these invariants: initial states map
  to initial states, every step to a step of `ImageTransfer` or to none.
* `CmdMonitorProofs`: `TypeCorrect`; `SentAlwaysBounded`: the writes of a command and
  the count of its entry grow together, and no two entries hold one frame;
  `ForgottenAlwaysForGood`: a frame is in one entry at most, and `CountResend` on an
  entry that was deleted or reused revives nothing; `UnacceptedAlwaysLatest`: two
  unaccepted entries never have the same key.
* `HeartProofs`: `TypeCorrect`, `BeatsAlwaysBounded`: `CountInv` says where an increment
  under way may stand against a reset of the count. `BeatAlwaysAfterSilence` and
  `GivenUpAlwaysAfterSilence`: `SilenceInv` gives each stored time and each count of
  beats the silence it stands for, less what the frames counted in `early` have made up
  for. They hold for any widths of clock and word that `ClockAssumption` allows, the code's
  2^20 and 2^32 among them.
* `GatewayProofs`, of `TxQueue`: `TypeCorrect`; `WrittenAtMostOnce`: `SlotInv` follows the
  number of a request from the thread to the one slot it is stored in and to the line, and
  holds even when fills overlap; `HeaderAlwaysWhole` and `LossNeedsOverlap`: `ApartInv` says,
  while no fills overlap, that a slot between search and `cmdValid` is free and not the
  sender's, what it holds so far, and that a valid slot holds one command whole. Of the
  loop: `BufferIsTxQueue` maps each step of the loop to a step of `TxQueue` or
  to none, so that all this holds in the loop (`BufferSafe`, `GatewayTypes`). `StrayAlwaysBounded`: `StrayInv` says that in an upgrade the commands
  written and those the turn may still write are within the bound; a slot between its
  dispatch and the reset of `cmdValid` is valid and not to be written again.
* `AppCommandsProofs`: `AppCommandsTypes`. `WaitSafe` and `EntriesKept`: `WaitInv` says of
  a thread that fills alone that no other thread is filling, that its entry is free and
  what it holds so far, and that its key is in no other entry. `WarningsSafe`: `WarnInv` says of a thread that starts a
  warning alone that it is the only one, that after `StopOld` no other such timer runs,
  and what is stored already; and of a timer started alone that the handle and
  `WDShortAddr` are its own.
* `DevicesProofs`: `TypeCorrect`; `SenderAlwaysFound`, `ListAlwaysFollows`,
  `OfflineAlwaysMeant`, for any number of devices, places and frames under way. List and
  network differ while announcements are under way, and the next address may be given
  before the last is announced. `LineInv` therefore says what the list will hold once
  the line has been read up to a frame (of a device announced in front of it, what the
  last such announcement says, of another what the list holds now): the network, at the end
  of the line (`NetworkFollowed`); no other device under the address a frame names
  (`AddressOwn`); an entry to be renamed (`UpdateListed`); nobody twice (`ListDistinct`). A
  removal of places while frames and the sweep hold them is why `PlacesInHand` and
  `SweepHolds` are there; `SteadyMeant` ties a command, while nothing is announced, to the
  device its address had when it was given.

* `FramingProofs`: `TypeCorrect`, `AlwaysBackInStep`, `UpgradeAlwaysByCut`, for any messages,
  damages, reads and sizes up to the code's. The checksum, the bytes of a row of frames and the scan are
  recursive functions; each is first shown to satisfy its equation, by induction over
  naturals (`Induction`, from least elements). The exclusive or of two bytes can be undone, so a single damaged
  byte always changes the checksum and only frames that came as sent are accepted. The scan
  passes over a tail without a head byte, finds every whole frame at its place and goes on just
  behind it; what is left, the beginning of a frame, gives at most one call for each of its
  head bytes, whatever the buffer holds behind it. A read that cuts no frame ends in an end byte and so never looks
  like a prompt, and a single byte is always the piece of a frame.

Only model checked: liveness and everything under fairness, which the proof system does
not reach. Every invariant of a passing run, and every action property, is proved, under the
conditions named above where there are any (one image on offer, addresses that fit the
field).

## Not modelled

Which cluster and which value a report carries; fields of the gateway's state that a frame
stores and nothing in the repository reads (channel, network number, illuminance, joining
flags, the user name of a permit join, which is copied over an older one without being
cleared, uart 748); the WIFI upgrade; the voice player thread; the effect of
`resetZigbeeOtaFlag` (not in the repository); the branch `XMODEM_IDLE` that no code
stores. The serial console tool is pure input and output: its two threads share nothing
they change. The stubs of `hm_app.c` print; `hm_zigbeeInfohand.h` declares types and numbers.

## Plan

1. `Framing` and `XmodemOta` composed over one buffer, for the completion text an earlier
   read has left. It needs a coarser line than either has.
2. `CmdMonitor` in the loop of `Gateway`, so that its fairness is derived and not assumed.
