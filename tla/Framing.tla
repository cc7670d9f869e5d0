------------------------------ MODULE Framing ------------------------------
(***************************************************************************)
(* The receive loop of the gateway (uart_work_task_init): a read of the    *)
(* serial port is put over the beginning of uartRXData[0].data, which is   *)
(* never cleared, and searched for frames from its first byte to its last. *)
(* A frame may look past what was read, into bytes of earlier reads, and   *)
(* a frame cut between two reads is not put together again.  What is found *)
(* goes to uartRcvDataDeal, which checks length and checksum.              *)
(*                                                                         *)
(* A frame is  FA len cmd payload check F5  where len counts cmd and       *)
(* payload and check is the XOR of the payload.  This module is about the  *)
(* coordinator's application at work; the boot loader is in XmodemOta.     *)
(***************************************************************************)
EXTENDS Integers, Sequences, FiniteSets, SequencesExt

CONSTANTS
  ReadMax,        \* 128, the most XmReadBuf returns
  BufLenth,       \* MAX_UART_RX_BUF_LENTH, 256
  Messages,       \* commands and payloads the coordinator sends
  Damages,        \* ways the line damages a byte: masks XORed to it
  MaxFrames       \* bound on the frames sent, a damaged one counted twice

Byte == 0 .. 255

HEAD == 250       \* UART_DATA_HEAD
END == 245        \* UART_DATA_END
NAK == 21         \* XMODEM_NAK
CapitalC == 67
LineFeed == 10

ASSUME SizesAssumption ==
  /\ ReadMax \in 2 .. BufLenth
  /\ BufLenth \in 4 .. 256
  /\ MaxFrames \in Nat
  /\ \A m \in Messages :
       /\ m.cmd \in Byte
       /\ m.payload \in Seq(Byte) /\ Len(m.payload) \in 1 .. BufLenth - 5
  /\ Damages \subseteq Byte \ {0}

VARIABLES
  line,           \* frames sent that the port has not delivered to the end, oldest first
  offset,         \* bytes of the first of them that were read
  data,           \* uartRXData[0].data, the part that is ever written
  userOtaZigbeeGWCheck,
  devOtaUpdateingFlag,
  last            \* history: what the latest read was made of, and the frames found in it

vars == <<line, offset, data, userOtaZigbeeGWCheck, devOtaUpdateingFlag, last>>

-----------------------------------------------------------------------------
(* Frames *)

\* Exclusive or, bit by bit.
Bit(x, p) == (x \div p) % 2

Xor(x, y) ==
  LET bit(p) == p * ((Bit(x, p) + Bit(y, p)) % 2)
  IN  bit(1) + bit(2) + bit(4) + bit(8) + bit(16) + bit(32) + bit(64) + bit(128)

\* calcFCS over the bytes p[1], p[2], ...
calcFCS(p) ==
  LET result[i \in 0 .. Len(p)] == IF i = 0 THEN 0 ELSE Xor(result[i - 1], p[i])
  IN  result[Len(p)]

Frame(m) ==
  <<HEAD, Len(m.payload) + 1, m.cmd>> \o m.payload \o <<calcFCS(m.payload), END>>

\* One byte of the payload, or the check byte, changed on the line.
Damaged(f, i, mask) == [f EXCEPT ![i] = Xor(@, mask)]
DamagedFrames(f) == {Damaged(f, i, mask) : i \in 4 .. Len(f) - 1, mask \in Damages}

\* What uartRcvDataDeal requires of a frame.
Checked(f) ==
  /\ f[2] = Len(f) - 4
  /\ calcFCS(SubSeq(f, 4, Len(f) - 2)) = f[Len(f) - 1]

\* The bytes behind those ever written are 0.
ByteAt(buf, i) == IF i < ReadMax THEN buf[i] ELSE 0
BytesAt(buf, i, n) == [k \in 1 .. n |-> ByteAt(buf, i + k - 1)]

\* A head at i with a length in range and an end where it says.
FrameAt(buf, i) ==
  /\ buf[i] = HEAD
  /\ ByteAt(buf, i + 1) \in 2 .. BufLenth - 4
  /\ ByteAt(buf, i + ByteAt(buf, i + 1) + 3) = END

\* Mutant: a scan that goes on one byte too far behind a frame.
AfterFrameLate(buf, i) == i + buf[i + 1] + 5

\* `i += tempLen + 3`, and the i++ of the loop.
AfterFrame(buf, i) == i + ByteAt(buf, i + 1) + 4

\* The frames handed to uartRcvDataDeal, in order, in a buffer of which n bytes were read.
Scan(buf, n) ==
  LET from[i \in 0 .. 2 * BufLenth] ==
        IF i >= n THEN <<>>
        ELSE IF FrameAt(buf, i)
             THEN <<BytesAt(buf, i, ByteAt(buf, i + 1) + 4)>> \o from[AfterFrame(buf, i)]
             ELSE from[i + 1]
  IN  from[0]

-----------------------------------------------------------------------------
(* The line *)

NoRead == [tail |-> <<>>, whole |-> <<>>, rest |-> <<>>, found |-> <<>>]

Damageable == UNION {DamagedFrames(Frame(m)) : m \in Messages}
Lines == UNION {[1 .. k -> {Frame(m) : m \in Messages} \cup Damageable] : k \in 0 .. MaxFrames}

\* What the coordinator sends does not depend on how it is read, so that all of it may
\* be on the line from the start.
Init ==
  /\ line \in {s \in Lines :
       Len(s) + Cardinality({k \in DOMAIN s : s[k] \in Damageable}) <= MaxFrames}
  /\ offset = 0
  /\ data = [i \in 0 .. ReadMax - 1 |-> 0]
  /\ userOtaZigbeeGWCheck = 0
  /\ devOtaUpdateingFlag = 0
  /\ last = NoRead

\* What a read takes that ends `left` bytes into the frame behind the first k of the line:
\* the rest of a frame begun before, whole frames, and the beginning of one.
Taken(k, left) ==
  [tail |-> IF offset = 0 THEN <<>>
            ELSE SubSeq(line[1], offset + 1, IF k = 0 THEN left ELSE Len(line[1])),
   whole |-> SubSeq(line, IF offset = 0 THEN 1 ELSE 2, k),
   rest |-> IF left = 0 \/ (k = 0 /\ offset > 0) THEN <<>> ELSE SubSeq(line[k + 1], 1, left)]

Read(k, left) ==
  LET t == Taken(k, left) IN t.tail \o FlattenSeq(t.whole) \o t.rest

\* The ends a read may have: XmReadBuf returns what has come in, however much of a frame
\* that is.
ReadEnds(k, left) ==
  /\ left # 0 => k < Len(line) /\ left < Len(line[k + 1])
  /\ k = 0 => left > offset
  /\ Len(Read(k, left)) <= ReadMax

Take(k, left, found) ==
  LET t == Taken(k, left)
  IN  /\ line' = SubSeq(line, k + 1, Len(line))
      /\ offset' = left
      /\ last' = [tail |-> t.tail, whole |-> t.whole, rest |-> t.rest, found |-> found]

Overlaid(b) == [i \in 0 .. ReadMax - 1 |-> IF i < Len(b) THEN b[i + 1] ELSE data[i]]

-----------------------------------------------------------------------------
(* The receive loop *)

\* Mutant: bytes counted whether an upgrade runs or not.
ReadByteAlways(k, left) ==
  /\ ReadEnds(k, left)
  /\ LET b == Read(k, left) IN
     /\ Len(b) = 1
     /\ Take(k, left, <<>>)
     /\ data' = Overlaid(b)
     /\ IF b[1] \in {NAK, CapitalC}
        THEN /\ userOtaZigbeeGWCheck' = userOtaZigbeeGWCheck + 1
             /\ devOtaUpdateingFlag' = IF userOtaZigbeeGWCheck + 1 >= 2 THEN 1 ELSE 0
        ELSE UNCHANGED <<userOtaZigbeeGWCheck, devOtaUpdateingFlag>>

\* A single byte is taken for one of the boot loader's; the second NAK or C starts an
\* upgrade (firmwareValid is 1).  While one runs single bytes are XmodemOta's.
ReadByte(k, left) ==
  /\ ReadEnds(k, left)
  /\ LET b == Read(k, left) IN
     /\ Len(b) = 1
     /\ Take(k, left, <<>>)
     /\ data' = Overlaid(b)
     /\ IF devOtaUpdateingFlag = 0 /\ b[1] \in {NAK, CapitalC}
        THEN /\ userOtaZigbeeGWCheck' = userOtaZigbeeGWCheck + 1
             /\ devOtaUpdateingFlag' = IF userOtaZigbeeGWCheck + 1 >= 2 THEN 1 ELSE 0
        ELSE UNCHANGED <<userOtaZigbeeGWCheck, devOtaUpdateingFlag>>

\* Mutant: a line feed and a C anywhere in what was read.
PromptWithin(b) == \E i \in 2 .. Len(b) : b[i] = CapitalC /\ b[i - 1] = LineFeed

\* What was read ends like the boot loader's prompt.
Prompt(b) == b[Len(b)] = CapitalC /\ b[Len(b) - 1] = LineFeed

\* The scan.  (The texts "Serial upload complete" and "zb app start", which keep a read
\* from being scanned, are looked for during an upgrade alone.)
ReadFrames(k, left) ==
  /\ ReadEnds(k, left)
  /\ LET b == Read(k, left) IN
     /\ Len(b) >= 2
     /\ data' = Overlaid(b)
     /\ Take(k, left, Scan(Overlaid(b), Len(b)))
     /\ devOtaUpdateingFlag' = IF Prompt(b) THEN 1 ELSE devOtaUpdateingFlag
     /\ userOtaZigbeeGWCheck' = 0

Next ==
  \E k \in 0 .. Len(line), left \in 0 .. BufLenth - 1 :
    ReadByte(k, left) \/ ReadFrames(k, left)

Spec == Init /\ [][Next]_vars

-----------------------------------------------------------------------------
(* Properties *)

Sent == {Frame(m) : m \in Messages} \cup Damageable

\* The types of the buffer, of the line and of the flags.
TypeOK ==
  /\ line \in Seq(Sent)
  /\ offset \in Nat /\ (offset # 0 => line # <<>> /\ offset < Len(line[1]))
  /\ data \in [0 .. ReadMax - 1 -> Byte]
  /\ userOtaZigbeeGWCheck \in 0 .. 2
  /\ devOtaUpdateingFlag \in {0, 1}

Heads(b) == {i \in DOMAIN b : b[i] = HEAD}

\* A frame cut between two reads is lost, but the loop is back in step with the next
\* head: whatever earlier reads have left in the buffer, uartRcvDataDeal is called for the
\* whole frames of a read, for each once and in order, and accepts just those that came as
\* they were sent, unless the rest of a cut frame before them has a head byte in it.
\* Besides it is called at most once for each head byte of the frame that the read has cut
\* at its end.
BackInStep ==
  Heads(last.tail) = {} =>
    /\ IsPrefix(last.whole, last.found)
    /\ \A k \in DOMAIN last.whole :
         Checked(last.whole[k]) <=> \E m \in Messages : last.whole[k] = Frame(m)
    /\ Len(last.found) <= Len(last.whole) + Cardinality(Heads(last.rest))

\* Bytes of the application's frames start an upgrade only where a read has cut one.
Cut == last.tail # <<>> \/ last.rest # <<>>
UpgradeOnlyByCut == [][devOtaUpdateingFlag' # devOtaUpdateingFlag => Cut']_vars
=============================================================================
