--------------------------- MODULE FramingProofs ---------------------------
(***************************************************************************)
(* Proofs about the receive loop's search for frames, for any messages,    *)
(* any damage to a byte of payload or check, any cutting of the line into  *)
(* reads, and whatever earlier reads have left in the buffer.              *)
(*                                                                         *)
(* What the recursive functions of Framing compute (the checksum, the      *)
(* bytes of a sequence of frames, the scan) is first shown to satisfy      *)
(* their equations; each claim about them then goes by induction over the  *)
(* natural numbers.                                                        *)
(***************************************************************************)
EXTENDS Framing, NumberFacts, SequenceTheorems, FiniteSetTheorems

-----------------------------------------------------------------------------
(* Exclusive or *)

Bits == {0, 1}

Weigh(a, b, c, d, e, f, g, h) ==
  a + 2 * b + 4 * c + 8 * d + 16 * e + 32 * f + 64 * g + 128 * h

\* A byte is made of its bits.
LEMMA BitsOfByte ==
  ASSUME NEW x \in Byte
  PROVE  x = Weigh(Bit(x, 1), Bit(x, 2), Bit(x, 4), Bit(x, 8),
                   Bit(x, 16), Bit(x, 32), Bit(x, 64), Bit(x, 128))
  BY SMTT(60) DEF Byte, Weigh, Bit

LEMMA BitIsBit == ASSUME NEW x \in Byte, NEW p \in Nat \ {0} PROVE Bit(x, p) \in Bits
  BY DEF Byte, Bit, Bits

LEMMA BitSum ==
  ASSUME NEW x \in Bits, NEW y \in Bits, NEW z \in Bits
  PROVE  (x + y) % 2 \in Bits /\ ((x + y) % 2 = (x + z) % 2 => y = z)
  BY DEF Bits

LEMMA XorByte == ASSUME NEW x \in Byte, NEW y \in Byte PROVE Xor(x, y) \in Byte
  BY SMTT(60) DEF Byte, Xor, Bit

LEMMA XorSwap == ASSUME NEW x \in Byte, NEW y \in Byte PROVE Xor(x, y) = Xor(y, x)
  BY SMTT(60) DEF Byte, Xor, Bit

LEMMA XorNone == ASSUME NEW x \in Byte PROVE Xor(x, 0) = x
  BY SMTT(60) DEF Byte, Xor, Bit

\* Different bytes stay different when the same byte is XORed to both.
LEMMA XorCancel ==
  ASSUME NEW x \in Byte, NEW y \in Byte, NEW z \in Byte, Xor(x, y) = Xor(x, z)
  PROVE  y = z
<1>. DEFINE s(u, p) == (Bit(x, p) + Bit(u, p)) % 2
            Sum(u) == Weigh(s(u, 1), s(u, 2), s(u, 4), s(u, 8),
                            s(u, 16), s(u, 32), s(u, 64), s(u, 128))
<1>1. \A u \in Byte, p \in Nat \ {0} : s(u, p) \in Bits
  BY BitIsBit, BitSum
<1>2. \A u \in Byte : Xor(x, u) = Sum(u)
  <2>1. SUFFICES ASSUME NEW u \in Byte PROVE Xor(x, u) = Sum(u)
    OBVIOUS
  <2>2. Xor(x, u) = 1 * s(u, 1) + 2 * s(u, 2) + 4 * s(u, 4) + 8 * s(u, 8)
                      + 16 * s(u, 16) + 32 * s(u, 32) + 64 * s(u, 64) + 128 * s(u, 128)
    BY DEF Xor
  <2>3. \A p \in Nat \ {0} : s(u, p) \in Int
    BY <1>1 DEF Bits
  <2>. HIDE DEF s
  <2>. QED BY <2>2, <2>3 DEF Weigh
<1>3. \A p \in {1, 2, 4, 8, 16, 32, 64, 128} : s(y, p) = s(z, p)
  <2>1. Sum(y) = Sum(z)
    BY <1>2
  <2>2. /\ s(y, 1) = s(z, 1) /\ s(y, 2) = s(z, 2) /\ s(y, 4) = s(z, 4)
        /\ s(y, 8) = s(z, 8) /\ s(y, 16) = s(z, 16) /\ s(y, 32) = s(z, 32)
        /\ s(y, 64) = s(z, 64) /\ s(y, 128) = s(z, 128)
    <3>1. \A u \in {y, z} :
             /\ s(u, 1) \in Bits /\ s(u, 2) \in Bits /\ s(u, 4) \in Bits /\ s(u, 8) \in Bits
             /\ s(u, 16) \in Bits /\ s(u, 32) \in Bits /\ s(u, 64) \in Bits
             /\ s(u, 128) \in Bits
      <4>. HIDE DEF s
      <4>. QED BY <1>1
    <3>. HIDE DEF s
    <3>. QED BY <2>1, <3>1, SMTT(60) DEF Weigh, Bits
  <2>. HIDE DEF s
  <2>. QED BY <2>2
<1>4. \A p \in {1, 2, 4, 8, 16, 32, 64, 128} : Bit(y, p) = Bit(z, p)
  BY <1>3, BitIsBit, BitSum
<1>. QED BY <1>4, BitsOfByte

\* A mask other than 0 changes every byte.
LEMMA XorChanges ==
  ASSUME NEW x \in Byte, NEW mask \in Byte \ {0}
  PROVE  Xor(x, mask) # x
<1>1. 0 \in Byte
  BY DEF Byte
<1>. QED BY <1>1, XorNone, XorCancel

-----------------------------------------------------------------------------
(* The checksum *)

\* What calcFCS has in result after each byte.
Results(p, r) ==
  /\ r \in [0 .. Len(p) -> Byte]
  /\ r[0] = 0
  /\ \A i \in 1 .. Len(p) : r[i] = Xor(r[i - 1], p[i])
  /\ calcFCS(p) = r[Len(p)]

LEMMA ResultsExist == ASSUME NEW p \in Seq(Byte) PROVE \E r : Results(p, r)
<1>. DEFINE Next1(g, i) == IF i = 0 THEN 0 ELSE Xor(g[i - 1], p[i])
            L == Len(p)
            S == {n \in Nat : n <= L =>
                    \E g \in [0 .. n -> Byte] : \A i \in 0 .. n : g[i] = Next1(g, i)}
<1>0. L \in Nat
  OBVIOUS
<1>1. 0 \in S
  <2>1. [i \in 0 .. 0 |-> 0] \in [0 .. 0 -> Byte]
    BY DEF Byte
  <2>2. \A i \in 0 .. 0 : [j \in 0 .. 0 |-> 0][i] = Next1([j \in 0 .. 0 |-> 0], i)
    OBVIOUS
  <2>. QED BY <2>1, <2>2
<1>2. ASSUME NEW n \in Nat, n \in S PROVE n + 1 \in S
  <2>. SUFFICES ASSUME n + 1 <= L
                PROVE  \E g \in [0 .. n + 1 -> Byte] : \A i \in 0 .. n + 1 : g[i] = Next1(g, i)
    OBVIOUS
  <2>1. PICK g \in [0 .. n -> Byte] : \A i \in 0 .. n : g[i] = Next1(g, i)
    BY <1>0, <1>2
  <2>. DEFINE h == [i \in 0 .. n + 1 |-> IF i = n + 1 THEN Xor(g[n], p[n + 1]) ELSE g[i]]
  <2>2. p[n + 1] \in Byte /\ g[n] \in Byte
    BY <1>0
  <2>3. h \in [0 .. n + 1 -> Byte]
    BY <2>1, <2>2, XorByte
  <2>4. ASSUME NEW i \in 0 .. n + 1 PROVE h[i] = Next1(h, i)
    <3>1. CASE i = n + 1
      <4>1. h[i] = Xor(g[n], p[n + 1]) /\ h[i - 1] = g[n] /\ i # 0
        BY <3>1
      <4>. QED BY <4>1, <3>1
    <3>2. CASE i \in 0 .. n
      <4>1. h[i] = g[i] /\ (i # 0 => h[i - 1] = g[i - 1])
        BY <3>2
      <4>. QED BY <4>1, <3>2, <2>1
    <3>. QED BY <3>1, <3>2
  <2>. HIDE DEF h
  <2>. QED BY <2>3, <2>4
<1>3. \A n \in Nat : n \in S
  <2>. HIDE DEF S
  <2>. QED BY <1>1, <1>2, Induction
<1>4. PICK g \in [0 .. L -> Byte] : \A i \in 0 .. L : g[i] = Next1(g, i)
  BY <1>0, <1>3
<1>5. g = [i \in 0 .. L |-> Next1(g, i)]
  BY <1>4
<1>. DEFINE r == CHOOSE f : f = [i \in 0 .. L |-> Next1(f, i)]
<1>6. r = [i \in 0 .. L |-> Next1(r, i)]
  BY <1>5
<1>7. calcFCS(p) = r[L]
  BY DEF calcFCS
<1>. HIDE DEF r
<1>8. \A i \in 0 .. L : r[i] = Next1(r, i)
  BY <1>6, Zenon
<1>. DEFINE T == {n \in Nat : n <= L => r[n] \in Byte}
<1>9. \A n \in Nat : n \in T
  <2>1. 0 \in T
    BY <1>0, <1>8 DEF Byte
  <2>2. ASSUME NEW n \in Nat, n \in T PROVE n + 1 \in T
    <3>1. SUFFICES ASSUME n + 1 <= L PROVE r[n + 1] \in Byte
      OBVIOUS
    <3>2. r[n] \in Byte /\ p[n + 1] \in Byte
      BY <1>0, <2>2, <3>1
    <3>3. r[n + 1] = Xor(r[n], p[n + 1])
      BY <1>0, <1>8, <3>1
    <3>. QED BY <3>2, <3>3, XorByte
  <2>. HIDE DEF T
  <2>. QED BY <2>1, <2>2, Induction
<1>10. r \in [0 .. L -> Byte]
  BY <1>0, <1>6, <1>9
<1>11. r[0] = 0 /\ \A i \in 1 .. L : r[i] = Xor(r[i - 1], p[i])
  BY <1>0, <1>8
<1>. QED BY <1>7, <1>10, <1>11 DEF Results

LEMMA FCSByte == ASSUME NEW p \in Seq(Byte) PROVE calcFCS(p) \in Byte
<1>1. PICK r : Results(p, r)
  BY ResultsExist
<1>. QED BY <1>1 DEF Results

\* A single byte changed changes the checksum.
LEMMA FCSChanges ==
  ASSUME NEW p \in Seq(Byte), NEW q \in Seq(Byte), Len(p) = Len(q),
         NEW k \in 1 .. Len(p), p[k] # q[k],
         \A i \in 1 .. Len(p) : i # k => p[i] = q[i]
  PROVE  calcFCS(p) # calcFCS(q)
<1>1. PICK r : Results(p, r)
  BY ResultsExist
<1>2. PICK t : Results(q, t)
  BY ResultsExist
<1>. DEFINE L == Len(p)
            S == {n \in Nat : n <= L => (r[n] = t[n] <=> n < k)}
<1>7. L \in Nat /\ L = Len(q) /\ k \in 1 .. L
  OBVIOUS
<1>8. /\ \A i \in 0 .. L : r[i] \in Byte
      /\ \A i \in 1 .. L : r[i] = Xor(r[i - 1], p[i])
      /\ r[0] = 0
  BY <1>1 DEF Results
<1>9. /\ \A i \in 0 .. L : t[i] \in Byte
      /\ \A i \in 1 .. L : t[i] = Xor(t[i - 1], q[i])
      /\ t[0] = 0
  BY <1>2, <1>7 DEF Results
<1>10. \A i \in 1 .. L : p[i] \in Byte /\ q[i] \in Byte
  BY <1>7
<1>0. /\ L \in Nat /\ L = Len(q) /\ k \in 1 .. L
      /\ \A i \in 0 .. L : r[i] \in Byte /\ t[i] \in Byte
      /\ \A i \in 1 .. L : p[i] \in Byte /\ q[i] \in Byte
      /\ \A i \in 1 .. L : r[i] = Xor(r[i - 1], p[i]) /\ t[i] = Xor(t[i - 1], q[i])
      /\ r[0] = 0 /\ t[0] = 0
  BY <1>7, <1>8, <1>9, <1>10
<1>. HIDE DEF L
<1>3. 0 \in S
  BY <1>0
<1>4. ASSUME NEW n \in Nat, n \in S PROVE n + 1 \in S
  <2>. SUFFICES ASSUME n + 1 <= L PROVE r[n + 1] = t[n + 1] <=> n + 1 < k
    OBVIOUS
  <2>1. /\ r[n] \in Byte /\ t[n] \in Byte /\ p[n + 1] \in Byte /\ q[n + 1] \in Byte
        /\ r[n + 1] = Xor(r[n], p[n + 1]) /\ t[n + 1] = Xor(t[n], q[n + 1])
        /\ r[n] = t[n] <=> n < k
    BY <1>0, <1>4
  <2>2. CASE n + 1 < k
    BY <1>0, <2>1, <2>2 DEF L
  <2>3. CASE n + 1 = k
    BY <1>0, <2>1, <2>3, XorCancel
  <2>4. CASE n + 1 > k
    <3>1. p[n + 1] = q[n + 1] /\ r[n] # t[n]
      BY <1>0, <2>1, <2>4 DEF L
    <3>. QED BY <2>1, <2>4, <3>1, XorCancel, XorSwap
  <2>. QED BY <1>0, <2>2, <2>3, <2>4
<1>5. \A n \in Nat : n \in S
  <2>. HIDE DEF S
  <2>. QED BY <1>3, <1>4, Induction
<1>6. r[L] # t[L]
  BY <1>0, <1>5
<1>. QED BY <1>0, <1>1, <1>2, <1>6 DEF Results, L

-----------------------------------------------------------------------------
(* Frames *)

\* Where the elements of a concatenation are.
LEMMA ConcatParts ==
  ASSUME NEW S, NEW s \in Seq(S), NEW t \in Seq(S)
  PROVE  /\ s \o t \in Seq(S) /\ Len(s \o t) = Len(s) + Len(t)
         /\ \A i \in 1 .. Len(s) : (s \o t)[i] = s[i]
         /\ \A i \in 1 .. Len(t) : (s \o t)[Len(s) + i] = t[i]
  OBVIOUS

\* The head, the length, and the end are where the scan looks for them.
Shaped(f) ==
  /\ f \in Seq(Byte) /\ Len(f) \in 6 .. BufLenth
  /\ f[1] = HEAD /\ f[2] = Len(f) - 4 /\ f[Len(f)] = END

\* A frame as it was sent, and where its payload and its check byte are.
LEMMA FrameShape ==
  ASSUME NEW m \in Messages
  PROVE  LET f == Frame(m) IN
         /\ Shaped(f)
         /\ Len(f) = Len(m.payload) + 5
         /\ SubSeq(f, 4, Len(f) - 2) = m.payload
         /\ \A i \in 1 .. Len(m.payload) : f[i + 3] = m.payload[i]
         /\ f[Len(f) - 1] = calcFCS(m.payload)
         /\ m.payload \in Seq(Byte)
<1>. DEFINE p == m.payload
            L == Len(p)
            c == calcFCS(p)
            h == <<HEAD, L + 1, m.cmd>>
            e == <<c, END>>
            f == Frame(m)
<1>1. p \in Seq(Byte) /\ L \in 1 .. BufLenth - 5 /\ BufLenth \in 4 .. 256 /\ m.cmd \in Byte
  BY SizesAssumption
<1>2. c \in Byte
  BY <1>1, FCSByte
<1>3. L = Len(p)
  OBVIOUS
<1>4. h[1] = HEAD /\ h[2] = L + 1 /\ Len(h) = 3 /\ e[1] = c /\ e[2] = END /\ Len(e) = 2
  OBVIOUS
<1>5. f = (h \o p) \o e
  BY DEF Frame
<1>. HIDE DEF p, L, c, f
<1>6. h \in Seq(Byte) /\ e \in Seq(Byte)
  <2>1. HEAD \in Byte /\ END \in Byte
    BY DEF Byte, HEAD, END
  <2>2. L + 1 \in Byte
    BY <1>1 DEF Byte
  <2>. QED BY <1>1, <1>2, <2>1, <2>2
<1>. HIDE DEF h, e
<1>. DEFINE g == h \o p
<1>7. /\ g \in Seq(Byte) /\ Len(g) = L + 3
      /\ \A i \in 1 .. 3 : g[i] = h[i]
      /\ \A i \in 1 .. L : g[i + 3] = p[i]
  <2>1. /\ g \in Seq(Byte) /\ Len(g) = Len(h) + Len(p)
        /\ \A i \in 1 .. Len(h) : g[i] = h[i]
        /\ \A i \in 1 .. Len(p) : g[Len(h) + i] = p[i]
    BY <1>1, <1>6, ConcatParts
  <2>. HIDE DEF g
  <2>2. \A i \in 1 .. L : g[i + 3] = p[i]
    BY <1>1, <1>3, <1>4, <2>1
  <2>. QED BY <1>1, <1>3, <1>4, <2>1, <2>2
<1>8. f = g \o e
  BY <1>5
<1>. HIDE DEF g
<1>9. /\ f \in Seq(Byte) /\ Len(f) = L + 5
      /\ \A i \in 1 .. L + 3 : f[i] = g[i]
      /\ f[L + 4] = e[1] /\ f[L + 5] = e[2]
  <2>1. /\ f \in Seq(Byte) /\ Len(f) = Len(g) + Len(e)
        /\ \A i \in 1 .. Len(g) : f[i] = g[i]
        /\ \A i \in 1 .. Len(e) : f[Len(g) + i] = e[i]
    <3>1. g \in Seq(Byte) /\ e \in Seq(Byte)
      BY <1>6, <1>7
    <3>. QED BY <1>8, <3>1, ConcatParts
  <2>2. f[Len(g) + 1] = e[1] /\ f[Len(g) + 2] = e[2] /\ Len(f) = Len(g) + 2
    BY <1>4, <2>1
  <2>. QED BY <1>1, <1>7, <2>1, <2>2
<1>10. \A i \in 1 .. L : f[i + 3] = p[i]
  BY <1>1, <1>7, <1>9
<1>11. Shaped(f)
  <2>1. Len(f) \in 6 .. BufLenth /\ f[2] = Len(f) - 4
    BY <1>1, <1>4, <1>7, <1>9
  <2>2. f[1] = HEAD /\ f[Len(f)] = END
    BY <1>1, <1>4, <1>7, <1>9
  <2>. QED BY <1>9, <2>1, <2>2 DEF Shaped
<1>12. SubSeq(f, 4, Len(f) - 2) = p
  <2>1. /\ SubSeq(f, 4, L + 3) \in Seq(Byte) /\ Len(SubSeq(f, 4, L + 3)) = L
        /\ \A i \in 1 .. L : SubSeq(f, 4, L + 3)[i] = f[i + 3]
    BY <1>1, <1>9
  <2>2. Len(f) - 2 = L + 3
    BY <1>1, <1>9
  <2>. QED BY <1>1, <1>3, <1>10, <2>1, <2>2
<1>. QED BY <1>1, <1>3, <1>4, <1>9, <1>10, <1>11, <1>12 DEF f, c, p, L

\* The line damages payload and check byte only, and no damaged frame is accepted.
LEMMA DamagedShape ==
  ASSUME NEW m \in Messages, NEW d \in DamagedFrames(Frame(m))
  PROVE  Shaped(d) /\ ~Checked(d)
<1>. DEFINE f == Frame(m)
            p == m.payload
            L == Len(p)
            q == SubSeq(d, 4, Len(d) - 2)
<1>1. PICK i \in 4 .. Len(f) - 1, mask \in Damages : d = [f EXCEPT ![i] = Xor(f[i], mask)]
  BY DEF DamagedFrames, Damaged
<1>2. /\ Shaped(f) /\ Len(f) = L + 5 /\ p \in Seq(Byte)
      /\ \A j \in 1 .. L : f[j + 3] = p[j]
      /\ f[L + 4] = calcFCS(p)
  BY FrameShape
<1>3. L \in 1 .. BufLenth - 5 /\ BufLenth \in 4 .. 256 /\ mask \in Byte \ {0}
  BY SizesAssumption
<1>. HIDE DEF f, p, L
<1>4. f[i] \in Byte /\ Xor(f[i], mask) \in Byte /\ Xor(f[i], mask) # f[i]
  BY <1>2, <1>3, XorByte, XorChanges DEF Shaped
<1>5. /\ d \in Seq(Byte) /\ Len(d) = L + 5
      /\ \A j \in 1 .. L + 5 : d[j] = IF j = i THEN Xor(f[i], mask) ELSE f[j]
  BY <1>1, <1>2, <1>3, <1>4 DEF Shaped
<1>6. i \in 4 .. L + 4
  BY <1>2, <1>3
<1>7. Shaped(d)
  BY <1>2, <1>3, <1>5, <1>6 DEF Shaped
<1>8. q \in Seq(Byte) /\ Len(q) = L /\ \A j \in 1 .. L : q[j] = d[j + 3]
  BY <1>3, <1>5
<1>9. Checked(d) <=> calcFCS(q) = d[L + 4]
  BY <1>3, <1>5, <1>7 DEF Checked, Shaped
<1>. HIDE DEF q
<1>10. L = Len(p)
  BY DEF L
<1>11. CASE i = L + 4
  <2>1. \A j \in 1 .. L : q[j] = p[j]
    BY <1>2, <1>3, <1>5, <1>8, <1>11
  <2>2. q = p
    BY <1>2, <1>8, <1>10, <2>1
  <2>. QED BY <1>2, <1>3, <1>4, <1>5, <1>7, <1>9, <1>11, <2>2
<1>12. CASE i < L + 4
  <2>1. i - 3 \in 1 .. L /\ q[i - 3] # p[i - 3]
    BY <1>2, <1>3, <1>4, <1>5, <1>6, <1>8, <1>12
  <2>2. \A j \in 1 .. L : j # i - 3 => q[j] = p[j]
    <3>1. SUFFICES ASSUME NEW j \in 1 .. L, j # i - 3 PROVE q[j] = p[j]
      OBVIOUS
    <3>2. j + 3 \in 1 .. L + 5 /\ j + 3 # i
      BY <1>3, <1>6, <3>1
    <3>3. q[j] = d[j + 3] /\ d[j + 3] = f[j + 3] /\ f[j + 3] = p[j]
      BY <1>2, <1>5, <1>8, <3>2
    <3>. QED BY <3>3
  <2>3. calcFCS(p) # calcFCS(q)
    <3>1. /\ p \in Seq(Byte) /\ q \in Seq(Byte) /\ Len(p) = Len(q)
          /\ i - 3 \in 1 .. Len(p) /\ p[i - 3] # q[i - 3]
          /\ \A j \in 1 .. Len(p) : j # i - 3 => p[j] = q[j]
      BY <1>2, <1>8, <1>10, <2>1, <2>2
    <3>. DEFINE k == i - 3
    <3>. HIDE DEF k
    <3>. QED BY <3>1, FCSChanges DEF k
  <2>4. d[L + 4] = calcFCS(p)
    BY <1>2, <1>3, <1>5, <1>12
  <2>. QED BY <1>7, <1>9, <2>3, <2>4
<1>. QED BY <1>6, <1>11, <1>12, <1>3

LEMMA SentShape == ASSUME NEW f \in Sent PROVE Shaped(f)
  BY FrameShape, DamagedShape DEF Sent, Damageable

\* Of what is on the line just the frames that are as they were sent are accepted.
LEMMA SentChecked ==
  ASSUME NEW f \in Sent
  PROVE  Checked(f) <=> \E m \in Messages : f = Frame(m)
<1>1. ASSUME NEW m \in Messages PROVE Checked(Frame(m))
  BY FrameShape DEF Checked, Shaped
<1>. QED BY <1>1, DamagedShape DEF Sent, Damageable

-----------------------------------------------------------------------------
(* The bytes of several frames *)

\* b is the elements of s one after the other; P[k] is where the k-th ends.
Layout(s, b, P) ==
  /\ P \in [0 .. Len(s) -> Nat] /\ P[0] = 0 /\ P[Len(s)] = Len(b)
  /\ b \in Seq(Byte)
  /\ \A k \in 1 .. Len(s) :
       /\ P[k] = P[k - 1] + Len(s[k]) /\ P[k] <= Len(b)
       /\ \A j \in 1 .. Len(s[k]) : b[P[k - 1] + j] = s[k][j]

\* What flatten has after each element.
Flattens(s, g) ==
  /\ \A k \in 1 .. Len(s) : g[k] \in Seq(Byte)
  /\ g[1] = s[1]
  /\ \A k \in 2 .. Len(s) : g[k] = g[k - 1] \o s[k]
  /\ FlattenSeq(s) = g[Len(s)]

LEMMA FlattensExist ==
  ASSUME NEW s \in Seq(Seq(Byte)), Len(s) # 0
  PROVE  \E g : Flattens(s, g)
<1>. DEFINE L == Len(s)
            Step(g, i) == IF i = 1 THEN s[i] ELSE g[i - 1] \o s[i]
            Exists(n) == \E g : g = [i \in 1 .. n |-> Step(g, i)]
            S == {n \in Nat : 1 <= n /\ n <= L => Exists(n)}
<1>0. L \in Nat \ {0} /\ L = Len(s) /\ \A i \in 1 .. L : s[i] \in Seq(Byte)
  OBVIOUS
<1>. HIDE DEF L
<1>1. 0 \in S
  OBVIOUS
<1>2. ASSUME NEW n \in Nat, n \in S PROVE n + 1 \in S
  <2>. SUFFICES ASSUME n + 1 <= L PROVE Exists(n + 1)
    <3>. HIDE DEF Exists
    <3>. QED OBVIOUS
  <2>1. CASE n = 0
    <3>. DEFINE g == [i \in 1 .. n + 1 |-> s[i]]
    <3>1. \A i \in 1 .. n + 1 : s[i] = Step(g, i)
      BY <2>1
    <3>2. g = [i \in 1 .. n + 1 |-> Step(g, i)]
      BY <3>1
    <3>. QED BY <3>2
  <2>2. CASE n >= 1
    <3>0. Exists(n)
      <4>. HIDE DEF Exists
      <4>. QED BY <1>0, <1>2, <2>2
    <3>1. PICK g : g = [i \in 1 .. n |-> Step(g, i)]
      BY <3>0
    <3>. DEFINE h == [i \in 1 .. n + 1 |-> IF i = n + 1 THEN g[n] \o s[n + 1] ELSE g[i]]
    <3>2. ASSUME NEW i \in 1 .. n + 1 PROVE h[i] = Step(h, i)
      <4>1. CASE i = n + 1
        <5>1. h[i] = g[n] \o s[n + 1]
          BY <4>1
        <5>2. i # 1 /\ i - 1 = n /\ n \in 1 .. n + 1 /\ n # n + 1
          BY <2>2, <4>1
        <5>3. h[i - 1] = g[n]
          BY <5>2
        <5>. QED BY <5>1, <5>2, <5>3, <4>1
      <4>2. CASE i \in 1 .. n
        <5>1. h[i] = g[i]
          BY <4>2
        <5>2. i # 1 => h[i - 1] = g[i - 1]
          BY <4>2
        <5>3. g[i] = Step(g, i)
          BY <4>2, <3>1
        <5>. QED BY <5>1, <5>2, <5>3
      <4>. QED BY <4>1, <4>2
    <3>3. h = [i \in 1 .. n + 1 |-> Step(h, i)]
      BY <3>2
    <3>. QED BY <3>3
  <2>. HIDE DEF Exists
  <2>. QED BY <2>1, <2>2
<1>3. \A n \in Nat : n \in S
  <2>. HIDE DEF S
  <2>. QED BY <1>1, <1>2, Induction
<1>4. Exists(L)
  <2>. HIDE DEF Exists
  <2>. QED BY <1>0, <1>3
<1>. DEFINE r == CHOOSE f : f = [i \in 1 .. L |-> Step(f, i)]
<1>5. r = [i \in 1 .. L |-> Step(r, i)]
  BY <1>4
<1>6. FlattenSeq(s) = r[L]
  BY <1>0 DEF FlattenSeq, L
<1>. HIDE DEF r
<1>7. \A i \in 1 .. L : r[i] = Step(r, i)
  BY <1>5, Zenon
<1>8. r[1] = s[1]
  BY <1>0, <1>7
<1>9. \A k \in 2 .. L : r[k] = r[k - 1] \o s[k]
  <2>1. SUFFICES ASSUME NEW k \in 2 .. L PROVE r[k] = r[k - 1] \o s[k]
    OBVIOUS
  <2>2. k \in 1 .. L /\ k # 1
    BY <1>0
  <2>. QED BY <1>7, <2>2
<1>. DEFINE T == {n \in Nat : 1 <= n /\ n <= L => r[n] \in Seq(Byte)}
<1>10. 0 \in T
  OBVIOUS
<1>11. ASSUME NEW n \in Nat, n \in T PROVE n + 1 \in T
  <2>1. SUFFICES ASSUME n + 1 <= L PROVE r[n + 1] \in Seq(Byte)
    OBVIOUS
  <2>2. CASE n = 0
    BY <1>0, <1>8, <2>2
  <2>3. CASE n >= 1
    <3>1. r[n] \in Seq(Byte)
      BY <1>0, <1>11, <2>1, <2>3
    <3>2. n + 1 \in 2 .. L /\ n + 1 \in 1 .. L /\ (n + 1) - 1 = n
      BY <1>0, <2>1, <2>3
    <3>3. r[n + 1] = r[n] \o s[n + 1] /\ s[n + 1] \in Seq(Byte)
      BY <1>0, <1>9, <3>2
    <3>. QED BY <3>1, <3>3, ConcatParts
  <2>. QED BY <2>2, <2>3
<1>12. \A n \in Nat : n \in T
  <2>. HIDE DEF T
  <2>. QED BY <1>10, <1>11, Induction
<1>13. \A k \in 1 .. L : r[k] \in Seq(Byte)
  BY <1>0, <1>12
<1>. QED BY <1>0, <1>6, <1>8, <1>9, <1>13 DEF Flattens

LEMMA LayoutExists == ASSUME NEW s \in Seq(Seq(Byte)) PROVE \E P : Layout(s, FlattenSeq(s), P)
<1>. DEFINE L == Len(s)
<1>0. L \in Nat /\ L = Len(s) /\ \A k \in 1 .. L : s[k] \in Seq(Byte) /\ Len(s[k]) \in Nat
  OBVIOUS
<1>. HIDE DEF L
<1>1. CASE L = 0
  <2>1. FlattenSeq(s) = s /\ s = <<>>
    <3>1. s = <<>>
      BY <1>0, <1>1, EmptySeq
    <3>. QED BY <1>0, <1>1, <3>1 DEF FlattenSeq
  <2>2. Layout(<<>>, <<>>, [k \in 0 .. 0 |-> 0])
    BY DEF Layout
  <2>. QED BY <2>1, <2>2
<1>2. CASE L # 0
  <2>1. PICK g : Flattens(s, g)
    BY <1>0, <1>2, FlattensExist
  <2>2. /\ \A k \in 1 .. L : g[k] \in Seq(Byte) /\ Len(g[k]) \in Nat
        /\ g[1] = s[1] /\ \A k \in 2 .. L : g[k] = g[k - 1] \o s[k]
        /\ FlattenSeq(s) = g[L]
    <3>1. \A k \in 1 .. L : g[k] \in Seq(Byte)
      BY <1>0, <2>1 DEF Flattens
    <3>2. \A k \in 1 .. L : Len(g[k]) \in Nat
      BY <3>1
    <3>3. g[1] = s[1] /\ FlattenSeq(s) = g[L]
      BY <1>0, <2>1 DEF Flattens
    <3>4. \A k \in 2 .. L : g[k] = g[k - 1] \o s[k]
      BY <1>0, <2>1 DEF Flattens
    <3>. QED BY <3>1, <3>2, <3>3, <3>4
  <2>. DEFINE P == [k \in 0 .. L |-> IF k = 0 THEN 0 ELSE Len(g[k])]
  <2>3. P \in [0 .. L -> Nat] /\ P[0] = 0 /\ \A k \in 1 .. L : P[k] = Len(g[k])
    BY <1>0, <2>2
  <2>. HIDE DEF P
  <2>. DEFINE Part(n, k) == /\ P[k] = P[k - 1] + Len(s[k]) /\ P[k] <= Len(g[n])
                            /\ \A j \in 1 .. Len(s[k]) : g[n][P[k - 1] + j] = s[k][j]
              S == {n \in Nat : n <= L => \A k \in 1 .. n : Part(n, k)}
  <2>4. 0 \in S
    OBVIOUS
  <2>5. ASSUME NEW n \in Nat, n \in S PROVE n + 1 \in S
    <3>. SUFFICES ASSUME n + 1 <= L, NEW k \in 1 .. n + 1 PROVE Part(n + 1, k)
      OBVIOUS
    <3>. HIDE DEF S
    <3>0. \A i \in 1 .. n : Part(n, i)
      BY <1>0, <2>5 DEF S
    <3>1. CASE n = 0
      <4>1. k = 1 /\ n + 1 = 1 /\ k - 1 = 0 /\ 1 \in 1 .. L
        BY <1>0, <1>2, <3>1
      <4>2. P[0] = 0 /\ P[1] = Len(g[1]) /\ g[1] = s[1] /\ Len(s[1]) \in Nat
        BY <1>0, <2>2, <2>3, <4>1
      <4>3. \A j \in 1 .. Len(s[1]) : 0 + j = j
        BY <4>2
      <4>. QED BY <4>1, <4>2, <4>3
    <3>2. CASE n >= 1
      <4>. DEFINE a == g[n]
                  c == s[n + 1]
                  e == g[n + 1]
      <4>1. n \in 1 .. L /\ n + 1 \in 2 .. L /\ n + 1 \in 1 .. L /\ (n + 1) - 1 = n
        BY <1>0, <3>2
      <4>2. /\ e = a \o c /\ a \in Seq(Byte) /\ c \in Seq(Byte)
            /\ P[n] = Len(a) /\ P[n + 1] = Len(e) /\ Len(a) \in Nat
        BY <1>0, <2>2, <2>3, <4>1
      <4>. HIDE DEF a, c, e
      <4>3. /\ Len(e) = Len(a) + Len(c)
            /\ \A i \in 1 .. Len(a) : e[i] = a[i]
            /\ \A j \in 1 .. Len(c) : e[Len(a) + j] = c[j]
        BY <4>2, ConcatParts
      <4>4. CASE k = n + 1
        <5>1. /\ P[n + 1] = P[n] + Len(c) /\ P[n + 1] <= Len(e)
              /\ \A j \in 1 .. Len(c) : e[P[n] + j] = c[j]
          BY <4>2, <4>3
        <5>. QED BY <4>1, <4>4, <5>1 DEF c, e
      <4>5. CASE k \in 1 .. n
        <5>1. /\ P[k] = P[k - 1] + Len(s[k]) /\ P[k] <= Len(a)
              /\ \A j \in 1 .. Len(s[k]) : a[P[k - 1] + j] = s[k][j]
          BY <3>0, <4>5 DEF a
        <5>2. Len(s[k]) \in Nat /\ P[k - 1] \in Nat /\ P[k] \in Nat /\ Len(c) \in Nat
          <6>1. k \in 1 .. L /\ k \in 0 .. L /\ k - 1 \in 0 .. L
            BY <1>0, <4>1, <4>5
          <6>2. P[k] \in Nat /\ P[k - 1] \in Nat
            BY <2>3, <6>1
          <6>. QED BY <1>0, <4>2, <6>1, <6>2
        <5>3. P[k] <= Len(e)
          BY <4>2, <4>3, <5>1, <5>2
        <5>4. ASSUME NEW j \in 1 .. Len(s[k]) PROVE e[P[k - 1] + j] = s[k][j]
          <6>. DEFINE l == Len(s[k])
                      x == P[k - 1]
          <6>2. l \in Nat /\ x \in Nat /\ j \in 1 .. l /\ x + l <= Len(a) /\ Len(a) \in Nat
            BY <4>2, <5>1, <5>2
          <6>3. x + j \in 1 .. Len(a)
            <7>. HIDE DEF l, x
            <7>. QED BY <6>2
          <6>1. P[k - 1] + j \in 1 .. Len(a)
            BY <6>3
          <6>. QED BY <4>3, <5>1, <6>1
        <5>. QED BY <5>1, <5>3, <5>4 DEF e
      <4>. QED BY <4>4, <4>5
    <3>. QED BY <3>1, <3>2
  <2>6. \A n \in Nat : n \in S
    <3>. HIDE DEF S
    <3>. QED BY <2>4, <2>5, Induction
  <2>7. \A k \in 1 .. L : Part(L, k)
    <3>. HIDE DEF Part
    <3>. QED BY <1>0, <2>6
  <2>8. g[L] \in Seq(Byte) /\ P[L] = Len(g[L])
    BY <1>0, <1>2, <2>2, <2>3
  <2>9. Layout(s, g[L], P)
    BY <1>0, <2>3, <2>7, <2>8 DEF Layout
  <2>. QED BY <2>2, <2>9
<1>. QED BY <1>1, <1>2

-----------------------------------------------------------------------------
(* The scan *)

Places == 0 .. 2 * BufLenth
Buffers == [0 .. ReadMax - 1 -> Byte]
Founds == Seq(Seq(Byte))

\* What the scan finds from i on, if it finds g[j] from each later j on.
Onward(buf, n, g, i) ==
  IF i >= n THEN <<>>
  ELSE IF FrameAt(buf, i)
       THEN <<BytesAt(buf, i, ByteAt(buf, i + 1) + 4)>> \o g[AfterFrame(buf, i)]
       ELSE g[i + 1]

LEMMA ByteAtByte ==
  ASSUME NEW buf \in Buffers, NEW i \in Nat PROVE ByteAt(buf, i) \in Byte
  BY SizesAssumption DEF ByteAt, Buffers, Byte

\* A frame is found whole and the scan goes on behind it, in the buffer or not.
LEMMA FoundFrame ==
  ASSUME NEW buf \in Buffers, NEW i \in Nat, i < ReadMax, FrameAt(buf, i)
  PROVE  /\ AfterFrame(buf, i) \in i + 6 .. 2 * BufLenth
         /\ BytesAt(buf, i, ByteAt(buf, i + 1) + 4) \in Seq(Byte)
<1>. DEFINE l == ByteAt(buf, i + 1)
<1>1. l \in 2 .. BufLenth - 4 /\ BufLenth \in 4 .. 256 /\ i < BufLenth
  BY SizesAssumption DEF FrameAt
<1>2. AfterFrame(buf, i) = i + l + 4
  BY DEF AfterFrame
<1>. HIDE DEF l
<1>3. \A k \in 1 .. l + 4 : ByteAt(buf, i + k - 1) \in Byte
  BY <1>1, ByteAtByte
<1>4. BytesAt(buf, i, l + 4) \in Seq(Byte)
  BY <1>1, <1>3 DEF BytesAt
<1>. QED BY <1>1, <1>2, <1>4 DEF l

\* Only what is found further on matters.
LEMMA OnwardLater ==
  ASSUME NEW buf \in Buffers, NEW n \in 0 .. ReadMax, NEW i \in Places,
         NEW g, NEW h, \A j \in Places : j > i => h[j] = g[j]
  PROVE  /\ Onward(buf, n, h, i) = Onward(buf, n, g, i)
         /\ (\A j \in Places : j > i => g[j] \in Founds) => Onward(buf, n, g, i) \in Founds
<1>1. CASE i >= n
  BY <1>1 DEF Onward, Founds
<1>2. CASE i < n /\ FrameAt(buf, i)
  <2>. DEFINE a == AfterFrame(buf, i)
              f == BytesAt(buf, i, ByteAt(buf, i + 1) + 4)
  <2>1. i < ReadMax /\ i \in Nat
    BY <1>2, SizesAssumption DEF Places
  <2>2. a \in i + 6 .. 2 * BufLenth /\ f \in Seq(Byte)
    BY <1>2, <2>1, FoundFrame
  <2>3. a \in Places /\ a > i
    <3>. HIDE DEF a
    <3>. QED BY <2>1, <2>2, SizesAssumption DEF Places
  <2>4. Onward(buf, n, h, i) = <<f>> \o h[a] /\ Onward(buf, n, g, i) = <<f>> \o g[a]
    BY <1>2, <2>1, SizesAssumption DEF Onward
  <2>. HIDE DEF a, f
  <2>5. Onward(buf, n, h, i) = Onward(buf, n, g, i)
    <3>1. h[a] = g[a]
      BY <2>3
    <3>. QED BY <2>4, <3>1
  <2>6. ASSUME \A j \in Places : j > i => g[j] \in Founds
        PROVE  Onward(buf, n, g, i) \in Founds
    <3>1. g[a] \in Founds
      BY <2>3, <2>6
    <3>2. <<f>> \o g[a] \in Founds
      BY <2>2, <3>1 DEF Founds
    <3>. QED BY <2>4, <3>2
  <2>. QED BY <2>5, <2>6
<1>3. CASE i < n /\ ~FrameAt(buf, i)
  <2>1. i + 1 \in Places /\ i + 1 > i
    BY <1>3, SizesAssumption DEF Places
  <2>2. Onward(buf, n, h, i) = h[i + 1] /\ Onward(buf, n, g, i) = g[i + 1]
    BY <1>3, SizesAssumption DEF Onward, Places
  <2>. QED BY <2>1, <2>2
<1>. QED BY <1>1, <1>2, <1>3, SizesAssumption DEF Places

\* from[i] is what the scan finds from i on.
Scans(buf, n, from) ==
  /\ \A i \in Places : from[i] \in Founds /\ from[i] = Onward(buf, n, from, i)
  /\ Scan(buf, n) = from[0]

LEMMA ScansExist ==
  ASSUME NEW buf \in Buffers, NEW n \in 0 .. ReadMax
  PROVE  \E from : Scans(buf, n, from)
<1>. DEFINE D == 2 * BufLenth
            Step(g, i) == Onward(buf, n, g, i)
            From(d) == {i \in Places : i >= D - d}
            Exists(d) == \E g \in [Places -> Founds] : \A i \in From(d) : g[i] = Step(g, i)
            S == {d \in Nat : d <= D => Exists(d)}
<1>0. D \in Nat /\ D > n /\ n \in Nat /\ Places = 0 .. D
  BY SizesAssumption DEF Places
<1>. HIDE DEF D
<1>1. 0 \in S
  <2>. DEFINE g == [i \in Places |-> <<>>]
  <2>1. g \in [Places -> Founds]
    BY DEF Founds
  <2>2. ASSUME NEW i \in From(0) PROVE g[i] = Step(g, i)
    <3>1. i >= n /\ i \in Places
      BY <1>0
    <3>. QED BY <3>1 DEF Onward
  <2>3. Exists(0)
    <3>. HIDE DEF g, From
    <3>. QED BY <2>1, <2>2
  <2>. QED BY <2>3
<1>2. ASSUME NEW d \in Nat, d \in S PROVE d + 1 \in S
  <2>. SUFFICES ASSUME d + 1 <= D PROVE Exists(d + 1)
    <3>. HIDE DEF Exists
    <3>. QED OBVIOUS
  <2>0. Exists(d)
    <3>. HIDE DEF Exists
    <3>. QED BY <1>0, <1>2
  <2>1. PICK g \in [Places -> Founds] : \A i \in From(d) : g[i] = Step(g, i)
    BY <2>0
  <2>. DEFINE e == D - (d + 1)
              h == [g EXCEPT ![e] = Step(g, e)]
  <2>2. /\ e \in Places
        /\ \A i \in From(d + 1) : i \in Places /\ (i = e \/ (i \in From(d) /\ i > e))
    <3>1. e \in Places /\ e = D - (d + 1)
      BY <1>0
    <3>2. ASSUME NEW i \in From(d + 1) PROVE i \in Places /\ (i = e \/ (i \in From(d) /\ i > e))
      <4>1. i \in Places /\ i >= e /\ i \in Int /\ e \in Int
        BY <1>0, <3>1
      <4>2. i > e => i >= D - d
        BY <1>0, <3>1, <4>1
      <4>. QED BY <4>1, <4>2
    <3>. HIDE DEF e
    <3>. QED BY <3>1, <3>2
  <2>. HIDE DEF e
  <2>3. Step(g, e) \in Founds
    BY <2>2, OnwardLater
  <2>4. h \in [Places -> Founds] /\ h[e] = Step(g, e) /\ \A i \in Places : i # e => h[i] = g[i]
    BY <2>2, <2>3
  <2>. HIDE DEF h
  <2>5. ASSUME NEW i \in From(d + 1) PROVE h[i] = Step(h, i)
    <3>1. i \in Places /\ i >= e /\ \A j \in Places : j > i => h[j] = g[j]
      BY <1>0, <2>2, <2>4
    <3>2. Step(h, i) = Step(g, i)
      <4>. HIDE DEF From
      <4>. QED BY <3>1, OnwardLater
    <3>. QED BY <2>1, <2>2, <2>4, <3>1, <3>2
  <2>. HIDE DEF From
  <2>. QED BY <2>4, <2>5
<1>3. \A d \in Nat : d \in S
  <2>. HIDE DEF S
  <2>. QED BY <1>1, <1>2, Induction
<1>4. Exists(D)
  <2>. HIDE DEF Exists
  <2>. QED BY <1>0, <1>3
<1>5. PICK g \in [Places -> Founds] : \A i \in From(D) : g[i] = Step(g, i)
  BY <1>4
<1>6. g = [i \in Places |-> Step(g, i)]
  <2>1. \A i \in Places : g[i] = Step(g, i)
    BY <1>0, <1>5
  <2>. QED BY <2>1
<1>. DEFINE r == CHOOSE f : f = [i \in Places |-> Step(f, i)]
<1>7. r = [i \in Places |-> Step(r, i)]
  BY <1>6
<1>8. Scan(buf, n) = r[0]
  BY DEF Scan, Onward, Places
<1>. HIDE DEF r
<1>9. \A i \in Places : r[i] = Step(r, i)
  BY <1>7, Zenon
<1>. DEFINE T == {d \in Nat : d <= D => \A i \in From(d) : r[i] \in Founds}
<1>10. 0 \in T
  <2>1. SUFFICES ASSUME NEW i \in From(0) PROVE r[i] \in Founds
    OBVIOUS
  <2>2. i \in Places /\ i >= n
    BY <1>0
  <2>3. Step(r, i) = <<>>
    BY <2>2 DEF Onward
  <2>4. r[i] = <<>>
    BY <1>9, <2>2, <2>3
  <2>. QED BY <2>4 DEF Founds
<1>11. ASSUME NEW d \in Nat, d \in T PROVE d + 1 \in T
  <2>1. SUFFICES ASSUME d + 1 <= D, NEW i \in From(d + 1) PROVE r[i] \in Founds
    OBVIOUS
  <2>2. i \in Places /\ \A j \in Places : j > i => j \in From(d)
    BY <1>0, <2>1
  <2>3. \A j \in Places : j > i => r[j] \in Founds
    BY <1>0, <1>11, <2>1, <2>2
  <2>4. Step(r, i) \in Founds
    <3>. HIDE DEF From
    <3>. QED BY <2>2, <2>3, OnwardLater
  <2>. QED BY <1>9, <2>2, <2>4
<1>12. \A d \in Nat : d \in T
  <2>. HIDE DEF T
  <2>. QED BY <1>10, <1>11, Induction
<1>13. \A i \in Places : r[i] \in Founds
  <2>1. \A i \in Places : i \in From(D)
    BY <1>0
  <2>2. \A i \in From(D) : r[i] \in Founds
    BY <1>0, <1>12
  <2>. QED BY <2>1, <2>2
<1>. QED BY <1>8, <1>9, <1>13 DEF Scans

-----------------------------------------------------------------------------
(* What a scan finds in a read *)

\* A frame that lies in the buffer where the scan has come to is found as it is.
LEMMA FrameFound ==
  ASSUME NEW buf \in Buffers, NEW a \in Nat, NEW f, Shaped(f), a + Len(f) <= ReadMax,
         \A j \in 1 .. Len(f) : buf[a + j - 1] = f[j]
  PROVE  /\ FrameAt(buf, a)
         /\ AfterFrame(buf, a) = a + Len(f)
         /\ BytesAt(buf, a, ByteAt(buf, a + 1) + 4) = f
<1>. DEFINE l == Len(f)
<1>1. /\ l \in 6 .. BufLenth /\ BufLenth \in 4 .. 256 /\ ReadMax \in Int /\ a + l <= ReadMax
      /\ f \in Seq(Byte) /\ f[1] = HEAD /\ f[2] = l - 4 /\ f[l] = END /\ l = Len(f)
  BY SizesAssumption DEF Shaped
<1>. HIDE DEF l
<1>2. ASSUME NEW j \in 1 .. l PROVE ByteAt(buf, a + j - 1) = f[j]
  <2>1. buf[a + j - 1] = f[j] /\ a + j - 1 < ReadMax
    BY <1>1
  <2>. QED BY <2>1 DEF ByteAt
<1>3. ByteAt(buf, a + 1) = l - 4
  <2>1. 2 \in 1 .. l /\ a + 2 - 1 = a + 1
    BY <1>1
  <2>. QED BY <1>1, <1>2, <2>1
<1>4. buf[a] = HEAD
  <2>1. 1 \in 1 .. Len(f) /\ a + 1 - 1 = a
    BY <1>1
  <2>. QED BY <1>1, <2>1
<1>5. ByteAt(buf, a + (l - 4) + 3) = END
  <2>1. l \in 1 .. l /\ a + l - 1 = a + (l - 4) + 3
    BY <1>1
  <2>. QED BY <1>1, <1>2, <2>1
<1>6. BytesAt(buf, a, l) = f
  <2>1. BytesAt(buf, a, l) = [j \in 1 .. l |-> f[j]]
    BY <1>2 DEF BytesAt
  <2>2. f = [j \in 1 .. l |-> f[j]]
    BY <1>1
  <2>. QED BY <2>1, <2>2
<1>7. (l - 4) + 4 = l /\ a + (l - 4) + 4 = a + l /\ l - 4 \in 2 .. BufLenth - 4
  BY <1>1
<1>. QED BY <1>1, <1>3, <1>4, <1>5, <1>6, <1>7 DEF FrameAt, AfterFrame

\* The scan at a place: behind the read, at a frame, and anywhere else.
ScanTurn(buf, n, from, i) ==
  /\ from[i] \in Founds /\ Len(from[i]) \in Nat
  /\ i >= n => from[i] = <<>>
  /\ i < n /\ FrameAt(buf, i) =>
       from[i] = <<BytesAt(buf, i, ByteAt(buf, i + 1) + 4)>> \o from[AfterFrame(buf, i)]
  /\ i < n /\ ~FrameAt(buf, i) => from[i] = from[i + 1]

LEMMA ScanTurns ==
  ASSUME NEW buf \in Buffers, NEW n \in 0 .. ReadMax, NEW from, Scans(buf, n, from)
  PROVE  \A i \in Places : ScanTurn(buf, n, from, i)
<1>. SUFFICES ASSUME NEW i \in Places PROVE ScanTurn(buf, n, from, i)
  OBVIOUS
<1>1. from[i] \in Founds /\ from[i] = Onward(buf, n, from, i)
  BY DEF Scans
<1>2. n \in Int /\ i \in Int
  BY SizesAssumption DEF Places
<1>3. i < n <=> ~(i >= n)
  BY <1>2
<1>4. Len(from[i]) \in Nat
  BY <1>1 DEF Founds
<1>. QED BY <1>1, <1>3, <1>4 DEF Onward, ScanTurn

\* In the beginning of a frame at the end of a read at most one frame is found for each
\* head byte, whatever lies behind it in the buffer.
LEMMA RestFinds ==
  ASSUME NEW buf \in Buffers, NEW n \in 0 .. ReadMax, NEW from, Scans(buf, n, from),
         NEW R \in Nat, NEW rest \in Seq(Byte), n = R + Len(rest),
         \A i \in 1 .. Len(rest) : buf[R + i - 1] = rest[i]
  PROVE  Len(from[R]) <= Cardinality(Heads(rest))
<1>. DEFINE H == Len(rest)
            HeadsFrom(i) == {j \in Heads(rest) : j > i}
            S == {d \in Nat : \A i \in Nat : i >= H - d /\ R + i \in Places =>
                                Len(from[R + i]) <= Cardinality(HeadsFrom(i))}
<1>1. H \in Nat /\ H = Len(rest) /\ n = R + H /\ ReadMax \in 2 .. BufLenth /\ BufLenth \in 4 .. 256
  BY SizesAssumption
<1>0. \A i \in Places : ScanTurn(buf, n, from, i)
  BY ScanTurns
<1>2. Heads(rest) = {j \in 1 .. H : rest[j] = HEAD} /\ IsFiniteSet(Heads(rest))
  <2>1. Heads(rest) = {j \in 1 .. H : rest[j] = HEAD}
    BY DEF Heads
  <2>2. IsFiniteSet(1 .. H)
    BY <1>1, FS_Interval
  <2>. QED BY <2>1, <2>2, FS_Subset
<1>. HIDE DEF H
<1>3. /\ HeadsFrom(0) = Heads(rest)
      /\ \A i : HeadsFrom(i) \in SUBSET Heads(rest)
      /\ \A i, k \in Nat : k > i => HeadsFrom(k) \in SUBSET HeadsFrom(i)
      /\ \A i, k \in Nat : k > i /\ i + 1 \in Heads(rest) => i + 1 \in HeadsFrom(i)
      /\ \A i, k \in Nat : k > i => i + 1 \notin HeadsFrom(k)
  BY <1>1, <1>2
<1>. HIDE DEF HeadsFrom
<1>4. \A i : IsFiniteSet(HeadsFrom(i)) /\ Cardinality(HeadsFrom(i)) \in Nat
  BY <1>2, <1>3, FS_Subset, FS_CardinalityType
<1>5. ASSUME NEW i \in Nat, i >= H, R + i \in Places
      PROVE  Len(from[R + i]) <= Cardinality(HeadsFrom(i))
  <2>1. R + i >= n
    BY <1>1, <1>5
  <2>2. from[R + i] = <<>>
    BY <1>0, <1>5, <2>1 DEF ScanTurn
  <2>3. Len(from[R + i]) = 0
    BY <2>2
  <2>. QED BY <1>4, <2>3
<1>6. ASSUME NEW d \in Nat, d \in S PROVE d + 1 \in S
  <2>. SUFFICES ASSUME NEW i \in Nat, i >= H - (d + 1), R + i \in Places
                PROVE  Len(from[R + i]) <= Cardinality(HeadsFrom(i))
    OBVIOUS
  <2>0. \A j \in Nat : j >= H - d /\ R + j \in Places =>
            Len(from[R + j]) <= Cardinality(HeadsFrom(j))
    BY <1>6
  <2>. HIDE DEF S
  <2>. DEFINE p == R + i
  <2>1. p \in Places /\ p \in Nat /\ p = R + i
    BY <1>1 DEF Places
  <2>. HIDE DEF p
  <2>2. CASE i < H /\ FrameAt(buf, p)
    <3>. DEFINE a == AfterFrame(buf, p)
                f == BytesAt(buf, p, ByteAt(buf, p + 1) + 4)
                k == a - R
    <3>1. p < ReadMax /\ p < n
      BY <1>1, <2>1, <2>2
    <3>2. a \in p + 6 .. 2 * BufLenth
      BY <2>1, <2>2, <3>1, FoundFrame
    <3>3. from[p] = <<f>> \o from[a]
      BY <1>0, <2>1, <2>2, <3>1 DEF ScanTurn
    <3>. HIDE DEF a, f
    <3>0. a \in Int /\ a >= p + 6 /\ a \in Places
      BY <2>1, <3>2, SizesAssumption DEF Places
    <3>. HIDE DEF k
    <3>4. k \in Nat /\ R + k = a /\ a \in Places /\ k >= H - d /\ k > i
      <4>1. k = a - R
        BY DEF k
      <4>2. k \in Int /\ R + k = a /\ k >= i + 6
        BY <2>1, <3>0, <4>1
      <4>. QED BY <1>1, <3>0, <4>2
    <3>5. Len(from[a]) <= Cardinality(HeadsFrom(k))
      BY <2>0, <3>4
    <3>6. from[a] \in Founds /\ Len(from[a]) \in Nat
      BY <1>0, <3>4 DEF ScanTurn
    <3>7. Len(from[p]) = 1 + Len(from[a])
      BY <3>3, <3>6 DEF Founds
    <3>8. i + 1 \in Heads(rest)
      <4>1. i + 1 \in 1 .. H /\ R + (i + 1) - 1 = p
        BY <1>1, <2>1, <2>2
      <4>2. buf[p] = rest[i + 1] /\ buf[p] = HEAD
        BY <1>1, <2>2, <4>1 DEF FrameAt
      <4>. QED BY <1>2, <4>1, <4>2
    <3>9. HeadsFrom(k) \cup {i + 1} \in SUBSET HeadsFrom(i) /\ i + 1 \notin HeadsFrom(k)
      BY <1>3, <3>4, <3>8
    <3>10. Cardinality(HeadsFrom(k) \cup {i + 1}) = Cardinality(HeadsFrom(k)) + 1
      BY <1>4, <3>9, FS_AddElement
    <3>11. Cardinality(HeadsFrom(k) \cup {i + 1}) <= Cardinality(HeadsFrom(i))
      BY <1>4, <3>9, FS_Subset
    <3>. QED BY <1>4, <2>1, <3>5, <3>6, <3>7, <3>10, <3>11
  <2>3. CASE i < H /\ ~FrameAt(buf, p)
    <3>1. p < n /\ p + 1 = R + (i + 1) /\ p + 1 \in Places /\ i + 1 >= H - d /\ i + 1 \in Nat
      <4>1. p < n /\ p + 1 = R + (i + 1)
        BY <1>1, <2>1, <2>3
      <4>2. i + 1 >= H - d /\ i + 1 \in Nat
        BY <1>1
      <4>3. p + 1 \in Places
        BY <1>1, <2>1, <4>1 DEF Places
      <4>. QED BY <4>1, <4>2, <4>3
    <3>2. from[p] = from[p + 1]
      BY <1>0, <2>1, <2>3, <3>1 DEF ScanTurn
    <3>3. Len(from[p + 1]) <= Cardinality(HeadsFrom(i + 1))
      BY <2>0, <3>1
    <3>4. Len(from[p + 1]) \in Nat
      BY <1>0, <3>1 DEF ScanTurn
    <3>5. HeadsFrom(i + 1) \in SUBSET HeadsFrom(i)
      BY <1>3, <3>1
    <3>6. Cardinality(HeadsFrom(i + 1)) <= Cardinality(HeadsFrom(i))
      BY <1>4, <3>5, FS_Subset
    <3>7. Len(from[p]) <= Cardinality(HeadsFrom(i))
      BY <1>4, <3>2, <3>3, <3>4, <3>6
    <3>. QED BY <2>1, <3>7
  <2>. QED BY <1>1, <1>5, <2>2, <2>3
<1>7. \A d \in Nat : d \in S
  <2>1. 0 \in S
    BY <1>1, <1>5
  <2>. HIDE DEF S
  <2>. QED BY <1>6, <2>1, Induction
<1>8. R + 0 = R /\ R \in Places /\ 0 >= H - H
  BY <1>1 DEF Places
<1>9. Len(from[R + 0]) <= Cardinality(HeadsFrom(0))
  <2>1. H \in S
    BY <1>1, <1>7
  <2>2. \A i \in Nat : i >= H - H /\ R + i \in Places =>
            Len(from[R + i]) <= Cardinality(HeadsFrom(i))
    BY <2>1
  <2>. HIDE DEF S
  <2>. QED BY <1>8, <2>2
<1>. QED BY <1>3, <1>8, <1>9

\* A sequence of frames that were sent is one of sequences of bytes.
LEMMA SentSeq == ASSUME NEW s \in Seq(Sent) PROVE s \in Seq(Seq(Byte))
<1>1. \A f \in Sent : f \in Seq(Byte)
  BY SentShape DEF Shaped
<1>. QED BY <1>1

\* Where the three parts of a read are in it.
LEMMA ReadParts ==
  ASSUME NEW tail \in Seq(Byte), NEW F \in Seq(Byte), NEW rest \in Seq(Byte)
  PROVE  LET b == tail \o F \o rest IN
         /\ b \in Seq(Byte) /\ Len(b) = Len(tail) + Len(F) + Len(rest)
         /\ \A i \in 1 .. Len(tail) : b[i] = tail[i]
         /\ \A i \in 1 .. Len(F) : b[Len(tail) + i] = F[i]
         /\ \A i \in 1 .. Len(rest) : b[Len(tail) + Len(F) + i] = rest[i]
<1>. DEFINE c == tail \o F
            b == c \o rest
<1>1. /\ c \in Seq(Byte) /\ Len(c) = Len(tail) + Len(F)
      /\ \A i \in 1 .. Len(tail) : c[i] = tail[i]
      /\ \A i \in 1 .. Len(F) : c[Len(tail) + i] = F[i]
  BY ConcatParts
<1>. HIDE DEF c
<1>2. /\ b \in Seq(Byte) /\ Len(b) = Len(c) + Len(rest)
      /\ \A i \in 1 .. Len(c) : b[i] = c[i]
      /\ \A i \in 1 .. Len(rest) : b[Len(c) + i] = rest[i]
  <2>1. c \in Seq(Byte)
    BY <1>1
  <2>. QED BY <2>1, ConcatParts
<1>. HIDE DEF b
<1>. DEFINE T == Len(tail)
            W == Len(F)
<1>3. T \in Nat /\ W \in Nat /\ T = Len(tail) /\ W = Len(F) /\ Len(c) = T + W
  BY <1>1
<1>. HIDE DEF T, W
<1>4. \A i \in 1 .. T : i \in 1 .. Len(c) /\ b[i] = tail[i]
  BY <1>1, <1>2, <1>3
<1>5. \A i \in 1 .. W : T + i \in 1 .. Len(c) /\ b[T + i] = F[i]
  BY <1>1, <1>2, <1>3
<1>. QED BY <1>1, <1>2, <1>3, <1>4, <1>5 DEF b, c

\* Behind a tail without a head byte all the frames of a read are found, and after them at
\* most one more for each head byte of the rest.
LEMMA ScanFinds ==
  ASSUME NEW tail \in Seq(Byte), Heads(tail) = {},
         NEW whole \in Seq(Sent), NEW rest \in Seq(Byte),
         NEW b, b = tail \o FlattenSeq(whole) \o rest, Len(b) <= ReadMax,
         NEW buf \in Buffers, \A i \in 1 .. Len(b) : buf[i - 1] = b[i]
  PROVE  /\ IsPrefix(whole, Scan(buf, Len(b)))
         /\ Len(Scan(buf, Len(b))) <= Len(whole) + Cardinality(Heads(rest))
<1>. DEFINE F == FlattenSeq(whole)
            K == Len(whole)
            T == Len(tail)
            W == Len(F)
            H == Len(rest)
            n == Len(b)
<1>1. whole \in Seq(Seq(Byte)) /\ \A k \in 1 .. K : Shaped(whole[k])
  BY SentSeq, SentShape
<1>2. PICK P : Layout(whole, F, P)
  BY <1>1, LayoutExists
<1>3. F \in Seq(Byte)
  BY <1>2 DEF Layout
<1>. HIDE DEF F
<1>4. /\ b \in Seq(Byte) /\ n = T + W + H
      /\ \A i \in 1 .. T : b[i] = tail[i]
      /\ \A i \in 1 .. W : b[T + i] = F[i]
      /\ \A i \in 1 .. H : b[T + W + i] = rest[i]
  BY <1>3, ReadParts DEF F
<1>5. /\ K \in Nat /\ T \in Nat /\ W \in Nat /\ H \in Nat /\ n \in Nat /\ n <= ReadMax
      /\ n \in 0 .. ReadMax /\ ReadMax \in 2 .. BufLenth /\ BufLenth \in 4 .. 256
      /\ K = Len(whole) /\ T = Len(tail) /\ W = Len(F) /\ H = Len(rest) /\ n = Len(b)
  BY <1>3, <1>4, SizesAssumption
<1>6. /\ P \in [0 .. K -> Nat] /\ P[0] = 0 /\ P[K] = W
      /\ \A k \in 1 .. K : P[k] = P[k - 1] + Len(whole[k]) /\ P[k] <= W
      /\ \A k \in 1 .. K : \A j \in 1 .. Len(whole[k]) : F[P[k - 1] + j] = whole[k][j]
  BY <1>2 DEF Layout
<1>7. \A i \in 1 .. T : tail[i] # HEAD
  BY DEF Heads
<1>. HIDE DEF K, T, W, H, n
<1>8. PICK from : Scans(buf, n, from)
  BY <1>5, ScansExist
<1>20. \A i \in Places : ScanTurn(buf, n, from, i)
  <2>1. n \in 0 .. ReadMax
    BY <1>5
  <2>. QED BY <1>8, <2>1, ScanTurns
<1>21. n = T + W + H /\ n \in Nat /\ T \in Nat /\ W \in Nat /\ H \in Nat /\ K \in Nat
  BY <1>4, <1>5
<1>22. \A i \in 0 .. n : i \in Places
  BY <1>5 DEF Places
<1>9. from[0] = from[T]
  <2>. DEFINE S == {i \in Nat : i <= T => from[i] = from[0]}
  <2>1. 0 \in S
    OBVIOUS
  <2>2. ASSUME NEW i \in Nat, i \in S PROVE i + 1 \in S
    <3>1. SUFFICES ASSUME i + 1 <= T PROVE from[i + 1] = from[0]
      OBVIOUS
    <3>2. i + 1 \in 1 .. T /\ i + 1 \in 1 .. n /\ (i + 1) - 1 = i /\ i \in Places /\ i < n
      BY <1>4, <1>5, <3>1 DEF Places
    <3>3. buf[i] = tail[i + 1]
      BY <1>4, <1>5, <3>2
    <3>4. ~FrameAt(buf, i)
      BY <1>7, <3>2, <3>3 DEF FrameAt
    <3>5. from[i] = from[i + 1]
      BY <1>20, <3>2, <3>4 DEF ScanTurn
    <3>6. from[i] = from[0]
      BY <1>5, <2>2, <3>1
    <3>. QED BY <3>5, <3>6
  <2>3. \A i \in Nat : i \in S
    <3>. HIDE DEF S
    <3>. QED BY <2>1, <2>2, Induction
  <2>. QED BY <1>5, <2>3
<1>10. ASSUME NEW k \in 1 .. K
       PROVE  /\ T + P[k - 1] \in Places /\ T + P[k] \in Places
              /\ from[T + P[k - 1]] = <<whole[k]>> \o from[T + P[k]]
  <2>. DEFINE f == whole[k]
              l == Len(f)
              a == T + P[k - 1]
  <2>1. Shaped(f) /\ l \in 6 .. BufLenth /\ l = Len(f)
    BY <1>1, <1>5 DEF Shaped, K
  <2>2. P[k] \in Nat /\ P[k - 1] \in Nat
    <3>1. k \in 0 .. K /\ k - 1 \in 0 .. K
      BY <1>5
    <3>. QED BY <1>6, <3>1
  <2>3. P[k] = P[k - 1] + l /\ P[k] <= W
    BY <1>6
  <2>4. \A j \in 1 .. l : F[P[k - 1] + j] = f[j]
    BY <1>6
  <2>5. a = T + P[k - 1]
    OBVIOUS
  <2>. HIDE DEF f, l, a
  <2>6. a \in Nat /\ a + l = T + P[k] /\ a + l <= n /\ a < n /\ a \in Places /\ a + l \in Places
    <3>. DEFINE x == P[k - 1]
                y == P[k]
    <3>3. /\ x \in Nat /\ y \in Nat /\ l \in Nat /\ l >= 6 /\ y = x + l /\ y <= W
          /\ a = T + x
      BY <1>5, <2>1, <2>2, <2>3, <2>5
    <3>4. a \in Nat /\ a + l = T + y /\ a + l <= n /\ a < n
      <4>. HIDE DEF x, y
      <4>. QED BY <1>21, <3>3
    <3>1. a \in Nat /\ a + l = T + P[k] /\ a + l <= n /\ a < n
      BY <3>4
    <3>2. a \in 0 .. n /\ a + l \in 0 .. n
      <4>. HIDE DEF x, y
      <4>. QED BY <1>21, <3>3, <3>4
    <3>. QED BY <1>22, <3>1, <3>2
  <2>7. ASSUME NEW j \in 1 .. l PROVE buf[a + j - 1] = f[j]
    <3>. DEFINE q == P[k - 1] + j
    <3>1. q \in 1 .. W /\ T + q = a + j /\ a + j \in 1 .. n /\ q = P[k - 1] + j
      <4>. DEFINE x == P[k - 1]
                  y == P[k]
      <4>1. /\ x \in Nat /\ y \in Nat /\ l \in Nat /\ y = x + l /\ y <= W
            /\ a = T + x /\ q = x + j
        BY <1>5, <2>1, <2>2, <2>3, <2>5
      <4>2. q \in 1 .. W /\ T + q = a + j /\ a + j \in 1 .. n
        <5>. HIDE DEF x, y, q
        <5>. QED BY <1>21, <4>1
      <4>. QED BY <4>2
    <3>. HIDE DEF q
    <3>2. b[T + q] = F[q] /\ F[q] = f[j]
      BY <1>4, <1>5, <2>4, <3>1
    <3>3. buf[(a + j) - 1] = b[a + j]
      BY <1>5, <3>1
    <3>4. (a + j) - 1 = a + j - 1
      BY <2>6
    <3>. QED BY <3>1, <3>2, <3>3, <3>4
  <2>8. a + Len(f) <= ReadMax
    BY <1>5, <2>1, <2>6
  <2>9. FrameAt(buf, a) /\ AfterFrame(buf, a) = a + l /\ BytesAt(buf, a, ByteAt(buf, a + 1) + 4) = f
    BY <2>1, <2>6, <2>7, <2>8, FrameFound
  <2>10. from[a] = <<f>> \o from[a + l]
    BY <1>20, <2>6, <2>9 DEF ScanTurn
  <2>. QED BY <2>5, <2>6, <2>10 DEF f
<1>11. \A i \in Places : from[i] \in Founds
  BY <1>8 DEF Scans
<1>12. from[T] = whole \o from[T + W]
  <2>. DEFINE Found(k) == from[T] = SubSeq(whole, 1, k) \o from[T + P[k]]
              S == {k \in Nat : k <= K => Found(k)}
  <2>1. 0 \in S
    <3>1. T + P[0] = T /\ T \in Places
      BY <1>4, <1>5, <1>6 DEF Places
    <3>2. SubSeq(whole, 1, 0) = <<>>
      BY <1>1, SubSeqEmpty
    <3>3. <<>> \o from[T] = from[T]
      BY <1>11, <3>1, ConcatEmptySeq DEF Founds
    <3>. QED BY <3>1, <3>2, <3>3
  <2>2. ASSUME NEW k \in Nat, k \in S PROVE k + 1 \in S
    <3>1. SUFFICES ASSUME k + 1 <= K PROVE Found(k + 1)
      <4>. HIDE DEF Found
      <4>. QED OBVIOUS
    <3>9. Found(k)
      <4>. HIDE DEF Found
      <4>. QED BY <1>21, <2>2, <3>1
    <3>. DEFINE s == SubSeq(whole, 1, k)
                f == whole[k + 1]
                u == from[T + P[k + 1]]
    <3>2. from[T] = s \o from[T + P[k]]
      BY <3>9
    <3>3. k + 1 \in 1 .. K /\ (k + 1) - 1 = k
      BY <1>5, <3>1
    <3>4. from[T + P[k]] = <<f>> \o u /\ T + P[k + 1] \in Places
      BY <1>10, <3>3
    <3>5. u \in Founds /\ f \in Seq(Byte)
      BY <1>1, <1>5, <1>11, <3>3, <3>4
    <3>6. SubSeq(whole, 1, k + 1) = s \o <<f>>
      <4>1. 1 \in 1 .. Len(whole) /\ k + 1 \in 1 .. Len(whole)
        BY <1>5, <3>3
      <4>. QED BY <1>1, <3>3, <4>1, SubSeqRecursiveSecond
    <3>7. s \in Founds /\ <<f>> \in Founds
      <4>1. s \in Seq(Seq(Byte))
        BY <1>1, <1>5, <3>3
      <4>. QED BY <3>5, <4>1 DEF Founds
    <3>. HIDE DEF s, f, u
    <3>8. (s \o <<f>>) \o u = s \o (<<f>> \o u)
      BY <3>5, <3>7, ConcatAssociative DEF Founds
    <3>. QED BY <3>2, <3>4, <3>6, <3>8 DEF u
  <2>3. K \in S
    <3>. HIDE DEF S
    <3>. QED BY <1>5, <2>1, <2>2, Induction
  <2>4. SubSeq(whole, 1, K) = whole
    BY <1>1, <1>5, SubSeqFull
  <2>5. Found(K)
    <3>. HIDE DEF Found
    <3>. QED BY <1>21, <2>3
  <2>. QED BY <1>6, <2>4, <2>5
<1>13. Len(from[T + W]) <= Cardinality(Heads(rest))
  <2>. DEFINE R == T + W
  <2>1. R \in Nat /\ n = R + Len(rest) /\ R = T + W
    BY <1>4, <1>5
  <2>. HIDE DEF R
  <2>2. ASSUME NEW i \in 1 .. H PROVE buf[R + i - 1] = rest[i]
    <3>1. R + i \in 1 .. n /\ (R + i) - 1 = R + i - 1
      BY <1>21, <2>1
    <3>2. b[R + i] = rest[i]
      BY <1>4, <2>1
    <3>3. buf[(R + i) - 1] = b[R + i]
      BY <1>5, <3>1
    <3>. QED BY <3>1, <3>2, <3>3
  <2>3. Len(from[R]) <= Cardinality(Heads(rest))
    BY <1>5, <1>8, <2>1, <2>2, RestFinds
  <2>. QED BY <2>1, <2>3
<1>14. from[T + W] \in Founds /\ T + W \in Places
  BY <1>4, <1>5, <1>11 DEF Places
<1>15. Scan(buf, n) = whole \o from[T + W]
  BY <1>8, <1>9, <1>12 DEF Scans
<1>. DEFINE x == from[T + W]
            found == whole \o x
<1>16. /\ found \in Founds /\ Len(found) = K + Len(x)
       /\ \A i \in 1 .. K : found[i] = whole[i]
       /\ Len(x) \in Nat
  BY <1>1, <1>5, <1>14, ConcatParts DEF Founds
<1>17. IsPrefix(whole, found)
  <2>1. Len(whole) <= Len(found)
    BY <1>5, <1>16
  <2>2. SubSeq(whole, 1, K) = SubSeq(found, 1, K)
    <3>. HIDE DEF found
    <3>. QED BY <1>1, <1>5, <1>16 DEF Founds
  <2>. QED BY <1>5, <2>1, <2>2 DEF IsPrefix
<1>18. IsFiniteSet(Heads(rest))
  <2>1. Heads(rest) \in SUBSET (1 .. H)
    BY <1>5 DEF Heads
  <2>2. IsFiniteSet(1 .. H)
    BY <1>21, FS_Interval
  <2>. QED BY <2>1, <2>2, FS_Subset
<1>. HIDE DEF found, x
<1>19. Cardinality(Heads(rest)) \in Nat
  BY <1>18, FS_CardinalityType
<1>. QED BY <1>5, <1>13, <1>15, <1>16, <1>17, <1>19 DEF found, x

\* Whole frames are no bytes at all, or at least six of which the last is the end byte.
LEMMA WholeEnds ==
  ASSUME NEW whole \in Seq(Sent)
  PROVE  LET F == FlattenSeq(whole) IN
         /\ F \in Seq(Byte)
         /\ \/ whole = <<>> /\ F = <<>>
            \/ Len(F) >= 6 /\ F[Len(F)] = END
<1>. DEFINE F == FlattenSeq(whole)
            K == Len(whole)
<1>1. whole \in Seq(Seq(Byte)) /\ K \in Nat /\ K = Len(whole)
  BY SentSeq
<1>2. PICK P : Layout(whole, F, P)
  BY <1>1, LayoutExists
<1>3. F \in Seq(Byte)
  BY <1>2 DEF Layout
<1>. HIDE DEF K
<1>4. CASE K = 0
  <2>1. whole = <<>>
    BY <1>1, <1>4, EmptySeq
  <2>2. F = <<>>
    BY <2>1 DEF FlattenSeq
  <2>. QED BY <1>3, <2>1, <2>2
<1>5. CASE K # 0
  <2>. DEFINE f == whole[K]
              l == Len(f)
              x == P[K - 1]
  <2>1. Shaped(f)
    BY <1>1, <1>5, SentShape
  <2>2. K \in 1 .. K /\ K - 1 \in 0 .. K
    BY <1>1, <1>5
  <2>. HIDE DEF F
  <2>3. /\ x \in Nat /\ P[K] = x + l /\ P[K] = Len(F)
        /\ \A j \in 1 .. l : F[x + j] = f[j]
    BY <1>1, <1>2, <2>2 DEF Layout
  <2>4. l \in Nat /\ l >= 6 /\ l \in 1 .. l /\ f[l] = END
    BY <2>1, SizesAssumption DEF Shaped
  <2>. HIDE DEF f, l, x
  <2>5. Len(F) = x + l /\ Len(F) >= 6 /\ F[x + l] = END
    BY <2>3, <2>4
  <2>. QED BY <1>3, <2>5 DEF F
<1>. QED BY <1>4, <1>5

LEMMA HeadsFinite ==
  ASSUME NEW b \in Seq(Byte)
  PROVE  IsFiniteSet(Heads(b)) /\ Cardinality(Heads(b)) \in Nat
<1>1. Heads(b) \in SUBSET (1 .. Len(b)) /\ Len(b) \in Int
  BY DEF Heads
<1>2. IsFiniteSet(1 .. Len(b))
  BY <1>1, FS_Interval
<1>. QED BY <1>1, <1>2, FS_Subset, FS_CardinalityType

-----------------------------------------------------------------------------
(* The receive loop *)

\* A first NAK or C that has been counted starts no upgrade yet.
CountOK == devOtaUpdateingFlag = 0 => userOtaZigbeeGWCheck <= 1

LoopInv == TypeOK /\ CountOK

\* What a read takes are bytes of frames that were sent, and frames are left behind.
LEMMA ReadTaken ==
  ASSUME TypeOK, NEW k \in 0 .. Len(line), NEW left \in 0 .. BufLenth - 1, ReadEnds(k, left)
  PROVE  LET t == Taken(k, left)
             b == Read(k, left)
             later == SubSeq(line, k + 1, Len(line))
         IN  /\ t.tail \in Seq(Byte) /\ t.whole \in Seq(Sent) /\ t.rest \in Seq(Byte)
             /\ b = t.tail \o FlattenSeq(t.whole) \o t.rest
             /\ b \in Seq(Byte) /\ Len(b) <= ReadMax
             /\ Len(b) = Len(t.tail) + Len(FlattenSeq(t.whole)) + Len(t.rest)
             /\ later \in Seq(Sent)
             /\ left # 0 => later # <<>> /\ left < Len(later[1])
<1>. DEFINE L == Len(line)
            t == Taken(k, left)
            later == SubSeq(line, k + 1, Len(line))
<1>1. /\ line \in Seq(Sent) /\ L \in Nat /\ L = Len(line) /\ k \in 0 .. L
      /\ offset \in Nat /\ (offset # 0 => line # <<>> /\ offset < Len(line[1]))
      /\ left \in Nat
  BY SizesAssumption DEF TypeOK
<1>2. /\ left # 0 => k < L /\ left < Len(line[k + 1])
      /\ k = 0 => left > offset
      /\ Len(Read(k, left)) <= ReadMax
  BY DEF ReadEnds
<1>. HIDE DEF L
<1>3. \A i \in 1 .. L : line[i] \in Sent /\ line[i] \in Seq(Byte) /\ Len(line[i]) \in Nat
  BY <1>1, SentShape DEF Shaped
<1>4. t.tail \in Seq(Byte)
  <2>1. CASE offset = 0
    BY <2>1 DEF Taken
  <2>2. CASE offset # 0
    <3>1. line[1] \in Seq(Byte) /\ Len(line[1]) \in Nat
      <4>1. L # 0
        BY <1>1, <2>2
      <4>. QED BY <1>1, <1>3, <4>1
    <3>. DEFINE e == IF k = 0 THEN left ELSE Len(line[1])
    <3>2. e \in Nat /\ e <= Len(line[1]) /\ t.tail = SubSeq(line[1], offset + 1, e)
      BY <1>1, <1>2, <2>2, <3>1 DEF Taken
    <3>. HIDE DEF e
    <3>3. \A i \in (offset + 1) .. e : line[1][i] \in Byte
      BY <1>1, <3>1, <3>2
    <3>. QED BY <1>1, <3>2, <3>3
  <2>. QED BY <2>1, <2>2
<1>5. t.whole \in Seq(Sent)
  <2>. DEFINE i == IF offset = 0 THEN 1 ELSE 2
  <2>1. i \in {1, 2} /\ t.whole = SubSeq(line, i, k)
    BY DEF Taken
  <2>. HIDE DEF i
  <2>2. \A j \in i .. k : line[j] \in Sent
    BY <1>1, <1>3, <2>1
  <2>. QED BY <1>1, <2>1, <2>2
<1>6. t.rest \in Seq(Byte)
  <2>1. CASE left = 0 \/ (k = 0 /\ offset > 0)
    BY <2>1 DEF Taken
  <2>2. CASE ~(left = 0 \/ (k = 0 /\ offset > 0))
    <3>1. k + 1 \in 1 .. L /\ left < Len(line[k + 1])
      BY <1>1, <1>2, <2>2
    <3>2. line[k + 1] \in Seq(Byte) /\ Len(line[k + 1]) \in Nat
      BY <1>3, <3>1
    <3>3. t.rest = SubSeq(line[k + 1], 1, left)
      BY <2>2 DEF Taken
    <3>4. \A j \in 1 .. left : line[k + 1][j] \in Byte
      BY <1>1, <3>1, <3>2
    <3>. QED BY <1>1, <3>3, <3>4
  <2>. QED BY <2>1, <2>2
<1>7. Read(k, left) = t.tail \o FlattenSeq(t.whole) \o t.rest
  BY DEF Read
<1>8. FlattenSeq(t.whole) \in Seq(Byte)
  BY <1>5, WholeEnds
<1>9. later \in Seq(Sent) /\ Len(later) = L - k /\ (k < L => later[1] = line[k + 1])
  BY <1>1, <1>3
<1>10. left # 0 => later # <<>> /\ left < Len(later[1])
  <2>1. SUFFICES ASSUME left # 0 PROVE later # <<>> /\ left < Len(later[1])
    OBVIOUS
  <2>2. k < L /\ left < Len(line[k + 1])
    BY <1>2, <2>1
  <2>. HIDE DEF later
  <2>3. Len(later) # 0
    BY <1>1, <1>9, <2>2
  <2>. QED BY <1>9, <2>2, <2>3, Len(<<>>) = 0
<1>. DEFINE tail == t.tail
            whole == t.whole
            rest == t.rest
<1>. HIDE DEF tail, whole, rest
<1>11. LET c == tail \o FlattenSeq(whole) \o rest IN
       c \in Seq(Byte) /\ Len(c) = Len(tail) + Len(FlattenSeq(whole)) + Len(rest)
  <2>1. tail \in Seq(Byte) /\ FlattenSeq(whole) \in Seq(Byte) /\ rest \in Seq(Byte)
    BY <1>4, <1>6, <1>8 DEF tail, whole, rest
  <2>. QED BY <2>1, ReadParts
<1>. QED BY <1>2, <1>4, <1>5, <1>6, <1>7, <1>9, <1>10, <1>11 DEF tail, whole, rest

\* A read lies in the buffer from its beginning, over whatever that held.
LEMMA OverlaidRead ==
  ASSUME data \in Buffers, NEW b \in Seq(Byte), Len(b) <= ReadMax
  PROVE  Overlaid(b) \in Buffers /\ \A i \in 1 .. Len(b) : Overlaid(b)[i - 1] = b[i]
<1>. DEFINE n == Len(b)
<1>1. n \in Nat /\ n <= ReadMax /\ ReadMax \in Nat /\ n = Len(b)
  BY SizesAssumption
<1>2. \A i \in 1 .. n : b[i] \in Byte
  BY <1>1
<1>. HIDE DEF n
<1>3. Overlaid(b) = [i \in 0 .. ReadMax - 1 |-> IF i < n THEN b[i + 1] ELSE data[i]]
  BY <1>1 DEF Overlaid
<1>4. Overlaid(b) \in Buffers
  <2>1. ASSUME NEW i \in 0 .. ReadMax - 1
        PROVE  (IF i < n THEN b[i + 1] ELSE data[i]) \in Byte
    <3>1. i < n => i + 1 \in 1 .. n
      BY <1>1
    <3>. QED BY <1>2, <3>1 DEF Buffers
  <2>. QED BY <1>3, <2>1 DEF Buffers
<1>5. ASSUME NEW i \in 1 .. n PROVE Overlaid(b)[i - 1] = b[i]
  <2>1. i - 1 \in 0 .. ReadMax - 1 /\ i - 1 < n /\ (i - 1) + 1 = i
    BY <1>1
  <2>. QED BY <1>3, <2>1
<1>. QED BY <1>1, <1>4, <1>5

LEMMA InitInv == Init => LoopInv
<1>. SUFFICES ASSUME Init PROVE LoopInv
  OBVIOUS
<1>1. line \in Seq(Sent)
  <2>1. PICK n \in 0 .. MaxFrames : line \in [1 .. n -> Sent]
    BY DEF Init, Lines, Sent
  <2>2. n \in Nat
    BY SizesAssumption
  <2>. QED BY <2>1, <2>2
<1>2. data \in [0 .. ReadMax - 1 -> Byte]
  BY DEF Init, Byte
<1>. QED BY <1>1, <1>2 DEF Init, LoopInv, TypeOK, CountOK

LEMMA ByteStep ==
  ASSUME LoopInv, NEW k \in 0 .. Len(line), NEW left \in 0 .. BufLenth - 1, ReadByte(k, left)
  PROVE  LoopInv' /\ BackInStep' /\ Cut'
<1>. DEFINE t == Taken(k, left)
            b == Read(k, left)
            later == SubSeq(line, k + 1, Len(line))
<1>1. /\ ReadEnds(k, left) /\ Len(b) = 1
      /\ line' = later /\ offset' = left /\ data' = Overlaid(b)
      /\ last' = [tail |-> t.tail, whole |-> t.whole, rest |-> t.rest, found |-> <<>>]
      /\ \/ /\ devOtaUpdateingFlag = 0
            /\ userOtaZigbeeGWCheck' = userOtaZigbeeGWCheck + 1
            /\ devOtaUpdateingFlag' = IF userOtaZigbeeGWCheck + 1 >= 2 THEN 1 ELSE 0
         \/ UNCHANGED <<userOtaZigbeeGWCheck, devOtaUpdateingFlag>>
  BY DEF ReadByte, Take
<1>2. /\ t.tail \in Seq(Byte) /\ t.whole \in Seq(Sent) /\ t.rest \in Seq(Byte)
      /\ b = t.tail \o FlattenSeq(t.whole) \o t.rest
      /\ b \in Seq(Byte) /\ Len(b) <= ReadMax
      /\ Len(b) = Len(t.tail) + Len(FlattenSeq(t.whole)) + Len(t.rest)
      /\ later \in Seq(Sent)
      /\ left # 0 => later # <<>> /\ left < Len(later[1])
  BY <1>1, ReadTaken DEF LoopInv
<1>3. line' \in Seq(Sent) /\ offset' \in Nat /\ (offset' # 0 => line' # <<>> /\ offset' < Len(line'[1]))
  BY <1>1, <1>2, SizesAssumption
<1>4. data' \in [0 .. ReadMax - 1 -> Byte]
  BY <1>1, <1>2, OverlaidRead DEF LoopInv, TypeOK, Buffers
<1>. DEFINE tail == t.tail
            whole == t.whole
            rest == t.rest
            F == FlattenSeq(whole)
<1>5. last'.tail = tail /\ last'.whole = whole /\ last'.rest = rest /\ last'.found = <<>>
  BY <1>1
<1>6. F \in Seq(Byte) /\ ((whole = <<>> /\ F = <<>>) \/ Len(F) >= 6)
  BY <1>2, WholeEnds
<1>7. tail \in Seq(Byte) /\ rest \in Seq(Byte) /\ 1 = Len(tail) + Len(F) + Len(rest)
  BY <1>1, <1>2
<1>. HIDE DEF t, b, later, tail, whole, rest, F
<1>8. Len(tail) \in Nat /\ Len(rest) \in Nat /\ Len(F) \in Nat
  BY <1>6, <1>7
<1>9. whole = <<>>
  BY <1>6, <1>7, <1>8
<1>10. Len(F) = 0
  BY <1>6, <1>7, <1>8
<1>11. tail # <<>> \/ rest # <<>>
  BY <1>7, <1>8, <1>10, Len(<<>>) = 0
<1>12. IsFiniteSet(Heads(rest)) /\ Cardinality(Heads(rest)) \in Nat
  BY <1>7, HeadsFinite
<1>13. BackInStep'
  <2>1. IsPrefix(whole, <<>>)
    BY <1>9 DEF IsPrefix
  <2>2. Len(<<>>) <= Len(whole) + Cardinality(Heads(rest))
    BY <1>9, <1>12
  <2>3. DOMAIN whole = {}
    BY <1>9
  <2>. QED BY <1>5, <2>1, <2>2, <2>3 DEF BackInStep
<1>14. Cut'
  BY <1>5, <1>11 DEF Cut
<1>15. userOtaZigbeeGWCheck' \in 0 .. 2 /\ devOtaUpdateingFlag' \in {0, 1} /\ CountOK'
  BY <1>1 DEF LoopInv, TypeOK, CountOK
<1>. QED BY <1>3, <1>4, <1>13, <1>14, <1>15 DEF LoopInv, TypeOK

LEMMA FramesStep ==
  ASSUME LoopInv, NEW k \in 0 .. Len(line), NEW left \in 0 .. BufLenth - 1, ReadFrames(k, left)
  PROVE  LoopInv' /\ BackInStep' /\ (devOtaUpdateingFlag' # devOtaUpdateingFlag => Cut')
<1>. DEFINE t == Taken(k, left)
            b == Read(k, left)
            later == SubSeq(line, k + 1, Len(line))
            buf == Overlaid(b)
<1>1. /\ ReadEnds(k, left) /\ Len(b) >= 2
      /\ line' = later /\ offset' = left /\ data' = buf
      /\ last' = [tail |-> t.tail, whole |-> t.whole, rest |-> t.rest,
                  found |-> Scan(buf, Len(b))]
      /\ devOtaUpdateingFlag' = IF Prompt(b) THEN 1 ELSE devOtaUpdateingFlag
      /\ userOtaZigbeeGWCheck' = 0
  BY DEF ReadFrames, Take
<1>2. /\ t.tail \in Seq(Byte) /\ t.whole \in Seq(Sent) /\ t.rest \in Seq(Byte)
      /\ b = t.tail \o FlattenSeq(t.whole) \o t.rest
      /\ b \in Seq(Byte) /\ Len(b) <= ReadMax
      /\ Len(b) = Len(t.tail) + Len(FlattenSeq(t.whole)) + Len(t.rest)
      /\ later \in Seq(Sent)
      /\ left # 0 => later # <<>> /\ left < Len(later[1])
  BY <1>1, ReadTaken DEF LoopInv
<1>3. line' \in Seq(Sent) /\ offset' \in Nat /\ (offset' # 0 => line' # <<>> /\ offset' < Len(line'[1]))
  BY <1>1, <1>2, SizesAssumption
<1>4. buf \in Buffers /\ \A i \in 1 .. Len(b) : buf[i - 1] = b[i]
  BY <1>2, OverlaidRead DEF LoopInv, TypeOK, Buffers
<1>5. data' \in [0 .. ReadMax - 1 -> Byte]
  BY <1>1, <1>4 DEF Buffers
<1>. DEFINE tail == t.tail
            whole == t.whole
            rest == t.rest
<1>6. /\ last'.tail = tail /\ last'.whole = whole /\ last'.rest = rest
      /\ last'.found = Scan(buf, Len(b))
  BY <1>1
<1>7. /\ tail \in Seq(Byte) /\ whole \in Seq(Sent) /\ rest \in Seq(Byte)
      /\ b = tail \o FlattenSeq(whole) \o rest /\ Len(b) <= ReadMax
      /\ Len(b) = Len(tail) + Len(FlattenSeq(whole)) + Len(rest)
  BY <1>2
<1>. HIDE DEF t, b, later, buf, tail, whole, rest
<1>8. BackInStep'
  <2>1. Heads(tail) = {} =>
          /\ IsPrefix(whole, Scan(buf, Len(b)))
          /\ Len(Scan(buf, Len(b))) <= Len(whole) + Cardinality(Heads(rest))
    BY <1>4, <1>7, ScanFinds
  <2>2. \A i \in DOMAIN whole : Checked(whole[i]) <=> \E m \in Messages : whole[i] = Frame(m)
    <3>1. \A i \in DOMAIN whole : whole[i] \in Sent
      BY <1>7
    <3>. QED BY <3>1, SentChecked
  <2>. QED BY <1>6, <2>1, <2>2 DEF BackInStep
<1>9. ASSUME devOtaUpdateingFlag' # devOtaUpdateingFlag PROVE Cut'
  <2>1. b[Len(b)] = CapitalC
    BY <1>1, <1>9 DEF Prompt
  <2>2. SUFFICES ASSUME tail = <<>>, rest = <<>> PROVE FALSE
    BY <1>6 DEF Cut
  <2>. DEFINE F == FlattenSeq(whole)
  <2>3. F \in Seq(Byte) /\ (F = <<>> \/ F[Len(F)] = END)
    BY <1>7, WholeEnds
  <2>4. b = <<>> \o F \o <<>> /\ Len(b) = Len(F)
    <3>. HIDE DEF F
    <3>1. Len(<<>>) = 0 /\ Len(F) \in Nat
      BY <2>3
    <3>. QED BY <1>7, <2>2, <3>1 DEF F
  <2>. HIDE DEF F
  <2>5. b = F
    BY <2>3, <2>4, ConcatEmptySeq
  <2>6. F # <<>>
    BY <1>1, <2>4, Len(<<>>) = 0
  <2>. QED BY <2>1, <2>3, <2>5, <2>6 DEF CapitalC, END
<1>10. userOtaZigbeeGWCheck' \in 0 .. 2 /\ devOtaUpdateingFlag' \in {0, 1} /\ CountOK'
  BY <1>1 DEF LoopInv, TypeOK, CountOK
<1>. QED BY <1>3, <1>5, <1>8, <1>9, <1>10 DEF LoopInv, TypeOK

LEMMA LoopStep ==
  ASSUME LoopInv, BackInStep, [Next]_vars
  PROVE  LoopInv' /\ BackInStep' /\ (devOtaUpdateingFlag' # devOtaUpdateingFlag => Cut')
<1>1. CASE Next
  BY <1>1, ByteStep, FramesStep DEF Next
<1>2. CASE UNCHANGED vars
  BY <1>2 DEF vars, LoopInv, TypeOK, CountOK, BackInStep
<1>. QED BY <1>1, <1>2

LEMMA InitBackInStep == Init => BackInStep
<1>1. /\ IsPrefix(<<>>, <<>>) /\ DOMAIN <<>> = {} /\ Len(<<>>) = 0
      /\ Heads(<<>>) = {} /\ Cardinality({}) = 0
  BY FS_EmptySet DEF IsPrefix, Heads
<1>. SUFFICES ASSUME Init PROVE BackInStep
  OBVIOUS
<1>2. last.tail = <<>> /\ last.whole = <<>> /\ last.rest = <<>> /\ last.found = <<>>
  BY DEF Init, NoRead
<1>3. Len(last.found) <= Len(last.whole) + Cardinality(Heads(last.rest))
  <2>1. Len(last.found) = 0 /\ Len(last.whole) = 0
    BY <1>2
  <2>2. Heads(last.rest) = Heads(<<>>)
    BY <1>2
  <2>3. Cardinality(Heads(last.rest)) = 0
    BY <1>1, <2>2
  <2>. QED BY <2>1, <2>3
<1>. QED BY <1>1, <1>2, <1>3 DEF BackInStep

LEMMA LoopInvariant == Spec => [](LoopInv /\ BackInStep)
<1>1. Init => LoopInv /\ BackInStep
  BY InitInv, InitBackInStep
<1>2. (LoopInv /\ BackInStep) /\ [Next]_vars => (LoopInv /\ BackInStep)'
  BY LoopStep
<1>. QED BY <1>1, <1>2, PTL DEF Spec

\* The types of line, buffer and flags hold for any messages, damages and sizes.
THEOREM TypeCorrect == Spec => []TypeOK
<1>1. LoopInv => TypeOK
  BY DEF LoopInv
<1>. QED BY <1>1, LoopInvariant, PTL

\* However the line is cut into reads and whatever earlier reads have left in the buffer,
\* uartRcvDataDeal is called for each whole frame of a read, once and in order, and accepts
\* just those that were not damaged, unless the rest of a cut frame before them has a head
\* byte in it.  The frame that is cut at the end of the read adds at most one call for each
\* of its head bytes.
THEOREM AlwaysBackInStep == Spec => []BackInStep
BY LoopInvariant, PTL

\* Bytes of the application's frames start an upgrade only where a read has cut one.
THEOREM UpgradeAlwaysByCut == Spec => UpgradeOnlyByCut
<1>1. (LoopInv /\ BackInStep) /\ [Next]_vars
        => [devOtaUpdateingFlag' # devOtaUpdateingFlag => Cut']_vars
  BY LoopStep
<1>. QED BY <1>1, LoopInvariant, PTL DEF Spec, UpgradeOnlyByCut
=============================================================================
