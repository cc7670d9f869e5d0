---------------------------- MODULE NumberFacts ----------------------------
(***************************************************************************)
(* Facts about numbers the proofs share: a set of indexes that is not      *)
(* empty has a least one, which a search for the first entry of a table    *)
(* finds; counters that wrap, the packet counter of the upgrade and the    *)
(* clock of the heart beat.                                                *)
(***************************************************************************)
EXTENDS Integers, WellFoundedInduction, TLAPS

\* A set of natural numbers that is not empty has a least element: the searches of the
\* tables, which stop at the first entry that fits, find one whenever there is one.
THEOREM LeastNat ==
  ASSUME NEW S \in SUBSET Nat, S # {}
  PROVE  \E i \in S : \A j \in S : i <= j
<1>. DEFINE Less == {ss \in Nat \X Nat : ss[1] < ss[2]}
<1>1. IsWellFoundedOn(Less, Nat)
  BY NatLessThanWellFounded DEF OpToRel
<1>2. PICK x \in S : \A y \in S : ~(<<y, x>> \in Less)
  <2>. HIDE DEF Less
  <2>. QED BY <1>1, WFMin
<1>3. \A y \in S : ~(y < x)
  BY <1>2
<1>. QED BY <1>3

\* What holds of 0, and of n + 1 if it holds of n, holds of every natural number.
LEMMA Induction ==
  ASSUME NEW S, 0 \in S, \A n \in Nat : n \in S => n + 1 \in S
  PROVE  \A n \in Nat : n \in S
<1>. DEFINE T == {n \in Nat : n \notin S}
<1>1. SUFFICES ASSUME T # {} PROVE FALSE
  OBVIOUS
<1>2. PICK n \in T : \A k \in T : n <= k
  <2>. HIDE DEF T
  <2>. QED BY <1>1, LeastNat, T \in SUBSET Nat DEF T
<1>3. n - 1 \in Nat /\ n - 1 \notin T
  BY <1>2
<1>. QED BY <1>2, <1>3

\* Quotient and remainder.
LEMMA DivMod ==
  ASSUME NEW n \in Int, NEW m \in Nat \ {0}
  PROVE  n \div m \in Int /\ n % m \in 0 .. m - 1 /\ n = m * (n \div m) + (n % m)
  OBVIOUS

\* The remainder is the one number below the modulus that fits.
LEMMA ModUnique ==
  ASSUME NEW n \in Int, NEW m \in Nat \ {0}, NEW q \in Int, NEW r \in 0 .. m - 1,
         n = m * q + r
  PROVE  n % m = r
  OBVIOUS

\* A number below the modulus is its own remainder.
LEMMA ModSmall == ASSUME NEW m \in Nat \ {0}, NEW r \in 0 .. m - 1 PROVE r % m = r
  BY ModUnique, r = m * 0 + r

\* Incrementing the reduced counter or the true one gives the same counter.
LEMMA ModSucc ==
  ASSUME NEW n \in Int, NEW m \in Nat \ {0}
  PROVE  ((n % m) + 1) % m = (n + 1) % m
<1>. DEFINE q == n \div m
            r == n % m
<1>1. q \in Int /\ r \in 0 .. m - 1 /\ n = m * q + r
  BY DivMod
<1>. HIDE DEF q, r
<1>2. CASE r + 1 < m
  <2>1. (r + 1) % m = r + 1
    BY <1>1, <1>2, ModSmall, r + 1 \in 0 .. m - 1
  <2>2. (n + 1) % m = r + 1
    BY <1>1, <1>2, ModUnique, n + 1 = m * q + (r + 1), r + 1 \in 0 .. m - 1
  <2>. QED BY <2>1, <2>2 DEF r
<1>3. CASE r + 1 = m
  <2>1. (r + 1) % m = 0
    BY <1>1, <1>3, ModUnique, r + 1 = m * 1 + 0, 0 \in 0 .. m - 1
  <2>2. n + 1 = m * (q + 1) + 0
    BY <1>1, <1>3
  <2>3. (n + 1) % m = 0
    BY <1>1, <2>2, ModUnique, q + 1 \in Int, 0 \in 0 .. m - 1
  <2>. QED BY <2>1, <2>3 DEF r
<1>. QED BY <1>1, <1>2, <1>3

\* A number and the one a whole turn of the counter later.
LEMMA ModWraps ==
  ASSUME NEW n \in Int, NEW m \in Nat \ {0}
  PROVE  (n + m) % m = n % m
<1>. DEFINE q == n \div m
            r == n % m
<1>1. q \in Int /\ r \in 0 .. m - 1 /\ n = m * q + r
  BY DivMod
<1>. HIDE DEF q, r
<1>2. q + 1 \in Int /\ n + m \in Int /\ n + m = m * (q + 1) + r
  BY <1>1
<1>3. (n + m) % m = r
  BY <1>1, <1>2, ModUnique
<1>. QED BY <1>3 DEF r

\* Of the m numbers from n on only n + 1 has the remainder of n + 1, if there are others.
LEMMA ModNear ==
  ASSUME NEW n \in Int, NEW m \in Nat \ {0, 1}, NEW k \in Int, n <= k, k < n + m,
         (n + 1) % m = k % m
  PROVE  k = n + 1
<1>. DEFINE q == (n + 1) \div m
            p == k \div m
            r == k % m
<1>1. /\ q \in Int /\ p \in Int /\ r \in 0 .. m - 1
      /\ n + 1 = m * q + r /\ k = m * p + r
  BY DivMod, n + 1 \in Int
<1>. HIDE DEF q, p, r
<1>2. k - (n + 1) = m * (p - q)
  BY <1>1
<1>3. -1 <= m * (p - q) /\ m * (p - q) < m
  BY <1>2
<1>4. p - q = 0
  BY <1>1, <1>3
<1>. QED BY <1>1, <1>2, <1>4

\* A counter that is incremented grows by one or wraps to 0.
LEMMA ModStep ==
  ASSUME NEW n \in Int, NEW m \in Nat \ {0}
  PROVE  (n + 1) % m \in {(n % m) + 1, 0}
<1>. DEFINE r == n % m
<1>1. r \in 0 .. m - 1 /\ (r + 1) % m = (n + 1) % m
  BY DivMod, ModSucc
<1>. HIDE DEF r
<1>2. CASE r + 1 < m
  BY <1>1, <1>2, ModSmall, r + 1 \in 0 .. m - 1 DEF r
<1>3. CASE r + 1 = m
  BY <1>1, <1>3, ModUnique, r + 1 = m * 1 + 0, 0 \in 0 .. m - 1
<1>. QED BY <1>1, <1>2, <1>3
=============================================================================
