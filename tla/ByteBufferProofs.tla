-------------------------- MODULE ByteBufferProofs --------------------------
(***************************************************************************)
(* Capacities are rounded up correctly for every width up to 64 bits, and   *)
(* buffers are independent byte queues, for every set of buffers and bytes  *)
(* and every width, except where a split cannot be allocated or a block     *)
(* moves while a write reads it.                                            *)
(*                                                                          *)
(* A write, a discard or a store through mutableBytes changes a block that  *)
(* only its buffer refers to, or a fresh copy of it, so no other buffer     *)
(* sees it.  A block never gets smaller than the writer cursors in it, and  *)
(* growing and copying keep what is below them.                             *)
(***************************************************************************)
EXTENDS ByteBuffer, Rounding, WellFoundedInduction, SequenceTheorems,
        FiniteSetTheorems, TLAPS

(***************************************************************************)
(* The rounding.  A set of bits is summed up bit by bit.                    *)
(***************************************************************************)
\* A property of numbers that fails somewhere fails somewhere first.
LEMMA LeastIndex ==
  ASSUME NEW S, S \subseteq Nat, S # {}
  PROVE  \E m \in S : \A k \in S : m <= k
  <1> DEFINE R == {p \in Nat \X Nat : p[1] < p[2]}
  <1>1. IsWellFoundedOn(R, Nat)
    <2>1. R \cap (Nat \X Nat) \subseteq OpToRel(<, Nat)
      BY DEF OpToRel
    <2> QED  BY <2>1, NatLessThanWellFounded, IsWellFoundedOnSubrelation
  <1>2. PICK x \in S : \A y \in S : ~(<<y, x>> \in R)
    <2> HIDE DEF R
    <2> QED  BY <1>1, WFMin
  <1>3. ASSUME NEW y \in S PROVE x <= y
    <2>1. x \in Nat /\ y \in Nat /\ <<y, x>> \notin R
      BY <1>2
    <2>2. y < x => <<y, x>> \in R
      BY <2>1
    <2> QED  BY <2>1, <2>2
  <1> QED  BY <1>2, <1>3

\* The weight of bit k in a set of bits.
Weight(S, k) == IF k \in S THEN 2^k ELSE 0

\* f[k] is the value of the bits of S below bit k, up to bit w.
Sums(S, w, f) ==
    f = [k \in 0..w |-> IF k = 0 THEN 0 ELSE f[k - 1] + Weight(S, k - 1)]

\* Such a function exists: a longest one could be made longer.
LEMMA SumsExist ==
  ASSUME NEW S, NEW w \in Nat
  PROVE  \E f : Sums(S, w, f)
  <1> DEFINE Bad == {n \in Nat : ~ \E f : Sums(S, n, f)}
  <1> SUFFICES ASSUME Bad # {} PROVE FALSE
    OBVIOUS
  <1>1. PICK m \in Bad : \A k \in Bad : m <= k
    BY LeastIndex
  <1>2. m \in Nat
    OBVIOUS
  <1>3. CASE m = 0
    <2>1. Sums(S, 0, [k \in 0..0 |-> 0])
      BY DEF Sums
    <2> QED  BY <1>3, <2>1
  <1>4. CASE m # 0
    <2>1. m - 1 \in Nat /\ m - 1 \notin Bad
      BY <1>1, <1>2, <1>4
    <2>2. PICK f : Sums(S, m - 1, f)
      BY <2>1
    <2> DEFINE g == [k \in 0..m |-> IF k = 0 THEN 0 ELSE f[k - 1] + Weight(S, k - 1)]
    <2>3. ASSUME NEW k \in 0..(m - 1) PROVE g[k] = f[k]
      <3>1. k \in 0..m
        BY <2>1
      <3>2. f[k] = IF k = 0 THEN 0 ELSE f[k - 1] + Weight(S, k - 1)
        BY <2>2, Zenon DEF Sums
      <3> QED  BY <3>1, <3>2
    <2>4. ASSUME NEW k \in 0..m, k # 0 PROVE g[k - 1] = f[k - 1]
      <3>1. k - 1 \in 0..(m - 1)
        BY <2>4, <1>2
      <3> QED  BY <3>1, <2>3, Zenon
    <2>5. Sums(S, m, g)
      BY <2>4, Zenon DEF Sums
    <2> QED  BY <2>5
  <1> QED  BY <1>3, <1>4

LEMMA ValueIsSum ==
  ASSUME NEW S
  PROVE  \E f : Sums(S, Width, f) /\ ValueOf(S) = f[Width]
  <1> DEFINE f == CHOOSE f : Sums(S, Width, f)
  <1>1. Sums(S, Width, f)
    BY SumsExist, WidthAssumption, Zenon
  <1>2. ValueOf(S) = f[Width]
    BY Zenon DEF ValueOf, Sums, Weight
  <1> QED  BY <1>1, <1>2, Zenon

-----------------------------------------------------------------------------
\* Powers of two: they are at least 1, and twice as large from bit to bit.
LEMMA PowerPositive ==
  ASSUME NEW k \in 0..Width
  PROVE  2^k \in Nat /\ 2^k >= 1
  <1> DEFINE Bad == {n \in 0..Width : ~(2^n >= 1)}
  <1>0. \A n \in 0..Width : 2^n \in Nat
    BY PowerAssumption, Zenon
  <1> SUFFICES ASSUME Bad # {} PROVE FALSE
    BY <1>0
  <1>1. PICK m \in Bad : \A n \in Bad : m <= n
    <2>1. Bad \subseteq Nat
      BY WidthAssumption
    <2> HIDE DEF Bad
    <2> QED  BY <2>1, LeastIndex
  <1>2. m \in 0..Width /\ m \in Nat
    BY WidthAssumption
  <1>3. ASSUME m = 0 PROVE FALSE
    <2>1. 2^0 = 1
      OBVIOUS
    <2>2. 2^m = 1
      BY <1>3, <2>1, Zenon
    <2> QED  BY <2>2
  <1>4. m - 1 \in 0..Width /\ (m - 1) + 1 = m
    BY <1>2, <1>3, WidthAssumption
  <1>5. 2^(m - 1) >= 1
    <2>1. m - 1 \notin Bad
      BY <1>1, <1>2, <1>4
    <2> QED  BY <1>4, <2>1
  <1>6. 2^m = 2 * 2^(m - 1)
    BY <1>4, PowerAssumption
  <1> QED  BY <1>0, <1>1, <1>2, <1>4, <1>5, <1>6

LEMMA PowersGrow ==
  ASSUME NEW k \in 0..Width, NEW j \in 0..Width, k < j
  PROVE  2^(k + 1) <= 2^j /\ 2^(k + 1) = 2 * 2^k
  <1> DEFINE Bad == {n \in 0..Width : k < n /\ ~(2^(k + 1) <= 2^n)}
  <1>0. 2^(k + 1) = 2 * 2^k
    BY PowerAssumption
  <1> SUFFICES ASSUME Bad # {} PROVE FALSE
    BY <1>0
  <1>1. PICK m \in Bad : \A n \in Bad : m <= n
    <2>1. Bad \subseteq Nat
      BY WidthAssumption
    <2> HIDE DEF Bad
    <2> QED  BY <2>1, LeastIndex
  <1>2. m \in 0..Width /\ m \in Nat /\ k < m /\ ~(2^(k + 1) <= 2^m)
    BY WidthAssumption
  <1>3. 2^m \in Nat
    BY <1>2, PowerPositive
  <1>4. CASE m = k + 1
    BY <1>2, <1>3, <1>4
  <1>5. CASE m # k + 1
    <2>1. m - 1 \in 0..Width /\ (m - 1) + 1 = m /\ k < m - 1
      BY <1>2, <1>5, WidthAssumption
    <2>2. m - 1 \notin Bad
      BY <1>1, <1>2
    <2>3. 2^(k + 1) <= 2^(m - 1)
      BY <2>1, <2>2
    <2>4. 2^m = 2 * 2^(m - 1) /\ 2^(m - 1) \in Nat
      BY <2>1, PowerAssumption
    <2>5. k + 1 \in 0..Width /\ 2^(k + 1) \in Nat
      <3>1. k + 1 \in 0..Width
        BY <1>2, WidthAssumption
      <3> QED  BY <3>1, PowerPositive
    <2> QED  BY <1>2, <1>3, <2>3, <2>4, <2>5
  <1> QED  BY <1>4, <1>5

LEMMA SizeMaxNat ==
  SizeMax \in Nat /\ SizeMax >= 1 /\ SizeMax + 1 = 2^Width
  <1>1. 0 \in 0..Width /\ Width \in 0..Width /\ 0 < Width
    BY WidthAssumption
  <1>2. 2^0 = 1
    OBVIOUS
  <1>3. 2^(0 + 1) = 2 * 2^0
    BY <1>1, PowerAssumption
  <1>4. 2^(0 + 1) <= 2^Width
    BY <1>1, PowersGrow
  <1>5. 2^Width \in Nat
    BY <1>1, PowerPositive
  <1> QED  BY <1>2, <1>3, <1>4, <1>5 DEF SizeMax

\* The bits below bit k are worth less than bit k.
LEMMA SumBound ==
  ASSUME NEW S, NEW f, Sums(S, Width, f), NEW k \in 0..Width
  PROVE  f[k] \in Nat /\ f[k] < 2^k
  <1> DEFINE Bad == {n \in 0..Width : ~(f[n] \in Nat /\ f[n] < 2^n)}
  <1> SUFFICES ASSUME Bad # {} PROVE FALSE
    OBVIOUS
  <1>1. PICK m \in Bad : \A n \in Bad : m <= n
    <2>1. Bad \subseteq Nat
      BY WidthAssumption
    <2> HIDE DEF Bad
    <2> QED  BY <2>1, LeastIndex
  <1>2. m \in 0..Width /\ m \in Nat
    BY WidthAssumption
  <1>3. f[m] = IF m = 0 THEN 0 ELSE f[m - 1] + Weight(S, m - 1)
    BY <1>2, Zenon DEF Sums
  <1>4. CASE m = 0
    <2>1. 2^0 = 1
      OBVIOUS
    <2> QED  BY <1>3, <1>4, <2>1
  <1>5. CASE m # 0
    <2>1. m - 1 \in 0..Width /\ (m - 1) + 1 = m
      BY <1>2, <1>5, WidthAssumption
    <2>2. m - 1 \notin Bad
      BY <1>1, <1>2
    <2>3. f[m - 1] \in Nat /\ f[m - 1] < 2^(m - 1)
      BY <2>1, <2>2
    <2>4. 2^m = 2 * 2^(m - 1) /\ 2^(m - 1) \in Nat
      BY <2>1, PowerAssumption
    <2>5. Weight(S, m - 1) \in {0, 2^(m - 1)}
      BY DEF Weight
    <2>6. f[m] \in Nat /\ f[m] < 2^m
      BY <1>3, <1>5, <2>3, <2>4, <2>5
    <2> QED  BY <2>6
  <1> QED  BY <1>4, <1>5

\* A set of bits is a Size.
LEMMA ValueInSize ==
  ASSUME NEW S
  PROVE  ValueOf(S) \in Size
  <1>1. PICK f : Sums(S, Width, f) /\ ValueOf(S) = f[Width]
    BY ValueIsSum
  <1>2. f[Width] \in Nat /\ f[Width] < 2^Width
    BY <1>1, SumBound, WidthAssumption
  <1> QED  BY <1>1, <1>2, SizeMaxNat DEF Size

\* The bits up to bit h are worth one less than bit h + 1.
LEMMA ValueOfRun ==
  ASSUME NEW h \in 0..(Width - 1)
  PROVE  ValueOf(0..h) = 2^(h + 1) - 1
  <1>1. PICK f : Sums(0..h, Width, f) /\ ValueOf(0..h) = f[Width]
    BY ValueIsSum
  <1> DEFINE Top(n) == IF n <= h THEN n ELSE h + 1
             Bad    == {n \in 0..Width : f[n] # 2^Top(n) - 1}
  <1> SUFFICES ASSUME Bad # {} PROVE FALSE
    BY <1>1, WidthAssumption
  <1>2. PICK m \in Bad : \A n \in Bad : m <= n
    <2>1. Bad \subseteq Nat
      BY WidthAssumption
    <2> HIDE DEF Bad
    <2> QED  BY <2>1, LeastIndex
  <1>3. m \in 0..Width /\ m \in Nat /\ f[m] # 2^Top(m) - 1
    BY WidthAssumption
  <1>4. f[m] = IF m = 0 THEN 0 ELSE f[m - 1] + Weight(0..h, m - 1)
    BY <1>1, <1>3, Zenon DEF Sums
  <1>5. ASSUME m = 0 PROVE FALSE
    <2>1. 2^0 = 1
      OBVIOUS
    <2>2. Top(m) = 0
      BY <1>5
    <2>3. 2^Top(m) = 1
      BY <2>1, <2>2, Zenon
    <2> HIDE DEF Top
    <2> QED  BY <1>3, <1>4, <1>5, <2>3
  <1>6. m - 1 \in 0..Width /\ (m - 1) + 1 = m
    BY <1>3, <1>5, WidthAssumption
  <1>7. f[m - 1] = 2^Top(m - 1) - 1
    BY <1>2, <1>3, <1>6
  <1>8. CASE m <= h + 1
    <2>1. m - 1 \in 0..h /\ Top(m - 1) = m - 1 /\ Top(m) = m
      BY <1>3, <1>5, <1>8
    <2>2. Weight(0..h, m - 1) = 2^(m - 1)
      BY <2>1 DEF Weight
    <2>3. 2^m = 2 * 2^(m - 1) /\ 2^(m - 1) \in Nat
      BY <1>6, PowerAssumption
    <2>4. f[m] = 2^m - 1
      BY <1>4, <1>5, <1>7, <2>1, <2>2, <2>3
    <2> QED  BY <1>3, <2>1, <2>4
  <1>9. CASE ~(m <= h + 1)
    <2>1. m - 1 \notin 0..h /\ Top(m - 1) = h + 1 /\ Top(m) = h + 1
      BY <1>3, <1>5, <1>9
    <2>2. Weight(0..h, m - 1) = 0
      BY <2>1 DEF Weight
    <2>3. 2^(h + 1) \in Nat
      BY PowerPositive, WidthAssumption
    <2>4. f[m] = 2^(h + 1) - 1
      BY <1>4, <1>5, <1>7, <2>1, <2>2, <2>3
    <2> QED  BY <1>3, <2>1, <2>4
  <1> QED  BY <1>8, <1>9

-----------------------------------------------------------------------------
\* Division by a power of two, where the quotient is 0 or 1.
LEMMA QuotientOne ==
  ASSUME NEW n \in Nat, NEW p \in Nat, p >= 1, p <= n, n < 2 * p
  PROVE  (n \div p) % 2 = 1
  OBVIOUS

LEMMA QuotientZero ==
  ASSUME NEW n \in Nat, NEW p \in Nat, p >= 1, n < p
  PROVE  (n \div p) % 2 = 0
  OBVIOUS

\* A size that is not 0 lies between its highest bit and the next one.
LEMMA HighestBit ==
  ASSUME NEW n \in Size, n >= 1
  PROVE  \E h \in 0..(Width - 1) :
            /\ 2^h <= n /\ n < 2^(h + 1)
            /\ h \in BitsOf(n) /\ BitsOf(n) \subseteq 0..h
  <1>0. n \in Nat /\ n < 2^Width
    BY SizeMaxNat DEF Size
  <1> DEFINE Above == {k \in 0..Width : n < 2^k}
  <1>1. PICK j \in Above : \A k \in Above : j <= k
    <2>1. Above \subseteq Nat
      BY WidthAssumption
    <2>2. Width \in Above
      BY <1>0, WidthAssumption
    <2> HIDE DEF Above
    <2> QED  BY <2>1, <2>2, LeastIndex
  <1>2. j \in 0..Width /\ j \in Nat /\ n < 2^j
    BY WidthAssumption
  <1>3. ASSUME j = 0 PROVE FALSE
    <2>1. 2^0 = 1
      OBVIOUS
    <2>2. 2^j = 1
      BY <1>3, <2>1, Zenon
    <2> QED  BY <1>0, <1>2, <2>2
  <1> DEFINE h == j - 1
  <1>4. h \in 0..(Width - 1) /\ h \in 0..Width /\ h + 1 = j /\ h \in Nat
    BY <1>2, <1>3, WidthAssumption
  <1>5. h \notin Above
    BY <1>1, <1>2
  <1>6. 2^h \in Nat /\ 2^h >= 1
    BY <1>4, PowerPositive
  <1>7. 2^h <= n
    BY <1>0, <1>4, <1>5, <1>6
  <1>8. 2^(h + 1) = 2 * 2^h
    BY <1>4, PowerAssumption
  <1> HIDE DEF h
  <1>9. n < 2^(h + 1)
    BY <1>2, <1>4
  <1>10. h \in BitsOf(n)
    <2>1. (n \div 2^h) % 2 = 1
      BY <1>0, <1>6, <1>7, <1>8, <1>9, QuotientOne
    <2> QED  BY <1>4, <2>1 DEF BitsOf
  <1>11. ASSUME NEW k \in BitsOf(n) PROVE k \in 0..h
    <2>1. k \in 0..(Width - 1) /\ (n \div 2^k) % 2 = 1
      BY DEF BitsOf
    <2>2. k \in 0..Width /\ k \in Nat
      BY <2>1, WidthAssumption
    <2>3. CASE k <= h
      BY <2>2, <2>3, <1>4
    <2>4. CASE ~(k <= h)
      <3>1. h < k
        BY <2>2, <2>4, <1>4
      <3>2. 2^k \in Nat /\ 2^k >= 1 /\ 2^(h + 1) <= 2^k
        BY <2>2, <3>1, <1>4, PowerPositive, PowersGrow
      <3>3. n < 2^k
        BY <1>0, <1>6, <1>8, <1>9, <3>2
      <3>4. (n \div 2^k) % 2 = 0
        BY <1>0, <3>2, <3>3, QuotientZero
      <3> QED  BY <2>1, <3>4
    <2> QED  BY <2>3, <2>4
  <1> QED  BY <1>4, <1>7, <1>9, <1>10, <1>11

\* S has no bit above h, and the w bits from h down.
Covers(S, h, w) == S \subseteq 0..h /\ \A b \in 0..h : b > h - w => b \in S

\* A shift by at most as many bits as there are adds them.
LEMMA SmearCovers ==
  ASSUME NEW S, NEW h \in Nat, NEW w \in Nat, NEW k \in Nat, k <= w, Covers(S, h, w),
         NEW v \in Nat, v = w + k
  PROVE  Covers(Smear(S, k), h, v)
  <1>1. ASSUME NEW b \in Smear(S, k) PROVE b \in 0..h
    <2>1. CASE b \in S
      BY <2>1 DEF Covers
    <2>2. CASE b \notin S
      <3>1. PICK c \in S : c >= k /\ b = c - k
        BY <2>2 DEF Smear
      <3>2. c \in 0..h
        BY DEF Covers
      <3> QED  BY <3>1, <3>2
    <2> QED  BY <2>1, <2>2
  <1>2. ASSUME NEW b \in 0..h, b > h - v PROVE b \in Smear(S, k)
    <2>1. CASE b > h - w
      BY <2>1 DEF Covers, Smear
    <2>2. CASE ~(b > h - w)
      <3>1. b + k \in 0..h /\ b + k > h - w
        BY <1>2, <2>2
      <3>2. b + k \in S /\ b + k >= k /\ (b + k) - k = b
        BY <3>1 DEF Covers
      <3> QED  BY <3>2 DEF Smear
    <2> QED  BY <2>1, <2>2
  <1> QED  BY <1>1, <1>2 DEF Covers

LEMMA CoversAll ==
  ASSUME NEW S, NEW h \in Nat, NEW w \in Nat, h < w, Covers(S, h, w)
  PROVE  S = 0..h
  <1>1. ASSUME NEW b \in 0..h PROVE b \in S
    <2>1. b > h - w
      OBVIOUS
    <2> QED  BY <2>1 DEF Covers
  <1> QED  BY <1>1 DEF Covers

\* The shifts fill every bit below the highest one: 32 of them, and then half
\* the width.
LEMMA SmearedIsRun ==
  ASSUME Width <= 64, NEW n, NEW h \in 0..(Width - 1),
         h \in BitsOf(n), BitsOf(n) \subseteq 0..h
  PROVE  Smeared(n) = ValueOf(0..h)
  <1> DEFINE c1 == Smear(BitsOf(n), 1)
             c2 == Smear(c1, 2)
             c3 == Smear(c2, 4)
             c4 == Smear(c3, 8)
             c5 == Smear(c4, 16)
             half == Width \div 2
             c6 == Smear(c5, half)
  <1>0. h \in Nat
    BY WidthAssumption
  <1>1. Covers(BitsOf(n), h, 1)
    BY <1>0 DEF Covers
  <1>a. /\ 1 \in Nat /\ 2 \in Nat /\ 4 \in Nat /\ 8 \in Nat /\ 16 \in Nat /\ 32 \in Nat
        /\ 1 <= 1 /\ 2 <= 2 /\ 4 <= 4 /\ 8 <= 8 /\ 16 <= 16
        /\ 2 = 1 + 1 /\ 4 = 2 + 2 /\ 8 = 4 + 4 /\ 16 = 8 + 8 /\ 32 = 16 + 16
    OBVIOUS
  <1>2. Covers(c1, h, 2)
    BY <1>0, <1>a, <1>1, SmearCovers, Zenon
  <1> HIDE DEF c1
  <1>3. Covers(c2, h, 4)
    BY <1>0, <1>a, <1>2, SmearCovers, Zenon
  <1> HIDE DEF c2
  <1>4. Covers(c3, h, 8)
    BY <1>0, <1>a, <1>3, SmearCovers, Zenon
  <1> HIDE DEF c3
  <1>5. Covers(c4, h, 16)
    BY <1>0, <1>a, <1>4, SmearCovers, Zenon
  <1> HIDE DEF c4
  <1>6. Covers(c5, h, 32)
    BY <1>0, <1>a, <1>5, SmearCovers, Zenon
  <1> HIDE DEF c5
  <1>7. half \in Nat /\ half <= 32 /\ 32 + half \in Nat /\ h < 32 + half
    BY WidthAssumption
  <1>8. Covers(c6, h, 32 + half)
    <2> HIDE DEF half
    <2> QED  BY <1>0, <1>a, <1>6, <1>7, SmearCovers, Zenon
  <1>9. c6 = 0..h
    <2> HIDE DEF c6, half
    <2> QED  BY <1>0, <1>7, <1>8, CoversAll
  <1>10. Smeared(n) = ValueOf(c6)
    BY Zenon DEF Smeared, c1, c2, c3, c4, c5, c6, half
  <1> QED  BY <1>9, <1>10, Zenon

-----------------------------------------------------------------------------
\* Whatever the shifts do, the result is a Size and not 0.
LEMMA RoundedInSize ==
  ASSUME NEW n
  PROVE  nextPowerOf2ClampedToMax(n) \in 1..SizeMax
  <1>1. Smeared(n - 1) \in Size
    BY ValueInSize, Zenon DEF Smeared
  <1> QED  BY <1>1, SizeMaxNat DEF nextPowerOf2ClampedToMax, Size

\* What the rounding returns for a request of at least 2, by its highest bit.
LEMMA RoundedByBit ==
  ASSUME Width <= 64, NEW n \in Size, n >= 2
  PROVE  \E h \in 0..(Width - 1) :
            /\ 2^h < n /\ n <= 2^(h + 1)
            /\ nextPowerOf2ClampedToMax(n) =
                 IF h = Width - 1 THEN SizeMax ELSE 2^(h + 1)
  <1>1. n - 1 \in Size /\ n - 1 >= 1 /\ n \in Nat
    BY SizeMaxNat DEF Size
  <1>2. PICK h \in 0..(Width - 1) :
            /\ 2^h <= n - 1 /\ n - 1 < 2^(h + 1)
            /\ h \in BitsOf(n - 1) /\ BitsOf(n - 1) \subseteq 0..h
    BY <1>1, HighestBit
  <1>3. Smeared(n - 1) = 2^(h + 1) - 1
    BY <1>2, SmearedIsRun, ValueOfRun
  <1>4. h \in 0..Width /\ h + 1 \in 0..Width /\ Width \in 0..Width
    BY WidthAssumption
  <1>5. 2^h \in Nat /\ 2^(h + 1) \in Nat
    BY <1>4, PowerPositive
  <1>6. 2^h < n /\ n <= 2^(h + 1)
    BY <1>1, <1>2, <1>5
  <1>7. CASE h = Width - 1
    <2>1. h + 1 = Width
      BY <1>7, WidthAssumption
    <2>2. Smeared(n - 1) = SizeMax
      BY <1>3, <2>1 DEF SizeMax
    <2>3. nextPowerOf2ClampedToMax(n) = SizeMax
      BY <1>1, <2>2 DEF nextPowerOf2ClampedToMax
    <2> QED  BY <1>6, <1>7, <2>3
  <1>8. CASE h # Width - 1
    <2>1. h + 1 < Width
      BY <1>8, WidthAssumption
    <2>2. 2^((h + 1) + 1) <= 2^Width /\ 2^((h + 1) + 1) = 2 * 2^(h + 1)
      BY <1>4, <2>1, PowersGrow
    <2>3. 2^(h + 1) >= 1
      BY <1>4, PowerPositive
    <2>4. Smeared(n - 1) # SizeMax
      BY <1>3, <1>5, <2>2, <2>3, SizeMaxNat
    <2>5. nextPowerOf2ClampedToMax(n) = 2^(h + 1)
      BY <1>1, <1>3, <1>5, <2>4 DEF nextPowerOf2ClampedToMax
    <2> QED  BY <1>6, <1>8, <2>5
  <1> QED  BY <1>7, <1>8

\* Requests are sizes, and the capacity is that of the request.
RoundingInv == request \in Size /\ capacity = nextPowerOf2ClampedToMax(request)

\* For every size of up to 64 bits, the rounded capacity is the least power of
\* two that holds the request, or SIZE_MAX where there is none
\* (ByteBuffer.cpp:35-51).
THEOREM RoundingCorrect ==
  ASSUME Width <= 64
  PROVE  RoundingSpec => []LeastPowerOrMax
  <1>1. RoundingInit => RoundingInv
    BY SizeMaxNat DEF RoundingInit, RoundingInv, Size
  <1>2. RoundingInv /\ [Ask]_rounding => RoundingInv'
    BY SizeMaxNat DEF RoundingInv, Ask, rounding, Size
  <1>3. RoundingInv => LeastPowerOrMax
    <2> SUFFICES ASSUME RoundingInv PROVE LeastPowerOrMax
      OBVIOUS
    <2>0. request \in Size /\ request \in Nat /\ SizeMax \in Nat
      BY SizeMaxNat DEF RoundingInv, Size
    <2>1. Width - 1 \in 0..Width /\ 0 \in 0..(Width - 1) /\ 2^0 = 1
      BY WidthAssumption
    <2>2. \A k \in 0..(Width - 1) : k \in 0..Width /\ 2^k \in Nat /\ 2^k >= 1
      <3>1. \A k \in 0..(Width - 1) : k \in 0..Width
        BY WidthAssumption
      <3> QED  BY <3>1, PowerPositive
    <2>3. CASE request <= 1
      <3>1. capacity = 1
        BY <2>3 DEF RoundingInv, nextPowerOf2ClampedToMax
      <3>2. IsPowerOf2(capacity)
        BY <2>1, <3>1 DEF IsPowerOf2
      <3>3. Width - 1 \in 0..(Width - 1)
        BY WidthAssumption
      <3>4. 2^(Width - 1) \in Nat /\ 2^(Width - 1) >= 1
        BY <2>2, <3>3
      <3> QED  BY <2>0, <2>2, <2>3, <3>1, <3>2, <3>4 DEF LeastPowerOrMax
    <2>4. CASE ~(request <= 1)
      <3>1. request >= 2
        BY <2>0, <2>4
      <3>2. PICK h \in 0..(Width - 1) :
               /\ 2^h < request /\ request <= 2^(h + 1)
               /\ capacity = IF h = Width - 1 THEN SizeMax ELSE 2^(h + 1)
        BY <2>0, <3>1, RoundedByBit DEF RoundingInv
      <3>3. CASE h = Width - 1
        <4>1. capacity = SizeMax /\ request > 2^(Width - 1)
          BY <3>2, <3>3, <2>0, <2>2
        <4>2. capacity >= request
          BY <2>0, <4>1 DEF Size
        <4>3. 2^(Width - 1) \in Nat
          BY <2>1, PowerPositive
        <4> QED  BY <2>0, <4>1, <4>2, <4>3 DEF LeastPowerOrMax
      <3>4. CASE h # Width - 1
        <4>1. capacity = 2^(h + 1)
          BY <3>2, <3>4
        <4>2. h + 1 \in 0..(Width - 1) /\ h \in 0..Width /\ h < Width - 1
          BY <3>4, WidthAssumption
        <4>3. 2^(h + 1) \in Nat /\ 2^(h + 1) <= 2^(Width - 1) /\ 2^(Width - 1) \in Nat
          BY <2>1, <2>2, <4>2, PowersGrow, PowerPositive
        <4>4. IsPowerOf2(capacity)
          BY <4>1, <4>2 DEF IsPowerOf2
        <4>5. ASSUME NEW k \in 0..(Width - 1), 2^k >= request
              PROVE  2^k >= capacity
          <5>1. k \in 0..Width /\ 2^k \in Nat /\ 2^h \in Nat
            BY <2>2
          <5>2. ~(k <= h)
            <6>1. CASE k = h
              BY <6>1, <5>1, <4>5, <3>2, <2>0
            <6>2. CASE k < h
              <7>1. 2^(k + 1) <= 2^h /\ 2^(k + 1) = 2 * 2^k
                BY <5>1, <4>2, <6>2, PowersGrow
              <7> QED  BY <7>1, <5>1, <4>5, <3>2, <2>0
            <6> QED  BY <6>1, <6>2, <5>1, <4>2
          <5>3. h < k
            BY <5>1, <5>2, <4>2, WidthAssumption
          <5>4. 2^(h + 1) <= 2^k
            BY <5>1, <5>3, <4>2, PowersGrow
          <5> QED  BY <4>1, <5>4, <4>3, <5>1
        <4>6. capacity >= request /\ ~(request > 2^(Width - 1))
          BY <3>2, <4>1, <4>3, <2>0
        <4> QED  BY <4>4, <4>5, <4>6 DEF LeastPowerOrMax
      <3> QED  BY <3>3, <3>4
    <2> QED  BY <2>3, <2>4
  <1> QED  BY <1>1, <1>2, <1>3, PTL DEF RoundingSpec

-----------------------------------------------------------------------------
(***************************************************************************)
(* Blocks: what the operations of ByteBufferStorage make of them.           *)
(***************************************************************************)
LEMMA BlockIsSeq ==
  ASSUME NEW d
  PROVE  d \in Blocks <=> d \in Seq(Contents) /\ Len(d) \in Size
  <1>1. ASSUME d \in Blocks PROVE d \in Seq(Contents) /\ Len(d) \in Size
    <2>1. PICK n \in Size : d \in [1..n -> Contents]
      BY <1>1 DEF Blocks
    <2>2. n \in Nat
      BY SizeMaxNat DEF Size
    <2> QED  BY <2>1, <2>2
  <1>2. ASSUME d \in Seq(Contents), Len(d) \in Size PROVE d \in Blocks
    <2>1. d \in [1..Len(d) -> Contents]
      BY <1>2
    <2> QED  BY <1>2, <2>1 DEF Blocks
  <1> QED  BY <1>1, <1>2

LEMMA EmptyBlock ==
  <<>> \in Blocks /\ <<>> \in Seq(Contents) /\ Len(<<>>) = 0
  <1>1. <<>> \in Seq(Contents) /\ Len(<<>>) = 0
    BY EmptySeq
  <1>2. 0 \in Size
    BY SizeMaxNat DEF Size
  <1> QED  BY <1>1, <1>2, BlockIsSeq

LEMMA FunctionBlock ==
  ASSUME NEW n \in Size, NEW d \in [1..n -> Contents]
  PROVE  d \in Blocks /\ d \in Seq(Contents) /\ Len(d) = n
  <1>1. n \in Nat
    BY SizeMaxNat DEF Size
  <1> QED  BY <1>1, BlockIsSeq DEF Blocks

LEMMA BlockLen ==
  ASSUME NEW d \in Blocks
  PROVE  /\ d \in Seq(Contents) /\ Len(d) \in Size /\ Len(d) \in Nat /\ Len(d) <= SizeMax
         /\ d \in [1..Len(d) -> Contents]
         /\ d = <<>> <=> Len(d) = 0
  <1>1. d \in Seq(Contents) /\ Len(d) \in Size
    BY BlockIsSeq
  <1>2. d \in [1..Len(d) -> Contents] /\ (d = <<>> <=> Len(d) = 0)
    BY <1>1
  <1> QED  BY <1>1, <1>2, SizeMaxNat DEF Size

LEMMA FreshBlock ==
  ASSUME NEW n \in Size
  PROVE  Fresh(n) \in Blocks /\ Len(Fresh(n)) = n
  <1>1. Fresh(n) \in [1..n -> Contents]
    BY DEF Fresh, Contents
  <1> QED  BY <1>1, FunctionBlock

LEMMA GrownBlock ==
  ASSUME NEW d \in Blocks, NEW n \in Size, Len(d) <= n
  PROVE  /\ Grown(d, n) \in Blocks /\ Len(Grown(d, n)) = n
         /\ \A i \in 1..Len(d) : Grown(d, n)[i] = d[i]
  <1>1. Grown(d, n) \in [1..n -> Contents]
    BY BlockLen DEF Grown, Contents
  <1>2. \A i \in 1..Len(d) : Grown(d, n)[i] = d[i]
    BY BlockLen, SizeMaxNat DEF Grown, Size
  <1> QED  BY <1>1, <1>2, FunctionBlock

LEMMA OverwrittenBlock ==
  ASSUME NEW d \in Blocks, NEW bs \in Seq(Contents), NEW at \in Nat
  PROVE  /\ Overwritten(d, bs, at) \in Blocks
         /\ Len(Overwritten(d, bs, at)) = Len(d)
         /\ \A i \in 1..Len(d) : i <= at => Overwritten(d, bs, at)[i] = d[i]
         /\ \A i \in 1..Len(bs) : at + i <= Len(d) => Overwritten(d, bs, at)[at + i] = bs[i]
         /\ \A i \in 1..Len(d) : i > at + Len(bs) => Overwritten(d, bs, at)[i] = d[i]
  <1>0. Len(d) \in Nat /\ Len(bs) \in Nat /\ d \in [1..Len(d) -> Contents]
    BY BlockLen
  <1>1. ASSUME NEW i \in 1..Len(d), i \in (at + 1)..(at + Len(bs))
        PROVE  bs[i - at] \in Contents
    <2>1. i - at \in 1..Len(bs)
      BY <1>0, <1>1
    <2> QED  BY <2>1
  <1>2. Overwritten(d, bs, at) \in [1..Len(d) -> Contents]
    BY <1>0, <1>1 DEF Overwritten
  <1>3. Overwritten(d, bs, at) \in Blocks /\ Len(Overwritten(d, bs, at)) = Len(d)
    BY <1>2, BlockLen, FunctionBlock
  <1>4. ASSUME NEW i \in 1..Len(d), i <= at \/ i > at + Len(bs)
        PROVE  Overwritten(d, bs, at)[i] = d[i]
    BY <1>0, <1>4 DEF Overwritten
  <1>5. ASSUME NEW i \in 1..Len(bs), at + i <= Len(d)
        PROVE  Overwritten(d, bs, at)[at + i] = bs[i]
    <2>1. at + i \in 1..Len(d) /\ at + i \in (at + 1)..(at + Len(bs)) /\ (at + i) - at = i
      BY <1>0, <1>5
    <2>2. Overwritten(d, bs, at)[at + i] = bs[(at + i) - at]
      BY <2>1, Zenon DEF Overwritten
    <2> QED  BY <2>1, <2>2
  <1> QED  BY <1>3, <1>4, <1>5

\* reserve keeps the bytes, and makes room if it succeeds.
LEMMA ReserveKeeps ==
  ASSUME NEW d \in Blocks, NEW needed \in Size, NEW r \in Reserved(d, needed)
  PROVE  /\ r.ok \in BOOLEAN
         /\ r.d \in Blocks /\ Len(d) <= Len(r.d)
         /\ \A i \in 1..Len(d) : r.d[i] = d[i]
         /\ r.ok => needed <= Len(r.d)
         /\ Fits(d, needed) => r.ok /\ r.d = d
  <1> DEFINE n == nextPowerOf2ClampedToMax(needed)
  <1>1. n \in Size /\ n \in Nat /\ needed \in Nat
    BY RoundedInSize, SizeMaxNat DEF Size
  <1>2. Len(d) \in Nat /\ (d = <<>> <=> Len(d) = 0)
    BY BlockLen
  <1>3. CASE Fits(d, needed)
    <2>1. r = [ok |-> TRUE, d |-> d]
      BY <1>3 DEF Reserved
    <2> QED  BY <1>2, <1>3, <2>1 DEF Fits
  <1>4. CASE ~Fits(d, needed) /\ n < needed
    <2>1. r = [ok |-> FALSE, d |-> d]
      BY <1>4 DEF Reserved
    <2> QED  BY <1>2, <1>4, <2>1
  <1>5. CASE ~Fits(d, needed) /\ ~(n < needed)
    <2>1. r \in {[ok |-> TRUE, d |-> Grown(d, n)], [ok |-> FALSE, d |-> d]}
      BY <1>5 DEF Reserved
    <2>2. Len(d) <= n
      BY <1>1, <1>2, <1>5 DEF Fits
    <2> HIDE DEF n
    <2>3. /\ Grown(d, n) \in Blocks /\ Len(Grown(d, n)) = n
          /\ \A i \in 1..Len(d) : Grown(d, n)[i] = d[i]
      BY <1>1, <2>2, GrownBlock
    <2>4. CASE r = [ok |-> TRUE, d |-> Grown(d, n)]
      BY <1>1, <1>2, <1>5, <2>2, <2>3, <2>4
    <2>5. CASE r = [ok |-> FALSE, d |-> d]
      BY <1>2, <1>5, <2>5
    <2> QED  BY <2>1, <2>4, <2>5
  <1> QED  BY <1>3, <1>4, <1>5

\* An index within the sizes does not wrap.
LEMMA NoWrap ==
  ASSUME NEW i \in Nat, NEW n \in Nat, i + n <= SizeMax
  PROVE  ForwardBy(i, n) = i + n /\ i + n \in Size
  BY SizeMaxNat DEF ForwardBy, Size

\* setBytes writes everything, where the block has room for it then, or nothing.
\* Bytes before the index stay.
LEMMA SetBytesKeeps ==
  ASSUME NEW d \in Blocks, NEW bs \in Seq(Contents), NEW at \in Size,
         NEW r \in SetBytes(d, bs, at)
  PROVE  /\ r.d \in Blocks /\ Len(d) <= Len(r.d)
         /\ r.n \in {0, Len(bs)}
         /\ r.n = 0 => r.d = d
         /\ r.n # 0 => at + r.n <= Len(r.d)
         /\ \A i \in 1..Len(d) : i <= at => r.d[i] = d[i]
         /\ r.n # 0 => \A i \in 1..Len(bs) : r.d[at + i] = bs[i]
         /\ d # <<>> /\ bs # <<>> /\ at + Len(bs) <= Len(d) =>
              r.n = Len(bs) /\ Len(r.d) = Len(d)
  <1>0. /\ at \in Nat /\ SizeMax \in Nat /\ Len(bs) \in Nat
        /\ Len(d) \in Nat /\ Len(d) <= SizeMax
        /\ bs = <<>> <=> Len(bs) = 0
    BY BlockLen, SizeMaxNat DEF Size
  <1>1. CASE bs = <<>> \/ at > SizeMax - Len(bs)
    <2>1. r = [d |-> d, n |-> 0]
      BY <1>1 DEF SetBytes
    <2> QED  BY <1>0, <1>1, <2>1
  <1>2. CASE ~(bs = <<>> \/ at > SizeMax - Len(bs))
    <2>1. PICK v \in Reserved(d, ForwardBy(at, Len(bs))) :
             r = IF v.ok THEN [d |-> Overwritten(v.d, bs, at), n |-> Len(bs)]
                         ELSE [d |-> d, n |-> 0]
      BY <1>2 DEF SetBytes
    <2>2. ForwardBy(at, Len(bs)) = at + Len(bs) /\ at + Len(bs) \in Size
      BY <1>0, <1>2, NoWrap
    <2>3. /\ v.ok \in BOOLEAN
          /\ v.d \in Blocks /\ Len(d) <= Len(v.d)
          /\ \A i \in 1..Len(d) : v.d[i] = d[i]
          /\ v.ok => at + Len(bs) <= Len(v.d)
          /\ Fits(d, at + Len(bs)) => v.ok /\ v.d = d
      <3>1. v \in Reserved(d, at + Len(bs))
        BY <2>2
      <3> QED  BY <2>2, <3>1, ReserveKeeps
    <2>4. CASE ~v.ok
      <3>1. r = [d |-> d, n |-> 0]
        BY <2>1, <2>4
      <3> QED  BY <1>0, <2>3, <2>4, <3>1 DEF Fits
    <2>5. CASE v.ok
      <3> DEFINE o == Overwritten(v.d, bs, at)
      <3>1. r.d = o /\ r.n = Len(bs)
        BY <2>1, <2>5
      <3>2. Len(v.d) \in Nat
        BY <2>3, BlockLen
      <3>3. /\ o \in Blocks /\ Len(o) = Len(v.d)
            /\ \A i \in 1..Len(v.d) : i <= at => o[i] = v.d[i]
            /\ \A i \in 1..Len(bs) : at + i <= Len(v.d) => o[at + i] = bs[i]
        <4>1. v.d \in Blocks /\ at \in Nat
          BY <1>0, <2>3
        <4> QED  BY <4>1, OverwrittenBlock, ZenonT(30)
      <3> HIDE DEF o
      <3>4. \A i \in 1..Len(d) : i <= at => o[i] = d[i]
        BY <1>0, <2>3, <3>2, <3>3
      <3>5. \A i \in 1..Len(bs) : o[at + i] = bs[i]
        BY <1>0, <2>3, <2>5, <3>2, <3>3
      <3>6. d # <<>> /\ bs # <<>> /\ at + Len(bs) <= Len(d) => Len(o) = Len(d)
        BY <2>3, <3>3 DEF Fits
      <3>7. Len(d) <= Len(o) /\ at + Len(bs) <= Len(o) /\ Len(bs) # 0
        BY <1>0, <1>2, <2>3, <2>5, <3>3
      <3> QED  BY <3>1, <3>3, <3>4, <3>5, <3>6, <3>7
    <2> QED  BY <2>3, <2>4, <2>5
  <1> QED  BY <1>1, <1>2

\* SubSeq of a block, within it.
LEMMA PartOfBlock ==
  ASSUME NEW d \in Blocks, NEW from \in Nat, NEW n \in Nat, from + n <= Len(d)
  PROVE  LET p == SubSeq(d, from + 1, from + n) IN
         /\ p \in Seq(Contents) /\ p \in Blocks /\ Len(p) = n
         /\ \A i \in 1..n : p[i] = d[from + i]
  <1> DEFINE p == SubSeq(d, from + 1, from + n)
  <1>0. Len(d) \in Nat /\ d \in [1..Len(d) -> Contents] /\ Len(d) <= SizeMax /\ SizeMax \in Nat
    BY BlockLen, SizeMaxNat
  <1>1. ASSUME NEW i \in (from + 1)..(from + n) PROVE d[i] \in Contents
    <2>1. i \in 1..Len(d)
      BY <1>0
    <2> QED  BY <1>0, <2>1, Zenon
  <1>2. from + 1 \in Int /\ from + n \in Int
    OBVIOUS
  <1>3. /\ p \in Seq(Contents)
        /\ Len(p) = IF from + 1 <= from + n THEN (from + n) - (from + 1) + 1 ELSE 0
        /\ \A i \in 1..((from + n) - (from + 1) + 1) : p[i] = d[(from + 1) + i - 1]
    BY <1>1, <1>2, SubSeqProperties, SMTT(30)
  <1> HIDE DEF p
  <1>4. Len(p) = n
    BY <1>3
  <1>5. ASSUME NEW i \in 1..n PROVE p[i] = d[from + i]
    <2>1. i \in 1..((from + n) - (from + 1) + 1) /\ (from + 1) + i - 1 = from + i
      OBVIOUS
    <2> QED  BY <1>3, <2>1
  <1>6. p \in Blocks
    <2>1. Len(p) \in Size
      BY <1>0, <1>4 DEF Size
    <2> QED  BY <1>3, <2>1, BlockIsSeq
  <1> QED  BY <1>3, <1>4, <1>5, <1>6 DEF p

LEMMA PartInBlock ==
  ASSUME NEW d \in Blocks, NEW from \in Nat, NEW to \in Nat, from <= to,
         to <= Len(d) \/ d = <<>>
  PROVE  /\ Part(d, from, to) \in Blocks /\ Part(d, from, to) \in Seq(Contents)
         /\ d = <<>> => Part(d, from, to) = <<>>
         /\ d # <<>> => Len(Part(d, from, to)) = to - from
         /\ d # <<>> => \A i \in 1..(to - from) : Part(d, from, to)[i] = d[from + i]
  <1>1. CASE d = <<>>
    BY <1>1, EmptyBlock DEF Part
  <1>2. CASE d # <<>>
    <2>1. to - from \in Nat /\ from + (to - from) = to /\ from + (to - from) <= Len(d)
      BY <1>2, BlockLen
    <2> DEFINE n == to - from
               p == SubSeq(d, from + 1, from + n)
    <2>2. Part(d, from, to) = p
      BY <1>2, <2>1 DEF Part
    <2>3. n \in Nat /\ from + n <= Len(d)
      BY <2>1
    <2> HIDE DEF n
    <2>4. /\ p \in Seq(Contents) /\ p \in Blocks /\ Len(p) = n
          /\ \A i \in 1..n : p[i] = d[from + i]
      BY <2>3, PartOfBlock
    <2> HIDE DEF p
    <2> QED  BY <1>2, <2>2, <2>4 DEF n
  <1> QED  BY <1>1, <1>2

-----------------------------------------------------------------------------
(***************************************************************************)
(* Sharing.                                                                 *)
(***************************************************************************)
Stores == [Buffers -> Storages \cup {None}]

\* A buffer without a block, or with a shared one, leaves an address free.
LEMMA FreeAddress ==
  ASSUME store \in Stores, NEW x \in Buffers, store[x] = None \/ IsShared(x)
  PROVE  /\ (CHOOSE s \in Storages : ~Referenced(store, s)) \in Storages
         /\ \A z \in Buffers : store[z] # (CHOOSE s \in Storages : ~Referenced(store, s))
  <1> DEFINE Others == Buffers \ {x}
  <1>1. \E s \in Storages : ~Referenced(store, s)
    <2> SUFFICES ASSUME \A s \in Storages : Referenced(store, s) PROVE FALSE
      OBVIOUS
    <2>1. ASSUME NEW s \in Storages PROVE \E z \in Others : store[z] = s
      <3>1. PICK y \in Buffers : store[y] = s
        BY Zenon DEF Referenced
      <3>2. CASE y # x
        BY <3>1, <3>2
      <3>3. CASE y = x
        <4>1. store[x] # None
          BY <3>1, <3>3, JunkAssumption
        <4>2. PICK z \in Buffers \ {x} : store[z] = store[x]
          BY <4>1, Zenon DEF IsShared
        <4> QED  BY <3>1, <3>3, <4>2
      <3> QED  BY <3>2, <3>3
    <2> DEFINE f == [s \in Storages |-> CHOOSE z \in Others : store[z] = s]
    <2>2. ASSUME NEW s \in Storages PROVE f[s] \in Others /\ store[f[s]] = s
      BY <2>1, Zenon
    <2>3. f \in [Storages -> Others]
      BY <2>2
    <2>4. /\ IsFiniteSet(Others) /\ Cardinality(Others) = Cardinality(Buffers) - 1
          /\ Cardinality(Buffers) \in Nat /\ Cardinality(Storages) \in Nat
      BY StoragesAssumption, FS_RemoveElement, FS_CardinalityType
    <2>5. Cardinality(Others) < Cardinality(Storages)
      BY <2>4, StoragesAssumption
    <2> HIDE DEF f
    <2>6. PICK s, t \in Storages : s # t /\ f[s] = f[t]
      BY <2>3, <2>4, <2>5, StoragesAssumption, FS_PigeonHole
    <2> QED  BY <2>2, <2>6
  <1> QED  BY <1>1, Zenon DEF Referenced

\* unique() leads to a block that no other buffer refers to, with the same bytes
\* unless the split could not be allocated.
LEMMA UniqueIsOwn ==
  ASSUME TypeOK, NEW x \in Buffers, store[x] # None, NEW u \in Unique(x)
  PROVE  /\ u.s \in Storages /\ u.d \in Blocks
         /\ u.d = Bytes(x) \/ (SplitMayFail /\ u.d = <<>>)
         /\ \A z \in Buffers \ {x} : store[z] # u.s
  <1>0. store \in Stores /\ store[x] \in Storages /\ Bytes(x) \in Blocks
    BY DEF TypeOK, Stores, Bytes
  <1>1. CASE ~IsShared(x)
    <2>1. u = [s |-> store[x], d |-> Bytes(x)]
      BY <1>1 DEF Unique
    <2> QED  BY <1>0, <1>1, <2>1 DEF IsShared
  <1>2. CASE IsShared(x)
    <2> DEFINE s == CHOOSE s \in Storages : ~Referenced(store, s)
    <2>1. s \in Storages /\ \A z \in Buffers : store[z] # s
      BY <1>0, <1>2, FreeAddress
    <2>2. u \in {[s |-> s, d |-> Bytes(x)]}
              \cup (IF SplitMayFail THEN {[s |-> s, d |-> <<>>]} ELSE {})
      BY <1>2, Zenon DEF Unique
    <2> HIDE DEF s
    <2> QED  BY <1>0, <2>1, <2>2, EmptyBlock
  <1> QED  BY <1>1, <1>2

-----------------------------------------------------------------------------
(***************************************************************************)
(* The inductive invariant.  Only a split that could not be allocated       *)
(* leaves a writer cursor above its block, and only that can abort.         *)
(***************************************************************************)
Sits(s, d, r, w) ==
    s # None =>
      /\ r <= w
      /\ w <= Len(d) \/ (SplitMayFail /\ d = <<>>)

Inside == aborted \/ \A x \in Buffers : Sits(store[x], Bytes(x), reader[x], writer[x])

AbortNeedsSplit == aborted => SplitMayFail

BufferInv == TypeOK /\ Inside /\ AbortNeedsSplit

\* Buffer x gets block s with bytes d; the others see nothing of it.
Placed(x, s, d) ==
    /\ store' \in Stores /\ data' \in [Storages -> Blocks]
    /\ store'[x] = s /\ (s # None => data'[s] = d)
    /\ \A z \in Buffers \ {x} :
         store'[z] = store[z] /\ (store[z] # None => data'[store[z]] = data[store[z]])

\* What every operation does: one buffer gets a block and cursors that fit.
Effect(x, s, d, r, w) ==
    /\ Placed(x, s, d)
    /\ r \in Size /\ w \in Size /\ Cursors(x, r, w)
    /\ aborted' \/ Sits(s, d, r, w)
    /\ aborted' \in BOOLEAN /\ (aborted' => SplitMayFail)
    /\ out' \in Blocks

LEMMA EffectKeeps ==
  ASSUME BufferInv, ~aborted, NEW x \in Buffers, NEW s, NEW d, NEW r, NEW w,
         Effect(x, s, d, r, w)
  PROVE  BufferInv'
  <1>1. TypeOK'
    BY DEF Effect, Placed, Cursors, BufferInv, TypeOK, Stores
  <1>2. AbortNeedsSplit'
    BY DEF Effect, AbortNeedsSplit
  <1>3. ASSUME ~aborted', NEW z \in Buffers
        PROVE  Sits(store'[z], data'[store'[z]], reader'[z], writer'[z])
    <2>1. CASE z = x
      <3>1. reader'[z] = r /\ writer'[z] = w /\ store'[z] = s
        BY <2>1 DEF Effect, Placed, Cursors, BufferInv, TypeOK
      <3>2. s # None => data'[store'[z]] = d
        BY <2>1, <3>1 DEF Effect, Placed
      <3> QED  BY <1>3, <3>1, <3>2 DEF Effect, Sits
    <2>2. CASE z # x
      <3>1. reader'[z] = reader[z] /\ writer'[z] = writer[z] /\ store'[z] = store[z]
        BY <2>2 DEF Effect, Placed, Cursors, BufferInv, TypeOK
      <3>2. store[z] # None => data'[store'[z]] = data[store[z]]
        BY <2>2, <3>1 DEF Effect, Placed
      <3>3. Sits(store[z], data[store[z]], reader[z], writer[z])
        BY DEF BufferInv, Inside, Bytes
      <3> QED  BY <3>1, <3>2, <3>3 DEF Sits
    <2> QED  BY <2>1, <2>2
  <1>4. Inside'
    BY <1>3 DEF Inside, Bytes
  <1> QED  BY <1>1, <1>2, <1>4 DEF BufferInv

\* An alive buffer, as the lemmas below use it.
LEMMA AliveFacts ==
  ASSUME BufferInv, NEW x \in Buffers, Alive(x)
  PROVE  /\ TypeOK /\ ~aborted /\ store \in Stores /\ data \in [Storages -> Blocks]
         /\ store[x] # None /\ store[x] \in Storages /\ Bytes(x) \in Blocks
         /\ reader[x] \in Size /\ writer[x] \in Size
         /\ reader[x] \in Nat /\ writer[x] \in Nat /\ reader[x] <= writer[x]
         /\ SizeMax \in Nat /\ writer[x] <= SizeMax
         /\ writer[x] <= Len(Bytes(x)) \/ (SplitMayFail /\ Bytes(x) = <<>>)
         /\ ~SplitMayFail => writer[x] <= Len(Bytes(x))
         /\ readableBytes(x) = writer[x] - reader[x] /\ readableBytes(x) \in Nat
  <1>1. TypeOK /\ ~aborted /\ store[x] # None
    BY DEF BufferInv, Alive
  <1>2. store \in Stores /\ data \in [Storages -> Blocks] /\ store[x] \in Storages
        /\ Bytes(x) \in Blocks /\ reader[x] \in Size /\ writer[x] \in Size
    BY <1>1 DEF TypeOK, Stores, Bytes
  <1>3. Sits(store[x], Bytes(x), reader[x], writer[x])
    BY <1>1 DEF BufferInv, Inside
  <1>4. reader[x] \in Nat /\ writer[x] \in Nat /\ writer[x] <= SizeMax /\ SizeMax \in Nat
    BY <1>2, SizeMaxNat DEF Size
  <1>5. reader[x] <= writer[x]
        /\ (writer[x] <= Len(Bytes(x)) \/ (SplitMayFail /\ Bytes(x) = <<>>))
    BY <1>1, <1>3 DEF Sits
  <1>6. readableBytes(x) = writer[x] - reader[x] /\ readableBytes(x) \in Nat
    BY <1>4, <1>5 DEF readableBytes
  <1> QED  BY <1>1, <1>2, <1>4, <1>5, <1>6

LEMMA OwnPlaced ==
  ASSUME TypeOK, NEW x \in Buffers, store[x] # None, NEW u \in Unique(x),
         NEW d \in Blocks, Installs(x, u.s, d)
  PROVE  Placed(x, u.s, d)
  <1>1. u.s \in Storages /\ \A z \in Buffers \ {x} : store[z] # u.s
    BY UniqueIsOwn
  <1>2. store \in Stores /\ data \in [Storages -> Blocks]
    BY DEF TypeOK, Stores
  <1>3. store' \in Stores /\ store'[x] = u.s /\ \A z \in Buffers \ {x} : store'[z] = store[z]
    BY <1>1, <1>2 DEF Installs, Stores
  <1>4. data' \in [Storages -> Blocks] /\ data'[u.s] = d
    BY <1>1, <1>2 DEF Installs
  <1>5. ASSUME NEW z \in Buffers \ {x}, store[z] # None
        PROVE  data'[store[z]] = data[store[z]]
    BY <1>1, <1>2, <1>5 DEF Installs, Stores
  <1> QED  BY <1>3, <1>4, <1>5 DEF Placed

LEMMA ReferredPlaced ==
  ASSUME TypeOK, NEW x \in Buffers, NEW s \in Storages \cup {None}, NEW d \in Blocks,
         \A z \in Buffers \ {x} : store[z] = s /\ s # None => data[s] = d,
         Refers(x, s, d)
  PROVE  Placed(x, s, d)
  <1> DEFINE refs == [store EXCEPT ![x] = s]
  <1>1. store \in Stores /\ data \in [Storages -> Blocks]
    BY DEF TypeOK, Stores
  <1>2. /\ store' = refs
        /\ data' = [b \in Storages |-> IF ~Referenced(refs, b) THEN <<>>
                                       ELSE IF b = s THEN d ELSE data[b]]
    BY Zenon DEF Refers
  <1>3. refs \in Stores /\ refs[x] = s /\ \A z \in Buffers \ {x} : refs[z] = store[z]
    BY <1>1 DEF Stores
  <1> HIDE DEF refs
  <1>4. data' \in [Storages -> Blocks]
    BY <1>1, <1>2, EmptyBlock
  <1>5. s # None => data'[s] = d
    <2>1. Referenced(refs, s)
      BY <1>3 DEF Referenced
    <2> QED  BY <1>2, <2>1
  <1>6. ASSUME NEW z \in Buffers \ {x}, store[z] # None
        PROVE  data'[store[z]] = data[store[z]]
    <2>1. store[z] \in Storages
      BY <1>1, <1>6 DEF Stores
    <2>2. Referenced(refs, store[z])
      BY <1>3 DEF Referenced
    <2>3. data'[store[z]] = IF store[z] = s THEN d ELSE data[store[z]]
      BY <1>2, <2>1, <2>2
    <2> QED  BY <1>6, <2>3
  <1> QED  BY <1>2, <1>3, <1>4, <1>5, <1>6 DEF Placed

LEMMA SamePlaced ==
  ASSUME TypeOK, NEW x \in Buffers, UNCHANGED <<store, data>>
  PROVE  Placed(x, store[x], Bytes(x))
  BY DEF TypeOK, Stores, Placed, Bytes

-----------------------------------------------------------------------------
(***************************************************************************)
(* The effect of each operation.                                            *)
(***************************************************************************)
LEMMA SameCursors ==
  ASSUME TypeOK, NEW x \in Buffers
  PROVE  /\ UNCHANGED reader => reader' = [reader EXCEPT ![x] = reader[x]]
         /\ UNCHANGED writer => writer' = [writer EXCEPT ![x] = writer[x]]
  BY DEF TypeOK

LEMMA NoAbort ==
  ASSUME TypeOK, ~aborted, UNCHANGED aborted
  PROVE  ~aborted' /\ aborted' \in BOOLEAN
  BY Zenon DEF TypeOK

LEMMA MakeEffect ==
  ASSUME BufferInv, NEW x \in Buffers, NEW n \in Size, buffer(x, n)
  PROVE  /\ ~aborted /\ store[x] = None /\ out' = <<>>
         /\ \E s \in Storages, d \in Blocks : Effect(x, s, d, 0, 0)
  <1> DEFINE s == CHOOSE s \in Storages : ~Referenced(store, s)
  <1>1. ~aborted /\ store[x] = None /\ out' = <<>> /\ Cursors(x, 0, 0) /\ UNCHANGED aborted
    BY DEF buffer
  <1>2. PICK d \in NewBlocks(n) : Refers(x, s, d)
    BY DEF buffer
  <1>3. d \in Blocks
    <2>1. nextPowerOf2ClampedToMax(n) \in Size
      BY RoundedInSize, SizeMaxNat DEF Size
    <2> QED  BY <2>1, FreshBlock, EmptyBlock DEF NewBlocks
  <1>4. TypeOK /\ store \in Stores
    BY DEF BufferInv, TypeOK, Stores
  <1>5. s \in Storages /\ \A z \in Buffers : store[z] # s
    BY <1>1, <1>4, FreeAddress
  <1> HIDE DEF s
  <1>6. Placed(x, s, d)
    BY <1>2, <1>3, <1>4, <1>5, ReferredPlaced
  <1>7. 0 \in Size /\ Sits(s, d, 0, 0)
    <2>1. Len(d) \in Nat
      BY <1>3, BlockLen
    <2> QED  BY <2>1, SizeMaxNat DEF Size, Sits
  <1>8. Effect(x, s, d, 0, 0)
    BY <1>1, <1>4, <1>6, <1>7, EmptyBlock, NoAbort, Zenon DEF Effect
  <1> QED  BY <1>1, <1>3, <1>5, <1>8

LEMMA CopyEffect ==
  ASSUME BufferInv, NEW x \in Buffers, NEW y \in Buffers, copy(x, y)
  PROVE  /\ Alive(y) /\ out' = <<>>
         /\ Effect(x, store[y], Bytes(y), reader[y], writer[y])
  <1>1. /\ Alive(y) /\ out' = <<>> /\ Cursors(x, reader[y], writer[y])
        /\ Refers(x, store[y], Bytes(y)) /\ UNCHANGED aborted
    BY DEF copy
  <1>2. /\ TypeOK /\ ~aborted /\ store[y] \in Storages /\ Bytes(y) \in Blocks
        /\ reader[y] \in Size /\ writer[y] \in Size
    BY <1>1, AliveFacts
  <1>3. Placed(x, store[y], Bytes(y))
    BY <1>1, <1>2, ReferredPlaced DEF Bytes
  <1>4. Sits(store[y], Bytes(y), reader[y], writer[y])
    BY <1>2 DEF BufferInv, Inside
  <1> QED  BY <1>1, <1>2, <1>3, <1>4, EmptyBlock, NoAbort, Zenon DEF Effect

LEMMA DestroyEffect ==
  ASSUME BufferInv, NEW x \in Buffers, destroy(x)
  PROVE  Alive(x) /\ out' = <<>> /\ Effect(x, None, <<>>, 0, 0)
  <1>1. /\ Alive(x) /\ out' = <<>> /\ Cursors(x, 0, 0)
        /\ Refers(x, None, <<>>) /\ UNCHANGED aborted
    BY DEF destroy
  <1>2. TypeOK /\ ~aborted
    BY <1>1, AliveFacts
  <1>3. Placed(x, None, <<>>)
    BY <1>1, <1>2, EmptyBlock, ReferredPlaced
  <1>4. 0 \in Size /\ Sits(None, <<>>, 0, 0)
    BY SizeMaxNat DEF Size, Sits
  <1> QED  BY <1>1, <1>2, <1>3, <1>4, EmptyBlock, NoAbort, Zenon DEF Effect

\* writeBytes, whatever its source.
Writes(x, bs, u, r) ==
    /\ u \in Unique(x) /\ r \in SetBytes(u.d, bs, writer[x])
    /\ Installs(x, u.s, r.d)
    /\ moveWriterIndexTo(x, ForwardBy(writer[x], r.n), Len(r.d))
    /\ out' = <<>> /\ UNCHANGED reader

LEMMA WriteEffect ==
  ASSUME BufferInv, NEW x \in Buffers, Alive(x), NEW bs \in Seq(Contents),
         NEW u, NEW r, Writes(x, bs, u, r)
  PROVE  Effect(x, u.s, r.d, reader[x], writer[x] + r.n)
  <1>1. /\ TypeOK /\ ~aborted /\ store[x] # None /\ reader[x] \in Size /\ writer[x] \in Size
        /\ reader[x] \in Nat /\ writer[x] \in Nat /\ reader[x] <= writer[x]
        /\ SizeMax \in Nat /\ writer[x] <= SizeMax
        /\ ~SplitMayFail => writer[x] <= Len(Bytes(x))
    BY AliveFacts
  <1>2. /\ u \in Unique(x) /\ r \in SetBytes(u.d, bs, writer[x]) /\ Installs(x, u.s, r.d)
        /\ moveWriterIndexTo(x, ForwardBy(writer[x], r.n), Len(r.d))
        /\ out' = <<>> /\ UNCHANGED reader
    BY DEF Writes
  <1>3. u.d \in Blocks /\ (~SplitMayFail => u.d = Bytes(x))
    BY <1>1, <1>2, UniqueIsOwn
  <1>4. /\ r.d \in Blocks /\ Len(u.d) <= Len(r.d)
        /\ r.n \in {0, Len(bs)} /\ (r.n = 0 => r.d = u.d)
        /\ r.n # 0 => writer[x] + r.n <= Len(r.d)
    BY <1>1, <1>2, <1>3, SetBytesKeeps
  <1>5. r.n \in Nat /\ Len(r.d) \in Nat /\ Len(r.d) <= SizeMax /\ Len(u.d) \in Nat
    BY <1>3, <1>4, BlockLen
  <1>6. writer[x] + r.n <= SizeMax
    BY <1>1, <1>4, <1>5
  <1>7. ForwardBy(writer[x], r.n) = writer[x] + r.n /\ writer[x] + r.n \in Size
    BY <1>1, <1>5, <1>6, NoWrap
  <1>8. Placed(x, u.s, r.d)
    BY <1>1, <1>2, <1>4, OwnPlaced
  <1>9. Cursors(x, reader[x], writer[x] + r.n)
    BY <1>1, <1>2, <1>7, SameCursors DEF Cursors, moveWriterIndexTo
  <1>10. aborted' = ~(writer[x] + r.n <= Len(r.d))
    BY <1>2, <1>7 DEF moveWriterIndexTo
  <1>11. ~SplitMayFail => writer[x] + r.n <= Len(r.d)
    BY <1>1, <1>3, <1>4, <1>5
  <1>12. reader[x] <= writer[x] + r.n
    BY <1>1, <1>5
  <1>13. aborted' \/ Sits(u.s, r.d, reader[x], writer[x] + r.n)
    BY <1>10, <1>12, Zenon DEF Sits
  <1>14. aborted' \in BOOLEAN /\ (aborted' => SplitMayFail)
    BY <1>10, <1>11, Zenon
  <1> QED  BY <1>1, <1>2, <1>7, <1>8, <1>9, <1>13, <1>14, EmptyBlock DEF Effect

LEMMA WriteBytesEffect ==
  ASSUME BufferInv, NEW x \in Buffers, NEW n \in Size, NEW bs \in [1..n -> Byte],
         writeBytes(x, bs)
  PROVE  /\ Alive(x) /\ bs \in Seq(Contents) /\ bs \in Seq(Byte) /\ Len(bs) = n
         /\ \E u \in Unique(x) : \E r \in SetBytes(u.d, bs, writer[x]) : Writes(x, bs, u, r)
  <1>1. bs \in Seq(Byte) /\ Len(bs) = n
    BY SizeMaxNat DEF Size
  <1>2. bs \in [1..n -> Contents]
    BY DEF Contents
  <1>3. bs \in Seq(Contents)
    BY <1>2, FunctionBlock
  <1> QED  BY <1>1, <1>3, Zenon DEF writeBytes, Writes

LEMMA WriteOwnBytesEffect ==
  ASSUME BufferInv, NEW x \in Buffers, NEW size \in Size, writeOwnBytes(x, size)
  PROVE  LET own == Part(Bytes(x), reader[x], reader[x] + size) IN
         /\ Alive(x) /\ own \in Seq(Contents) /\ size \in Nat
         /\ reader[x] + size <= writer[x]
         /\ \E bs \in {own} \cup (IF ReallocMoves THEN {Fresh(size)} ELSE {}) :
              /\ bs \in Seq(Contents)
              /\ \E u \in Unique(x) : \E r \in SetBytes(u.d, bs, writer[x]) : Writes(x, bs, u, r)
  <1> DEFINE own == Part(Bytes(x), reader[x], reader[x] + size)
  <1>1. Alive(x) /\ size <= readableBytes(x)
    BY DEF writeOwnBytes
  <1>2. size \in Nat /\ reader[x] + size <= writer[x]
    BY <1>1, AliveFacts, SizeMaxNat DEF Size
  <1>3. own \in Seq(Contents)
    <2>1. /\ Bytes(x) \in Blocks /\ reader[x] \in Nat /\ writer[x] \in Nat
          /\ writer[x] <= Len(Bytes(x)) \/ Bytes(x) = <<>>
      BY <1>1, AliveFacts
    <2>2. /\ reader[x] + size \in Nat /\ reader[x] <= reader[x] + size
          /\ reader[x] + size <= Len(Bytes(x)) \/ Bytes(x) = <<>>
      BY <1>2, <2>1, BlockLen
    <2> QED  BY <2>1, <2>2, PartInBlock
  <1>4. Fresh(size) \in Seq(Contents)
    BY FreshBlock, BlockLen
  <1> HIDE DEF own
  <1>5. PICK u \in Unique(x) :
          \E r \in SetBytes(u.d, own, writer[x])
                     \cup (IF ReallocMoves /\ own # <<>> /\ u.s = store[x]
                              /\ ~Fits(u.d, writer[x] + size)
                           THEN SetBytes(u.d, Fresh(size), writer[x]) ELSE {}) :
            /\ Installs(x, u.s, r.d)
            /\ moveWriterIndexTo(x, ForwardBy(writer[x], r.n), Len(r.d))
    BY Zenon DEF writeOwnBytes, own
  <1>6. PICK r \in SetBytes(u.d, own, writer[x])
                     \cup (IF ReallocMoves /\ own # <<>> /\ u.s = store[x]
                              /\ ~Fits(u.d, writer[x] + size)
                           THEN SetBytes(u.d, Fresh(size), writer[x]) ELSE {}) :
            /\ Installs(x, u.s, r.d)
            /\ moveWriterIndexTo(x, ForwardBy(writer[x], r.n), Len(r.d))
    BY <1>5, Zenon
  <1>7. out' = <<>> /\ UNCHANGED reader
    BY DEF writeOwnBytes
  <1>8. CASE r \in SetBytes(u.d, own, writer[x])
    <2>1. Writes(x, own, u, r)
      BY <1>6, <1>7, <1>8 DEF Writes
    <2> QED  BY <1>1, <1>2, <1>3, <1>8, <2>1 DEF own
  <1>9. CASE r \notin SetBytes(u.d, own, writer[x])
    <2>1. ReallocMoves /\ r \in SetBytes(u.d, Fresh(size), writer[x])
      BY <1>6, <1>9
    <2>2. Writes(x, Fresh(size), u, r)
      BY <1>6, <1>7, <2>1 DEF Writes
    <2> QED  BY <1>1, <1>2, <1>3, <1>4, <2>1, <2>2 DEF own
  <1> QED  BY <1>8, <1>9

\* A reader cursor that moves within what can be read.
LEMMA ForwardEffect ==
  ASSUME BufferInv, NEW x \in Buffers, Alive(x), NEW n \in Nat, reader[x] + n <= writer[x],
         reader' = [reader EXCEPT ![x] = reader[x] + n], UNCHANGED <<store, data, writer>>,
         aborted' \in BOOLEAN, aborted' => SplitMayFail, out' \in Blocks
  PROVE  Effect(x, store[x], Bytes(x), reader[x] + n, writer[x])
  <1>1. /\ TypeOK /\ reader[x] \in Nat /\ writer[x] \in Nat /\ writer[x] \in Size
        /\ SizeMax \in Nat /\ writer[x] <= SizeMax
        /\ writer[x] <= Len(Bytes(x)) \/ (SplitMayFail /\ Bytes(x) = <<>>)
    BY AliveFacts
  <1>2. Placed(x, store[x], Bytes(x))
    BY <1>1, SamePlaced
  <1>3. Cursors(x, reader[x] + n, writer[x])
    BY <1>1, SameCursors DEF Cursors
  <1>4. reader[x] + n \in Size
    BY <1>1 DEF Size
  <1>5. Sits(store[x], Bytes(x), reader[x] + n, writer[x])
    BY <1>1, Zenon DEF Sits
  <1> QED  BY <1>1, <1>2, <1>3, <1>4, <1>5 DEF Effect

LEMMA NothingRead ==
  ASSUME NEW d, NEW i \in Nat
  PROVE  SubSeq(d, i + 1, i + 0) = <<>>
  <1>1. i + 1 \in Int /\ i + 0 \in Int /\ i + 0 < i + 1
    OBVIOUS
  <1> QED  BY <1>1, SubSeqEmpty

\* What can be read is in the block, unless the block has no memory.
LEMMA ReadableInBlock ==
  ASSUME BufferInv, NEW x \in Buffers, Alive(x), NEW n \in Nat, reader[x] + n <= writer[x],
         n = 0 \/ Bytes(x) # <<>>
  PROVE  SubSeq(Bytes(x), reader[x] + 1, reader[x] + n) \in Blocks
  <1>1. /\ Bytes(x) \in Blocks /\ reader[x] \in Nat /\ writer[x] \in Nat
        /\ writer[x] <= Len(Bytes(x)) \/ Bytes(x) = <<>>
    BY AliveFacts
  <1>2. CASE n = 0
    BY <1>1, <1>2, NothingRead, EmptyBlock
  <1>3. CASE Bytes(x) # <<>>
    <2>1. reader[x] + n <= Len(Bytes(x))
      BY <1>1, <1>3, BlockLen
    <2> QED  BY <1>1, <2>1, PartOfBlock
  <1> QED  BY <1>2, <1>3

LEMMA MinimumFacts ==
  ASSUME NEW a \in Nat, NEW b \in Nat
  PROVE  minimumOf(a, b) \in Nat /\ minimumOf(a, b) <= a /\ minimumOf(a, b) <= b
  BY DEF minimumOf

LEMMA ReadBytesEffect ==
  ASSUME BufferInv, NEW x \in Buffers, NEW size \in Size, readBytes(x, size)
  PROVE  /\ Alive(x)
         /\ \E n \in Nat :
              /\ reader[x] + n <= writer[x]
              /\ out' = SubSeq(Bytes(x), reader[x] + 1, reader[x] + n)
              /\ Effect(x, store[x], Bytes(x), reader[x] + n, writer[x])
  <1> DEFINE count == minimumOf(size, readableBytes(x))
             n     == Copied(Bytes(x), count, reader[x])
  <1>1. /\ Alive(x) /\ UNCHANGED <<store, data, writer>>
        /\ out' = SubSeq(Bytes(x), reader[x] + 1, reader[x] + n)
        /\ \/ count = 0 /\ UNCHANGED <<reader, aborted>>
           \/ count > 0 /\ moveReaderIndexTo(x, ForwardBy(reader[x], n))
    BY DEF readBytes
  <1>2. /\ TypeOK /\ ~aborted /\ Bytes(x) \in Blocks /\ reader[x] \in Nat /\ writer[x] \in Nat
        /\ SizeMax \in Nat /\ writer[x] <= SizeMax
        /\ readableBytes(x) = writer[x] - reader[x] /\ readableBytes(x) \in Nat
    BY <1>1, AliveFacts
  <1>3. Len(Bytes(x)) \in Nat /\ size \in Nat
    BY <1>2, BlockLen, SizeMaxNat DEF Size
  <1>4. count \in Nat /\ count <= readableBytes(x)
    BY <1>2, <1>3, MinimumFacts
  <1> HIDE DEF count
  <1>5. n \in Nat /\ n <= count /\ (n = 0 \/ Bytes(x) # <<>>)
    <2>1. CASE Bytes(x) = <<>> \/ reader[x] >= Len(Bytes(x))
      BY <1>4, <2>1 DEF Copied
    <2>2. CASE ~(Bytes(x) = <<>> \/ reader[x] >= Len(Bytes(x)))
      <3>1. Len(Bytes(x)) - reader[x] \in Nat
        BY <1>2, <1>3, <2>2
      <3>2. n = minimumOf(count, Len(Bytes(x)) - reader[x])
        BY <2>2 DEF Copied
      <3> QED  BY <1>4, <2>2, <3>1, <3>2, MinimumFacts
    <2> QED  BY <2>1, <2>2
  <1> HIDE DEF n
  <1>6. reader[x] + n <= writer[x] /\ reader[x] + n <= SizeMax
    BY <1>2, <1>4, <1>5
  <1>7. out' \in Blocks
    BY <1>1, <1>5, <1>6, ReadableInBlock
  <1>8. reader' = [reader EXCEPT ![x] = reader[x] + n] /\ ~aborted' /\ aborted' \in BOOLEAN
    <2>1. CASE count = 0 /\ UNCHANGED <<reader, aborted>>
      <3>1. reader[x] + n = reader[x]
        BY <1>2, <1>4, <1>5, <2>1
      <3>2. reader' = [reader EXCEPT ![x] = reader[x]]
        BY <1>2, <2>1, SameCursors
      <3> QED  BY <1>2, <2>1, <3>1, <3>2, NoAbort
    <2>2. CASE moveReaderIndexTo(x, ForwardBy(reader[x], n))
      <3>1. ForwardBy(reader[x], n) = reader[x] + n
        BY <1>2, <1>5, <1>6, NoWrap
      <3>2. reader' = [reader EXCEPT ![x] = reader[x] + n] /\ aborted' = ~(reader[x] + n <= writer[x])
        BY <2>2, <3>1, Zenon DEF moveReaderIndexTo
      <3> QED  BY <1>6, <3>2, Zenon
    <2> QED  BY <1>1, <2>1, <2>2
  <1>9. Effect(x, store[x], Bytes(x), reader[x] + n, writer[x])
    BY <1>1, <1>5, <1>6, <1>7, <1>8, ForwardEffect
  <1> QED  BY <1>1, <1>5, <1>6, <1>9

LEMMA ReadStringEffect ==
  ASSUME BufferInv, NEW x \in Buffers, NEW size \in Size, readString(x, size)
  PROVE  /\ Alive(x)
         /\ \E n \in Nat :
              /\ reader[x] + n <= writer[x]
              /\ ~SplitMayFail => out' = SubSeq(Bytes(x), reader[x] + 1, reader[x] + n)
              /\ Effect(x, store[x], Bytes(x), reader[x] + n, writer[x])
  <1> DEFINE count == minimumOf(size, readableBytes(x))
  <1>1. /\ Alive(x) /\ UNCHANGED <<store, data, writer>>
        /\ \/ count = 0 /\ out' = <<>> /\ UNCHANGED <<reader, aborted>>
           \/ /\ count > 0
              /\ out' = Part(Bytes(x), reader[x], reader[x] + count)
              /\ reader' = [reader EXCEPT ![x] = ForwardBy(reader[x], count)]
              /\ aborted' = (Bytes(x) = <<>> \/ reader'[x] > writer[x])
    BY DEF readString
  <1>2. /\ TypeOK /\ ~aborted /\ Bytes(x) \in Blocks /\ reader[x] \in Nat /\ writer[x] \in Nat
        /\ SizeMax \in Nat /\ writer[x] <= SizeMax
        /\ writer[x] <= Len(Bytes(x)) \/ (SplitMayFail /\ Bytes(x) = <<>>)
        /\ readableBytes(x) = writer[x] - reader[x] /\ readableBytes(x) \in Nat
    BY <1>1, AliveFacts
  <1>3. Len(Bytes(x)) \in Nat /\ size \in Nat /\ (Bytes(x) = <<>> <=> Len(Bytes(x)) = 0)
    BY <1>2, BlockLen, SizeMaxNat DEF Size
  <1>4. count \in Nat /\ count <= readableBytes(x)
    BY <1>2, <1>3, MinimumFacts
  <1> HIDE DEF count
  <1>5. /\ reader[x] + count <= writer[x] /\ reader[x] + count <= SizeMax
        /\ reader[x] <= reader[x] + count /\ reader[x] + count \in Nat
    BY <1>2, <1>4
  <1>6. /\ out' \in Blocks
        /\ ~SplitMayFail => out' = SubSeq(Bytes(x), reader[x] + 1, reader[x] + count)
    <2>1. CASE count = 0
      <3>1. out' = <<>>
        BY <1>1, <2>1
      <3> QED  BY <1>2, <2>1, <3>1, EmptyBlock, NothingRead
    <2>2. CASE count # 0
      <3>1. out' = Part(Bytes(x), reader[x], reader[x] + count)
        BY <1>1, <2>2
      <3>2. reader[x] + count <= Len(Bytes(x)) \/ (SplitMayFail /\ Bytes(x) = <<>>)
        BY <1>2, <1>3, <1>5
      <3>3. out' \in Blocks
        BY <1>2, <1>5, <3>1, <3>2, PartInBlock
      <3>4. ~SplitMayFail => Bytes(x) # <<>>
        BY <1>2, <1>3, <1>4, <2>2, <3>2
      <3> QED  BY <3>1, <3>3, <3>4 DEF Part
    <2> QED  BY <2>1, <2>2
  <1>7. /\ reader' = [reader EXCEPT ![x] = reader[x] + count]
        /\ aborted' \in BOOLEAN /\ (aborted' => SplitMayFail)
    <2>1. CASE count = 0
      <3>1. reader[x] + count = reader[x]
        BY <1>2, <2>1
      <3>2. UNCHANGED <<reader, aborted>>
        BY <1>1, <2>1
      <3>3. reader' = [reader EXCEPT ![x] = reader[x]]
        BY <1>2, <3>2, SameCursors
      <3> QED  BY <1>2, <3>1, <3>2, <3>3, NoAbort
    <2>2. CASE count # 0
      <3>1. /\ reader' = [reader EXCEPT ![x] = ForwardBy(reader[x], count)]
            /\ aborted' = (Bytes(x) = <<>> \/ reader'[x] > writer[x])
        BY <1>1, <2>2
      <3>2. ForwardBy(reader[x], count) = reader[x] + count
        BY <1>2, <1>4, <1>5, NoWrap
      <3>3. reader' = [reader EXCEPT ![x] = reader[x] + count]
        BY <3>1, <3>2
      <3>4. ~(reader'[x] > writer[x])
        BY <1>2, <1>5, <3>3 DEF TypeOK
      <3>5. ~SplitMayFail => Bytes(x) # <<>>
        BY <1>2, <1>3, <1>4, <1>5, <2>2
      <3>6. aborted' \in BOOLEAN /\ (aborted' => SplitMayFail)
        BY <3>1, <3>4, <3>5, Zenon
      <3> QED  BY <3>3, <3>6
    <2> QED  BY <2>1, <2>2
  <1>8. Effect(x, store[x], Bytes(x), reader[x] + count, writer[x])
    BY <1>1, <1>4, <1>5, <1>6, <1>7, ForwardEffect
  <1> QED  BY <1>1, <1>4, <1>5, <1>6, <1>8

LEMMA SkipEffect ==
  ASSUME BufferInv, NEW x \in Buffers, NEW size \in Size, skipBytes(x, size)
  PROVE  /\ Alive(x) /\ out' = <<>>
         /\ \E n \in Nat :
              /\ reader[x] + n <= writer[x]
              /\ Effect(x, store[x], Bytes(x), reader[x] + n, writer[x])
  <1> DEFINE count == minimumOf(size, readableBytes(x))
  <1>1. /\ Alive(x) /\ UNCHANGED <<store, data, writer>> /\ out' = <<>>
        /\ moveReaderIndexTo(x, ForwardBy(reader[x], count))
    BY DEF skipBytes
  <1>2. /\ reader[x] \in Nat /\ writer[x] \in Nat /\ SizeMax \in Nat /\ writer[x] <= SizeMax
        /\ readableBytes(x) = writer[x] - reader[x] /\ readableBytes(x) \in Nat
    BY <1>1, AliveFacts
  <1>3. size \in Nat
    BY SizeMaxNat DEF Size
  <1>4. count \in Nat /\ count <= readableBytes(x)
    BY <1>2, <1>3, MinimumFacts
  <1> HIDE DEF count
  <1>5. reader[x] + count <= writer[x] /\ reader[x] + count <= SizeMax
    BY <1>2, <1>4
  <1>6. ForwardBy(reader[x], count) = reader[x] + count
    BY <1>2, <1>4, <1>5, NoWrap
  <1>7. /\ reader' = [reader EXCEPT ![x] = reader[x] + count]
        /\ aborted' = ~(reader[x] + count <= writer[x])
    BY <1>1, <1>6, Zenon DEF moveReaderIndexTo
  <1>8. aborted' \in BOOLEAN /\ ~aborted'
    BY <1>5, <1>7, Zenon
  <1>9. Effect(x, store[x], Bytes(x), reader[x] + count, writer[x])
    BY <1>1, <1>4, <1>5, <1>7, <1>8, EmptyBlock, ForwardEffect
  <1> QED  BY <1>1, <1>4, <1>5, <1>9

LEMMA DiscardEffect ==
  ASSUME BufferInv, NEW x \in Buffers, discardReadBytes(x)
  PROVE  /\ Alive(x) /\ out' = <<>>
         /\ \E s \in Storages, d \in Blocks :
              /\ Effect(x, s, d, 0, readableBytes(x))
              /\ ~SplitMayFail =>
                   /\ readableBytes(x) <= Len(d)
                   /\ \A i \in 1..readableBytes(x) : d[i] = Bytes(x)[reader[x] + i]
  <1> DEFINE n == readableBytes(x)
  <1>1. /\ Alive(x) /\ out' = <<>> /\ Cursors(x, 0, n)
        /\ \/ n = 0 /\ UNCHANGED <<store, data, aborted>>
           \/ /\ n > 0
              /\ \E u \in Unique(x) :
                 \E r \in SetBytes(u.d, Part(u.d, reader[x], writer[x]), 0) :
                   Installs(x, u.s, r.d) /\ aborted' = (u.d = <<>>)
    BY DEF discardReadBytes
  <1>2. /\ TypeOK /\ ~aborted /\ store[x] \in Storages /\ store[x] # None
        /\ Bytes(x) \in Blocks /\ reader[x] \in Nat /\ writer[x] \in Nat
        /\ reader[x] <= writer[x] /\ SizeMax \in Nat /\ writer[x] <= SizeMax
        /\ writer[x] <= Len(Bytes(x)) \/ (SplitMayFail /\ Bytes(x) = <<>>)
        /\ n = writer[x] - reader[x] /\ n \in Nat
    BY <1>1, AliveFacts
  <1> HIDE DEF n
  <1>3. n \in Size /\ 0 \in Size /\ n <= writer[x]
    BY <1>2 DEF Size
  <1>4. CASE n = 0
    <2>1. UNCHANGED <<store, data, aborted>>
      BY <1>1, <1>4
    <2>2. Placed(x, store[x], Bytes(x))
      BY <1>2, <2>1, SamePlaced
    <2>3. Len(Bytes(x)) \in Nat
      BY <1>2, BlockLen
    <2>4. Sits(store[x], Bytes(x), 0, n) /\ n <= Len(Bytes(x))
      BY <1>4, <2>3 DEF Sits
    <2>5. Effect(x, store[x], Bytes(x), 0, n)
      BY <1>1, <1>2, <1>3, <2>1, <2>2, <2>4, EmptyBlock, NoAbort, Zenon DEF Effect
    <2>6. \A i \in 1..n : Bytes(x)[i] = Bytes(x)[reader[x] + i]
      BY <1>4
    <2> QED  BY <1>1, <1>2, <2>4, <2>5, <2>6 DEF n
  <1>5. CASE n # 0
    <2>1. PICK u \in Unique(x) :
            \E r \in SetBytes(u.d, Part(u.d, reader[x], writer[x]), 0) :
              Installs(x, u.s, r.d) /\ aborted' = (u.d = <<>>)
      BY <1>1, <1>5
    <2>2. PICK r \in SetBytes(u.d, Part(u.d, reader[x], writer[x]), 0) :
              Installs(x, u.s, r.d) /\ aborted' = (u.d = <<>>)
      BY <2>1
    <2>3. /\ u.s \in Storages /\ u.d \in Blocks
          /\ u.d = Bytes(x) \/ (SplitMayFail /\ u.d = <<>>)
      BY <1>2, UniqueIsOwn
    <2> DEFINE p == Part(u.d, reader[x], writer[x])
    <2>4. Len(u.d) \in Nat /\ (u.d = <<>> <=> Len(u.d) = 0)
      BY <2>3, BlockLen
    <2>5. writer[x] <= Len(u.d) \/ (SplitMayFail /\ u.d = <<>>)
      BY <1>2, <2>3
    <2>6. /\ p \in Seq(Contents)
          /\ u.d # <<>> => Len(p) = n
          /\ u.d # <<>> => \A i \in 1..n : p[i] = u.d[reader[x] + i]
      <3>1. writer[x] <= Len(u.d) \/ u.d = <<>>
        BY <2>5
      <3>2. /\ p \in Seq(Contents)
            /\ u.d # <<>> => Len(p) = writer[x] - reader[x]
            /\ u.d # <<>> => \A i \in 1..(writer[x] - reader[x]) : p[i] = u.d[reader[x] + i]
        BY <1>2, <2>3, <3>1, PartInBlock, ZenonT(30)
      <3> HIDE DEF p
      <3> QED  BY <1>2, <3>2
    <2> HIDE DEF p
    <2>7. /\ r.d \in Blocks
          /\ r.n # 0 => \A i \in 1..Len(p) : r.d[0 + i] = p[i]
          /\ u.d # <<>> /\ p # <<>> /\ 0 + Len(p) <= Len(u.d) =>
               r.n = Len(p) /\ Len(r.d) = Len(u.d)
      BY <1>3, <2>2, <2>3, <2>6, SetBytesKeeps DEF p
    <2>8. ASSUME u.d # <<>>
          PROVE  n <= Len(r.d) /\ \A i \in 1..n : r.d[i] = u.d[reader[x] + i]
      <3>1. p # <<>> /\ Len(p) = n /\ n <= Len(u.d)
        BY <1>2, <1>3, <1>5, <2>4, <2>5, <2>6, <2>8
      <3>2. r.n = n /\ Len(r.d) = Len(u.d)
        BY <1>2, <2>7, <2>8, <3>1
      <3>3. ASSUME NEW i \in 1..n PROVE r.d[i] = u.d[reader[x] + i]
        <4>1. 0 + i = i
          BY <1>2
        <4>2. r.d[0 + i] = p[i]
          BY <1>5, <2>7, <3>1, <3>2
        <4> QED  BY <2>6, <2>8, <4>1, <4>2
      <3> QED  BY <3>1, <3>2, <3>3
    <2>9. Placed(x, u.s, r.d)
      BY <1>2, <2>2, <2>7, OwnPlaced
    <2>10. 0 <= n
      BY <1>2
    <2>11. aborted' \/ Sits(u.s, r.d, 0, n)
      BY <2>2, <2>8, <2>10, Zenon DEF Sits
    <2>12. ~SplitMayFail => u.d = Bytes(x) /\ u.d # <<>>
      BY <1>2, <1>3, <1>5, <2>3, <2>4, <2>5
    <2>13. aborted' \in BOOLEAN /\ (aborted' => SplitMayFail)
      BY <2>2, <2>12, Zenon
    <2>14. Effect(x, u.s, r.d, 0, n)
      BY <1>1, <1>3, <2>9, <2>11, <2>13, EmptyBlock, Zenon DEF Effect
    <2>15. ~SplitMayFail => n <= Len(r.d) /\ \A i \in 1..n : r.d[i] = Bytes(x)[reader[x] + i]
      BY <2>8, <2>12, Zenon
    <2> QED  BY <1>1, <2>3, <2>7, <2>14, <2>15, Zenon DEF n
  <1> QED  BY <1>4, <1>5

LEMMA ClearEffect ==
  ASSUME BufferInv, NEW x \in Buffers, clear(x)
  PROVE  Alive(x) /\ out' = <<>> /\ Effect(x, store[x], Bytes(x), 0, 0)
  <1>1. Alive(x) /\ out' = <<>> /\ Cursors(x, 0, 0) /\ UNCHANGED <<store, data, aborted>>
    BY DEF clear
  <1>2. TypeOK /\ ~aborted /\ Bytes(x) \in Blocks
    BY <1>1, AliveFacts
  <1>3. Placed(x, store[x], Bytes(x))
    BY <1>1, <1>2, SamePlaced
  <1>4. 0 \in Size /\ Sits(store[x], Bytes(x), 0, 0)
    <2>1. Len(Bytes(x)) \in Nat
      BY <1>2, BlockLen
    <2> QED  BY <2>1, SizeMaxNat DEF Size, Sits
  <1> QED  BY <1>1, <1>2, <1>3, <1>4, EmptyBlock, NoAbort, Zenon DEF Effect

LEMMA MutateEffect ==
  ASSUME BufferInv, NEW x \in Buffers, NEW i \in Size \ {0}, NEW b \in Byte,
         mutableBytes(x, i, b)
  PROVE  /\ Alive(x) /\ out' = <<>>
         /\ \E s \in Storages, d \in Blocks :
              /\ Effect(x, s, d, reader[x], writer[x])
              /\ ~SplitMayFail => d = IF i \in 1..Len(Bytes(x))
                                      THEN [Bytes(x) EXCEPT ![i] = b] ELSE Bytes(x)
  <1>1. Alive(x) /\ out' = <<>> /\ UNCHANGED <<reader, writer, aborted>>
    BY DEF mutableBytes
  <1>2. PICK u \in Unique(x) :
          Installs(x, u.s, IF i \in 1..Len(u.d) THEN [u.d EXCEPT ![i] = b] ELSE u.d)
    BY DEF mutableBytes
  <1> DEFINE d == IF i \in 1..Len(u.d) THEN [u.d EXCEPT ![i] = b] ELSE u.d
  <1>3. /\ TypeOK /\ ~aborted /\ store[x] # None /\ reader[x] \in Size /\ writer[x] \in Size
        /\ reader[x] <= writer[x]
        /\ writer[x] <= Len(Bytes(x)) \/ (SplitMayFail /\ Bytes(x) = <<>>)
    BY <1>1, AliveFacts
  <1>4. /\ u.s \in Storages /\ u.d \in Blocks
        /\ u.d = Bytes(x) \/ (SplitMayFail /\ u.d = <<>>)
    BY <1>2, <1>3, UniqueIsOwn
  <1>5. d \in Blocks /\ Len(d) = Len(u.d) /\ (u.d = <<>> => d = <<>>)
    <2>1. u.d \in Seq(Contents) /\ Len(u.d) \in Size /\ b \in Contents
      BY <1>4, BlockLen DEF Contents
    <2>2. CASE i \in 1..Len(u.d)
      <3>1. d \in Seq(Contents) /\ Len(d) = Len(u.d)
        BY <2>1, <2>2, ExceptSeq
      <3>2. u.d # <<>>
        BY <2>2, EmptyBlock
      <3> QED  BY <2>1, <3>1, <3>2, BlockIsSeq
    <2>3. CASE i \notin 1..Len(u.d)
      BY <1>4, <2>3
    <2> QED  BY <2>2, <2>3
  <1>6. ~SplitMayFail => d = IF i \in 1..Len(Bytes(x))
                             THEN [Bytes(x) EXCEPT ![i] = b] ELSE Bytes(x)
    BY <1>4
  <1>7. Installs(x, u.s, d)
    BY <1>2
  <1> HIDE DEF d
  <1>8. Placed(x, u.s, d)
    BY <1>3, <1>5, <1>7, OwnPlaced
  <1>9. Sits(u.s, d, reader[x], writer[x])
    BY <1>3, <1>4, <1>5 DEF Sits
  <1>10. Cursors(x, reader[x], writer[x])
    BY <1>1, <1>3, SameCursors DEF Cursors
  <1>11. Effect(x, u.s, d, reader[x], writer[x])
    BY <1>1, <1>3, <1>8, <1>9, <1>10, EmptyBlock, NoAbort, Zenon DEF Effect
  <1> QED  BY <1>1, <1>4, <1>5, <1>6, <1>11, Zenon

-----------------------------------------------------------------------------
(***************************************************************************)
(* Types and cursors.                                                       *)
(***************************************************************************)
LEMMA BufferInvInit == Init => BufferInv
  <1> SUFFICES ASSUME Init PROVE BufferInv
    OBVIOUS
  <1>1. 0 \in Size
    BY SizeMaxNat DEF Size
  <1>2. TypeOK
    BY <1>1, EmptyBlock DEF Init, TypeOK
  <1>3. Inside /\ AbortNeedsSplit
    BY DEF Init, Inside, AbortNeedsSplit, Sits
  <1> QED  BY <1>2, <1>3 DEF BufferInv

\* Every operation keeps the invariant.
LEMMA BufferInvStep ==
  ASSUME BufferInv, Next
  PROVE  BufferInv'
  <1>0. ASSUME NEW x \in Buffers, Alive(x) PROVE ~aborted
    BY <1>0 DEF Alive
  <1>1. ASSUME NEW x \in Buffers, NEW y \in Buffers, copy(x, y) PROVE BufferInv'
    BY <1>0, <1>1, CopyEffect, EffectKeeps
  <1>2. ASSUME NEW x \in Buffers, destroy(x) PROVE BufferInv'
    BY <1>0, <1>2, DestroyEffect, EffectKeeps
  <1>3. ASSUME NEW x \in Buffers, NEW n \in Size, buffer(x, n) PROVE BufferInv'
    BY <1>3, MakeEffect, EffectKeeps
  <1>4. ASSUME NEW x \in Buffers, NEW n \in Size, NEW bs \in [1..n -> Byte], writeBytes(x, bs)
        PROVE  BufferInv'
    <2>1. Alive(x) /\ bs \in Seq(Contents)
      BY <1>4, WriteBytesEffect
    <2>2. PICK u, r : Writes(x, bs, u, r)
      BY <1>4, WriteBytesEffect
    <2> QED  BY <1>0, <2>1, <2>2, WriteEffect, EffectKeeps
  <1>5. ASSUME NEW x \in Buffers, NEW n \in Size, writeOwnBytes(x, n) PROVE BufferInv'
    <2>1. Alive(x)
      BY <1>5, WriteOwnBytesEffect
    <2>2. PICK bs \in Seq(Contents) : \E u, r : Writes(x, bs, u, r)
      BY <1>5, WriteOwnBytesEffect, Zenon
    <2>3. PICK u, r : Writes(x, bs, u, r)
      BY <2>2
    <2> QED  BY <1>0, <2>1, <2>3, WriteEffect, EffectKeeps
  <1>6. ASSUME NEW x \in Buffers, NEW n \in Size, readBytes(x, n) PROVE BufferInv'
    BY <1>0, <1>6, ReadBytesEffect, EffectKeeps, Zenon
  <1>7. ASSUME NEW x \in Buffers, NEW n \in Size, readString(x, n) PROVE BufferInv'
    BY <1>0, <1>7, ReadStringEffect, EffectKeeps, Zenon
  <1>8. ASSUME NEW x \in Buffers, NEW n \in Size, skipBytes(x, n) PROVE BufferInv'
    BY <1>0, <1>8, SkipEffect, EffectKeeps, Zenon
  <1>9. ASSUME NEW x \in Buffers, discardReadBytes(x) PROVE BufferInv'
    BY <1>0, <1>9, DiscardEffect, EffectKeeps, Zenon
  <1>10. ASSUME NEW x \in Buffers, clear(x) PROVE BufferInv'
    BY <1>0, <1>10, ClearEffect, EffectKeeps
  <1>11. ASSUME NEW x \in Buffers, NEW i \in Size \ {0}, NEW b \in Byte, mutableBytes(x, i, b)
         PROVE  BufferInv'
    BY <1>0, <1>11, MutateEffect, EffectKeeps, Zenon
  <1> QED  BY <1>1, <1>2, <1>3, <1>4, <1>5, <1>6, <1>7, <1>8, <1>9, <1>10, <1>11, Zenon
           DEF Next

LEMMA BufferInvHolds == Spec => []BufferInv
  <1>1. BufferInv /\ UNCHANGED vars => BufferInv'
    BY DEF vars, BufferInv, TypeOK, Inside, AbortNeedsSplit, Bytes
  <1>2. BufferInv /\ [Next]_vars => BufferInv'
    BY <1>1, BufferInvStep
  <1> QED  BY <1>2, BufferInvInit, PTL DEF Spec

\* Blocks, cursors and what is read keep their types, whatever allocations fail:
\* the sizes never leave their range (ByteBuffer.cpp:85-265).
THEOREM TypeCorrect == Spec => []TypeOK
  <1>1. BufferInv => TypeOK
    BY DEF BufferInv
  <1> QED  BY <1>1, BufferInvHolds, PTL

\* If splits can be allocated, the cursors stay in order and inside the block,
\* and no assert fails and no null pointer is used, whatever other allocations
\* fail (ByteBuffer.cpp:188-265).
THEOREM CursorsCorrect ==
  ASSUME ~SplitMayFail
  PROVE  Spec => []CursorsInBlock
  <1>1. BufferInv => CursorsInBlock
    BY DEF BufferInv, AbortNeedsSplit, Inside, Sits, CursorsInBlock, Capacity
  <1> QED  BY <1>1, BufferInvHolds, PTL

-----------------------------------------------------------------------------
(***************************************************************************)
(* The refinement.  Where splits are allocated and reallocate does not move *)
(* a block that is being read, an operation does to the queue of its buffer *)
(* what ByteQueue says, and nothing to the others.                          *)
(***************************************************************************)
LogOf(s, d, w) == IF s = None THEN <<>> ELSE SubSeq(d, 1, w)

Logs   == [x \in Buffers |-> Log(x)]
Exists == {x \in Buffers : store[x] # None}

\* No junk below the writer cursor: what a buffer appends of itself are bytes.
Written == \A x \in Buffers : Log(x) \in Seq(Byte)

QueueInv == BufferInv /\ Written

LEMMA LogOfBlock ==
  ASSUME NEW s, s # None, NEW d \in Blocks, NEW w \in Nat, w <= Len(d)
  PROVE  /\ LogOf(s, d, w) \in Seq(Contents) /\ Len(LogOf(s, d, w)) = w
         /\ \A i \in 1..w : LogOf(s, d, w)[i] = d[i]
  <1> DEFINE p == SubSeq(d, 0 + 1, 0 + w)
  <1>1. 0 \in Nat /\ 0 + w <= Len(d)
    OBVIOUS
  <1>2. p \in Seq(Contents) /\ Len(p) = w /\ \A i \in 1..w : p[i] = d[0 + i]
    BY <1>1, PartOfBlock
  <1>3. LogOf(s, d, w) = p
    <2>1. 0 + 1 = 1 /\ 0 + w = w
      OBVIOUS
    <2> QED  BY <2>1 DEF LogOf
  <1> HIDE DEF p
  <1> QED  BY <1>2, <1>3

LEMMA LogFacts ==
  ASSUME BufferInv, ~SplitMayFail, NEW x \in Buffers, Alive(x)
  PROVE  /\ Log(x) = LogOf(store[x], Bytes(x), writer[x]) /\ Logs[x] = Log(x) /\ x \in Exists
         /\ Log(x) \in Seq(Contents) /\ Len(Log(x)) = writer[x]
         /\ \A i \in 1..writer[x] : Log(x)[i] = Bytes(x)[i]
  <1>1. Log(x) = LogOf(store[x], Bytes(x), writer[x])
    BY DEF Log, LogOf
  <1>2. /\ store[x] # None /\ Bytes(x) \in Blocks /\ writer[x] \in Nat
        /\ writer[x] <= Len(Bytes(x))
    BY AliveFacts
  <1> QED  BY <1>1, <1>2, LogOfBlock DEF Logs, Exists

\* What the queues see of an operation.
LEMMA EffectView ==
  ASSUME BufferInv, NEW x \in Buffers, NEW s, NEW d, NEW r, NEW w, Effect(x, s, d, r, w)
  PROVE  /\ Logs' = [Logs EXCEPT ![x] = LogOf(s, d, w)]
         /\ reader' = [reader EXCEPT ![x] = r]
         /\ Exists' = IF s = None THEN Exists \ {x} ELSE Exists \cup {x}
  <1>1. /\ store' \in Stores /\ store'[x] = s /\ (s # None => data'[s] = d)
        /\ \A z \in Buffers \ {x} :
             store'[z] = store[z] /\ (store[z] # None => data'[store[z]] = data[store[z]])
        /\ reader' = [reader EXCEPT ![x] = r] /\ writer' = [writer EXCEPT ![x] = w]
    BY DEF Effect, Placed, Cursors
  <1>2. writer'[x] = w /\ \A z \in Buffers \ {x} : writer'[z] = writer[z]
    BY <1>1 DEF BufferInv, TypeOK
  <1>3. Log(x)' = LogOf(s, d, w)
    <2>1. CASE s = None
      BY <1>1, <2>1 DEF Log, LogOf
    <2>2. CASE s # None
      <3>1. store'[x] = s /\ data'[store'[x]] = d /\ writer'[x] = w
        BY <1>1, <1>2, <2>2
      <3> QED  BY <2>2, <3>1 DEF Log, LogOf, Bytes
    <2> QED  BY <2>1, <2>2
  <1>4. ASSUME NEW z \in Buffers \ {x} PROVE Log(z)' = Log(z)
    <2>1. CASE store[z] = None
      BY <1>1, <2>1 DEF Log
    <2>2. CASE store[z] # None
      <3>1. store'[z] = store[z] /\ data'[store'[z]] = data[store[z]] /\ writer'[z] = writer[z]
        BY <1>1, <1>2, <2>2
      <3> QED  BY <2>2, <3>1 DEF Log, Bytes
    <2> QED  BY <2>1, <2>2
  <1>5. Logs' = [Logs EXCEPT ![x] = LogOf(s, d, w)]
    BY <1>3, <1>4 DEF Logs
  <1>6. Exists' = IF s = None THEN Exists \ {x} ELSE Exists \cup {x}
    BY <1>1 DEF Exists
  <1> QED  BY <1>1, <1>5, <1>6

\* An operation that leaves bytes below the writer cursor leaves no junk there.
LEMMA EffectWrites ==
  ASSUME QueueInv, NEW x \in Buffers, NEW s, NEW d, NEW r, NEW w, Effect(x, s, d, r, w),
         LogOf(s, d, w) \in Seq(Byte)
  PROVE  Written'
  <1>1. Logs' = [Logs EXCEPT ![x] = LogOf(s, d, w)]
    BY EffectView DEF QueueInv
  <1>2. ASSUME NEW z \in Buffers PROVE Log(z)' \in Seq(Byte)
    <2>1. Logs'[z] = Log(z)' /\ Logs[z] = Log(z)
      BY DEF Logs
    <2>2. Logs'[z] = IF z = x THEN LogOf(s, d, w) ELSE Logs[z]
      BY <1>1 DEF Logs
    <2> QED  BY <2>1, <2>2 DEF QueueInv, Written
  <1> QED  BY <1>2 DEF Written

LEMMA EffectBecomes ==
  ASSUME BufferInv, NEW x \in Buffers, NEW s, NEW d, NEW r, NEW w, Effect(x, s, d, r, w),
         out' = <<>>
  PROVE  Queue!Becomes(x, LogOf(s, d, w), r)
  BY EffectView DEF Queue!Becomes, Logs

LEMMA NoBytesWritten ==
  ASSUME NEW d
  PROVE  SubSeq(d, 1, 0) = <<>> /\ <<>> \in Seq(Byte)
  <1>1. 1 \in Int /\ 0 \in Int /\ 0 < 1
    OBVIOUS
  <1> QED  BY <1>1, SubSeqEmpty, EmptySeq

LEMMA MakeQueue ==
  ASSUME QueueInv, NEW x \in Buffers, NEW n \in Size, buffer(x, n)
  PROVE  Queue!Make(x) /\ Written'
  <1>0. BufferInv
    BY DEF QueueInv
  <1>1. store[x] = None /\ out' = <<>>
    BY <1>0, MakeEffect
  <1>2. PICK s \in Storages, d \in Blocks : Effect(x, s, d, 0, 0)
    BY <1>0, MakeEffect
  <1>3. LogOf(s, d, 0) = <<>> /\ LogOf(s, d, 0) \in Seq(Byte) /\ s # None
    BY NoBytesWritten, JunkAssumption DEF LogOf
  <1>4. Queue!Becomes(x, <<>>, 0)
    BY <1>0, <1>1, <1>2, <1>3, EffectBecomes
  <1>5. Exists' = Exists \cup {x} /\ x \notin Exists
    BY <1>0, <1>1, <1>2, <1>3, EffectView DEF Exists
  <1> QED  BY <1>2, <1>3, <1>4, <1>5, EffectWrites DEF Queue!Make, Exists

LEMMA CopyQueue ==
  ASSUME QueueInv, ~SplitMayFail, NEW x \in Buffers, NEW y \in Buffers, copy(x, y)
  PROVE  Queue!Copy(x, y) /\ Written'
  <1>0. BufferInv
    BY DEF QueueInv
  <1>1. Alive(y) /\ out' = <<>> /\ Effect(x, store[y], Bytes(y), reader[y], writer[y])
    BY <1>0, CopyEffect
  <1>2. store[y] # None
    BY <1>1 DEF Alive
  <1>3. LogOf(store[y], Bytes(y), writer[y]) = Logs[y] /\ Logs[y] \in Seq(Byte)
        /\ y \in Exists
    BY <1>0, <1>1, LogFacts DEF QueueInv, Written
  <1>4. Queue!Becomes(x, Logs[y], reader[y])
    BY <1>0, <1>1, <1>3, EffectBecomes
  <1>5. Exists' = Exists \cup {x}
    BY <1>0, <1>1, <1>2, EffectView
  <1> QED  BY <1>1, <1>3, <1>4, <1>5, EffectWrites DEF Queue!Copy, Exists, Logs

LEMMA DestroyQueue ==
  ASSUME QueueInv, NEW x \in Buffers, destroy(x)
  PROVE  Queue!Destroy(x) /\ Written'
  <1>0. BufferInv
    BY DEF QueueInv
  <1>1. Alive(x) /\ out' = <<>> /\ Effect(x, None, <<>>, 0, 0)
    BY <1>0, DestroyEffect
  <1>2. LogOf(None, <<>>, 0) = <<>> /\ <<>> \in Seq(Byte)
    BY NoBytesWritten DEF LogOf
  <1>3. Queue!Becomes(x, <<>>, 0)
    BY <1>0, <1>1, <1>2, EffectBecomes
  <1>4. Exists' = Exists \ {x} /\ x \in Exists
    BY <1>0, <1>1, EffectView DEF Exists, Alive
  <1> QED  BY <1>1, <1>2, <1>3, <1>4, EffectWrites DEF Queue!Destroy, Exists

LEMMA ClearQueue ==
  ASSUME QueueInv, NEW x \in Buffers, clear(x)
  PROVE  Queue!Clear(x) /\ Written'
  <1>0. BufferInv
    BY DEF QueueInv
  <1>1. Alive(x) /\ out' = <<>> /\ Effect(x, store[x], Bytes(x), 0, 0)
    BY <1>0, ClearEffect
  <1>2. LogOf(store[x], Bytes(x), 0) = <<>> /\ <<>> \in Seq(Byte)
    BY NoBytesWritten DEF LogOf
  <1>3. Queue!Becomes(x, <<>>, 0)
    BY <1>0, <1>1, <1>2, EffectBecomes
  <1>4. Exists' = Exists /\ x \in Exists
    BY <1>0, <1>1, EffectView DEF Exists, Alive
  <1> QED  BY <1>1, <1>2, <1>3, <1>4, EffectWrites DEF Queue!Clear, Exists

\* setBytes at the writer cursor appends.
LEMMA AppendedLog ==
  ASSUME NEW s, s # None, NEW t, t # None, NEW d \in Blocks, NEW bs \in Seq(Contents),
         NEW w \in Size, w <= Len(d), NEW r \in SetBytes(d, bs, w)
  PROVE  LogOf(t, r.d, w + r.n) = LogOf(s, d, w) \o (IF r.n = 0 THEN <<>> ELSE bs)
  <1>0. w \in Nat /\ Len(bs) \in Nat /\ Len(d) \in Nat
    BY BlockLen, SizeMaxNat DEF Size
  <1>1. /\ r.d \in Blocks /\ Len(d) <= Len(r.d) /\ r.n \in {0, Len(bs)}
        /\ r.n = 0 => r.d = d
        /\ r.n # 0 => w + r.n <= Len(r.d)
        /\ \A i \in 1..Len(d) : i <= w => r.d[i] = d[i]
        /\ r.n # 0 => \A i \in 1..Len(bs) : r.d[w + i] = bs[i]
    BY SetBytesKeeps
  <1> DEFINE old == LogOf(s, d, w)
             new == LogOf(t, r.d, w + r.n)
  <1>2. old \in Seq(Contents) /\ Len(old) = w /\ \A i \in 1..w : old[i] = d[i]
    BY <1>0, LogOfBlock
  <1>3. CASE r.n = 0
    <2>1. w + r.n = w
      BY <1>0, <1>3
    <2>2. new = old
      BY <1>1, <1>3, <2>1 DEF LogOf
    <2> QED  BY <1>2, <1>3, <2>2, ConcatEmptySeq
  <1>4. CASE r.n # 0
    <2>0. r.n = Len(bs) /\ w + Len(bs) \in Nat /\ w + Len(bs) <= Len(r.d)
      BY <1>0, <1>1, <1>4
    <2>1. /\ new \in Seq(Contents) /\ Len(new) = w + Len(bs)
          /\ \A i \in 1..(w + Len(bs)) : new[i] = r.d[i]
      BY <1>1, <2>0, LogOfBlock
    <2> HIDE DEF old, new
    <2>2. /\ old \o bs \in Seq(Contents) /\ Len(old \o bs) = w + Len(bs)
          /\ \A i \in 1..(w + Len(bs)) : (old \o bs)[i] = IF i <= w THEN old[i] ELSE bs[i - w]
      BY <1>2, ConcatProperties
    <2>3. ASSUME NEW i \in 1..(w + Len(bs)) PROVE new[i] = (old \o bs)[i]
      <3>1. CASE i <= w
        <4>1. i \in 1..w /\ i \in 1..Len(d)
          BY <1>0, <3>1
        <4>2. r.d[i] = d[i] /\ old[i] = d[i]
          BY <1>1, <1>2, <3>1, <4>1
        <4> QED  BY <2>1, <2>2, <3>1, <4>2
      <3>2. CASE i > w
        <4> DEFINE j == i - w
        <4>1. j \in 1..Len(bs) /\ w + j = i /\ ~(i <= w)
          BY <1>0, <3>2
        <4> HIDE DEF j
        <4>2. r.d[w + j] = bs[j]
          BY <1>1, <1>4, <4>1
        <4>3. r.d[i] = bs[j]
          BY <4>1, <4>2
        <4>4. (old \o bs)[i] = bs[j]
          BY <2>2, <4>1 DEF j
        <4> QED  BY <2>1, <4>3, <4>4
      <3>3. i <= w \/ i > w
        BY <1>0
      <3> QED  BY <3>1, <3>2, <3>3
    <2>4. new = old \o bs
      BY <2>1, <2>2, <2>3, SeqEqual
    <2> QED  BY <1>4, <2>4 DEF old, new
  <1> QED  BY <1>3, <1>4

\* A write, whatever its source, appends the source or nothing.
LEMMA WriteLog ==
  ASSUME BufferInv, ~SplitMayFail, NEW x \in Buffers, Alive(x), NEW bs \in Seq(Contents),
         NEW u, NEW r, Writes(x, bs, u, r)
  PROVE  /\ u.s # None /\ r.n \in {0, Len(bs)}
         /\ LogOf(u.s, r.d, writer[x] + r.n) = Log(x) \o (IF r.n = 0 THEN <<>> ELSE bs)
         /\ Log(x)' = Log(x) \o (IF r.n = 0 THEN <<>> ELSE bs)
         /\ writer'[x] = writer[x] + r.n /\ ~aborted'
  <1> DEFINE app == IF r.n = 0 THEN <<>> ELSE bs
  <1>2. u \in Unique(x) /\ r \in SetBytes(u.d, bs, writer[x])
    BY DEF Writes
  <1>3. /\ TypeOK /\ store[x] # None /\ Bytes(x) \in Blocks /\ writer[x] \in Size
        /\ writer[x] <= Len(Bytes(x))
    BY AliveFacts
  <1>4. u.s \in Storages /\ u.s # None /\ u.d = Bytes(x)
    BY <1>2, <1>3, UniqueIsOwn, JunkAssumption
  <1>5. Effect(x, u.s, r.d, reader[x], writer[x] + r.n)
    BY WriteEffect
  <1>6. r \in SetBytes(Bytes(x), bs, writer[x])
    BY <1>2, <1>4
  <1>7. LogOf(u.s, r.d, writer[x] + r.n) = Log(x) \o app
    <2>1. LogOf(u.s, r.d, writer[x] + r.n) = LogOf(store[x], Bytes(x), writer[x]) \o app
      BY <1>3, <1>4, <1>6, AppendedLog
    <2>2. Log(x) = LogOf(store[x], Bytes(x), writer[x])
      BY LogFacts
    <2> QED  BY <2>1, <2>2, Zenon
  <1>8. r.n \in {0, Len(bs)}
    BY <1>3, <1>6, SetBytesKeeps
  <1> HIDE DEF app
  <1>9. Log(x)' = Log(x) \o app
    <2>1. Logs' = [Logs EXCEPT ![x] = Log(x) \o app]
      BY <1>5, <1>7, EffectView
    <2>2. Logs'[x] = Log(x) \o app
      BY <2>1 DEF Logs
    <2> QED  BY <2>2 DEF Logs
  <1>10. writer'[x] = writer[x] + r.n
    BY <1>3, <1>5 DEF Effect, Cursors, TypeOK
  <1>11. ~aborted'
    BY <1>5 DEF Effect
  <1> QED  BY <1>4, <1>7, <1>8, <1>9, <1>10, <1>11 DEF app

LEMMA WriteQueue ==
  ASSUME QueueInv, ~SplitMayFail, NEW x \in Buffers, Alive(x), NEW bs \in Seq(Byte),
         NEW u, NEW r, Writes(x, bs, u, r)
  PROVE  Queue!Write(x) /\ Written'
  <1> DEFINE app == IF r.n = 0 THEN <<>> ELSE bs
             n   == r.n
  <1>0. BufferInv /\ Log(x) \in Seq(Byte)
    BY DEF QueueInv, Written
  <1>1. bs \in Seq(Contents) /\ Len(bs) \in Nat
    BY DEF Contents
  <1>2. writer[x] \in Nat /\ SizeMax \in Nat /\ out' = <<>>
    BY <1>0, AliveFacts DEF Writes
  <1>3. /\ u.s # None /\ r.n \in {0, Len(bs)}
        /\ LogOf(u.s, r.d, writer[x] + r.n) = Log(x) \o app
    BY <1>0, <1>1, WriteLog
  <1>4. Effect(x, u.s, r.d, reader[x], writer[x] + r.n)
    BY <1>0, <1>1, WriteEffect
  <1>5. Logs[x] = Log(x) /\ x \in Exists /\ Len(Log(x)) = writer[x]
    BY <1>0, LogFacts
  <1>6. app \in Seq(Byte) /\ Len(app) = r.n /\ r.n \in Nat
    BY <1>1, <1>3, EmptySeq
  <1> HIDE DEF app
  <1>7. Log(x) \o app \in Seq(Byte)
    BY <1>0, <1>6, ConcatProperties
  <1>8. Written'
    BY <1>3, <1>4, <1>7, EffectWrites
  <1>9. n \in 0..(SizeMax - Len(Logs[x])) /\ app \in [1..n -> Byte]
    <2>1. writer[x] + r.n \in Size
      BY <1>4 DEF Effect
    <2>2. writer[x] + r.n <= SizeMax
      BY <2>1 DEF Size
    <2> QED  BY <1>2, <1>5, <1>6, <2>2
  <1>10. Queue!Becomes(x, Logs[x] \o app, reader[x])
    BY <1>0, <1>2, <1>3, <1>4, <1>5, EffectBecomes
  <1>11. Exists' = Exists
    <2>1. Exists' = Exists \cup {x}
      BY <1>0, <1>3, <1>4, EffectView
    <2> QED  BY <1>5, <2>1
  <1>12. Queue!Write(x)
    BY <1>5, <1>9, <1>10, <1>11 DEF Queue!Write, Logs, Exists
  <1> QED  BY <1>8, <1>12

\* What is read of a block is what is read of the log.
LEMMA PartOfLog ==
  ASSUME BufferInv, ~SplitMayFail, NEW x \in Buffers, Alive(x), NEW from \in Nat, NEW n \in Nat,
         from + n <= writer[x]
  PROVE  /\ SubSeq(Log(x), from + 1, from + n) = SubSeq(Bytes(x), from + 1, from + n)
         /\ Written => SubSeq(Log(x), from + 1, from + n) \in Seq(Byte)
  <1> DEFINE l == SubSeq(Log(x), from + 1, from + n)
             p == SubSeq(Bytes(x), from + 1, from + n)
  <1>1. /\ Log(x) \in Seq(Contents) /\ Len(Log(x)) = writer[x]
        /\ \A i \in 1..writer[x] : Log(x)[i] = Bytes(x)[i]
    BY LogFacts
  <1>2. /\ Bytes(x) \in Blocks /\ writer[x] \in Nat /\ writer[x] <= Len(Bytes(x))
        /\ writer[x] \in Size
    BY AliveFacts
  <1>3. from + n <= Len(Bytes(x)) /\ Len(Bytes(x)) \in Nat
    BY <1>2, BlockLen
  <1>4. p \in Seq(Contents) /\ Len(p) = n /\ \A i \in 1..n : p[i] = Bytes(x)[from + i]
    BY <1>2, <1>3, PartOfBlock
  <1>5. Log(x) \in Blocks
    BY <1>1, <1>2, BlockIsSeq
  <1>6. l \in Seq(Contents) /\ Len(l) = n /\ \A i \in 1..n : l[i] = Log(x)[from + i]
    BY <1>1, <1>2, <1>5, PartOfBlock
  <1>7. ASSUME Written PROVE l \in Seq(Byte)
    <2>1. Log(x) \in Seq(Byte) /\ Len(Log(x)) = writer[x]
      BY <1>1, <1>7 DEF Written
    <2>2. ASSUME NEW i \in (from + 1)..(from + n) PROVE Log(x)[i] \in Byte
      <3>1. i \in 1..writer[x]
        BY <1>2
      <3> QED  BY <2>1, <3>1
    <2>3. from + 1 \in Int /\ from + n \in Int
      OBVIOUS
    <2> QED  BY <2>2, <2>3, SubSeqProperties
  <1> HIDE DEF l, p
  <1>8. ASSUME NEW i \in 1..n PROVE l[i] = p[i]
    <2>1. from + i \in 1..writer[x]
      BY <1>2
    <2> QED  BY <1>1, <1>4, <1>6, <2>1
  <1>9. l = p
    BY <1>4, <1>6, <1>8, SeqEqual
  <1> QED  BY <1>7, <1>9 DEF l, p

\* The reader cursor moves, and nothing else is seen.
LEMMA ForwardQueue ==
  ASSUME QueueInv, ~SplitMayFail, NEW x \in Buffers, Alive(x), NEW n \in Nat,
         reader[x] + n <= writer[x],
         Effect(x, store[x], Bytes(x), reader[x] + n, writer[x])
  PROVE  /\ x \in Exists /\ Exists' = Exists /\ Logs' = Logs /\ Written'
         /\ n \in 0..(Len(Logs[x]) - reader[x])
         /\ reader' = [reader EXCEPT ![x] = reader[x] + n]
  <1>0. BufferInv /\ Log(x) \in Seq(Byte)
    BY DEF QueueInv, Written
  <1>1. /\ Log(x) = LogOf(store[x], Bytes(x), writer[x]) /\ Logs[x] = Log(x) /\ x \in Exists
        /\ Len(Log(x)) = writer[x]
    BY <1>0, LogFacts
  <1>2. store[x] # None /\ reader[x] \in Nat /\ writer[x] \in Nat
    BY <1>0, AliveFacts
  <1>3. Written'
    BY <1>0, <1>1, EffectWrites
  <1>4. /\ Logs' = [Logs EXCEPT ![x] = Log(x)] /\ Exists' = Exists \cup {x}
        /\ reader' = [reader EXCEPT ![x] = reader[x] + n]
    BY <1>0, <1>1, <1>2, EffectView
  <1>5. Logs' = Logs
    <2>1. Logs = [Logs EXCEPT ![x] = Log(x)]
      BY <1>1 DEF Logs
    <2> QED  BY <1>4, <2>1
  <1>6. n \in 0..(Len(Logs[x]) - reader[x])
    BY <1>1, <1>2
  <1>7. Exists' = Exists
    BY <1>1, <1>4
  <1> QED  BY <1>1, <1>3, <1>4, <1>5, <1>6, <1>7

LEMMA ReadQueue ==
  ASSUME QueueInv, ~SplitMayFail, NEW x \in Buffers, Alive(x), NEW n \in Nat,
         reader[x] + n <= writer[x],
         out' = SubSeq(Bytes(x), reader[x] + 1, reader[x] + n),
         Effect(x, store[x], Bytes(x), reader[x] + n, writer[x])
  PROVE  Queue!Read(x) /\ Written'
  <1>0. BufferInv /\ reader[x] \in Nat
    BY AliveFacts DEF QueueInv
  <1>1. /\ x \in Exists /\ Exists' = Exists /\ Logs' = Logs /\ Written'
        /\ n \in 0..(Len(Logs[x]) - reader[x])
        /\ reader' = [reader EXCEPT ![x] = reader[x] + n]
    BY ForwardQueue
  <1>2. out' = SubSeq(Logs[x], reader[x] + 1, reader[x] + n)
    <2>1. out' = SubSeq(Log(x), reader[x] + 1, reader[x] + n)
      BY <1>0, PartOfLog
    <2> QED  BY <1>0, <2>1, LogFacts
  <1>3. n \in 0..Queue!Readable(x)
    BY <1>1 DEF Queue!Readable, Logs
  <1> QED  BY <1>1, <1>2, <1>3 DEF Queue!Read, Logs, Exists

LEMMA SkipQueue ==
  ASSUME QueueInv, ~SplitMayFail, NEW x \in Buffers, NEW size \in Size, skipBytes(x, size)
  PROVE  Queue!Skip(x) /\ Written'
  <1>0. BufferInv
    BY DEF QueueInv
  <1>1. Alive(x) /\ out' = <<>>
    BY <1>0, SkipEffect
  <1>2. PICK n \in Nat : /\ reader[x] + n <= writer[x]
                         /\ Effect(x, store[x], Bytes(x), reader[x] + n, writer[x])
    BY <1>0, SkipEffect
  <1>3. /\ x \in Exists /\ Exists' = Exists /\ Written'
        /\ n \in 0..(Len(Logs[x]) - reader[x])
    BY <1>1, <1>2, ForwardQueue
  <1>4. LogOf(store[x], Bytes(x), writer[x]) = Logs[x]
    BY <1>0, <1>1, LogFacts
  <1>5. Queue!Becomes(x, Logs[x], reader[x] + n)
    BY <1>0, <1>1, <1>2, <1>4, EffectBecomes
  <1>6. n \in 0..Queue!Readable(x)
    BY <1>3 DEF Queue!Readable, Logs
  <1> QED  BY <1>3, <1>5, <1>6 DEF Queue!Skip, Logs, Exists

LEMMA DiscardQueue ==
  ASSUME QueueInv, ~SplitMayFail, NEW x \in Buffers, discardReadBytes(x)
  PROVE  Queue!DiscardRead(x) /\ Written'
  <1> DEFINE n == readableBytes(x)
  <1>0. BufferInv
    BY DEF QueueInv
  <1>1. Alive(x) /\ out' = <<>>
    BY <1>0, DiscardEffect
  <1>2. PICK s \in Storages, d \in Blocks :
          /\ Effect(x, s, d, 0, n)
          /\ n <= Len(d)
          /\ \A i \in 1..n : d[i] = Bytes(x)[reader[x] + i]
    BY <1>0, DiscardEffect
  <1>3. /\ Bytes(x) \in Blocks /\ reader[x] \in Nat /\ writer[x] \in Nat
        /\ writer[x] <= Len(Bytes(x)) /\ n = writer[x] - reader[x] /\ n \in Nat
    BY <1>0, <1>1, AliveFacts
  <1> HIDE DEF n
  <1>4. s # None
    BY JunkAssumption
  <1>5. /\ LogOf(s, d, n) \in Seq(Contents) /\ Len(LogOf(s, d, n)) = n
        /\ \A i \in 1..n : LogOf(s, d, n)[i] = d[i]
    BY <1>2, <1>3, <1>4, LogOfBlock
  <1> DEFINE p == SubSeq(Bytes(x), reader[x] + 1, reader[x] + n)
  <1>6. reader[x] + n = writer[x] /\ reader[x] + n <= Len(Bytes(x)) /\ reader[x] + n <= writer[x]
    BY <1>3
  <1>7. p \in Seq(Contents) /\ Len(p) = n /\ \A i \in 1..n : p[i] = Bytes(x)[reader[x] + i]
    BY <1>3, <1>6, PartOfBlock, ZenonT(30)
  <1> HIDE DEF p
  <1>8. LogOf(s, d, n) = p
    <2>1. \A i \in 1..n : LogOf(s, d, n)[i] = p[i]
      BY <1>2, <1>5, <1>7
    <2> QED  BY <1>5, <1>7, <2>1, SeqEqual
  <1>9. /\ p = SubSeq(Log(x), reader[x] + 1, reader[x] + n)
        /\ p \in Seq(Byte)
    BY <1>0, <1>1, <1>3, <1>6, PartOfLog DEF p, QueueInv
  <1>10. Log(x) = Logs[x] /\ x \in Exists /\ Len(Log(x)) = writer[x]
    BY <1>0, <1>1, LogFacts
  <1>11. p = SubSeq(Logs[x], reader[x] + 1, Len(Logs[x]))
    BY <1>6, <1>9, <1>10, Zenon
  <1>12. Queue!Becomes(x, SubSeq(Logs[x], reader[x] + 1, Len(Logs[x])), 0)
    BY <1>0, <1>1, <1>2, <1>8, <1>11, EffectBecomes
  <1>13. Exists' = Exists
    <2>1. Exists' = Exists \cup {x}
      BY <1>0, <1>2, <1>4, EffectView
    <2> QED  BY <1>10, <2>1
  <1>14. Written'
    BY <1>2, <1>8, <1>9, EffectWrites
  <1> QED  BY <1>10, <1>12, <1>13, <1>14 DEF Queue!DiscardRead, Logs, Exists

LEMMA MutateQueue ==
  ASSUME QueueInv, ~SplitMayFail, NEW x \in Buffers, NEW i \in Size \ {0}, NEW b \in Byte,
         mutableBytes(x, i, b)
  PROVE  Queue!Poke(x) /\ Written'
  <1>0. BufferInv /\ Log(x) \in Seq(Byte)
    BY DEF QueueInv, Written
  <1>1. Alive(x) /\ out' = <<>>
    BY <1>0, MutateEffect
  <1>2. PICK s \in Storages, d \in Blocks :
          /\ Effect(x, s, d, reader[x], writer[x])
          /\ d = IF i \in 1..Len(Bytes(x)) THEN [Bytes(x) EXCEPT ![i] = b] ELSE Bytes(x)
    BY <1>0, MutateEffect
  <1>3. /\ Bytes(x) \in Blocks /\ writer[x] \in Nat /\ writer[x] <= Len(Bytes(x)) /\ i \in Nat
        /\ store[x] # None
    BY <1>0, <1>1, AliveFacts, SizeMaxNat DEF Size
  <1>4. /\ Log(x) = Logs[x] /\ x \in Exists /\ Log(x) \in Seq(Contents) /\ Len(Log(x)) = writer[x]
        /\ \A j \in 1..writer[x] : Log(x)[j] = Bytes(x)[j]
        /\ Log(x) = LogOf(store[x], Bytes(x), writer[x])
    BY <1>0, <1>1, LogFacts
  <1>5. s # None /\ b \in Contents /\ Len(Bytes(x)) \in Nat /\ Bytes(x) \in Seq(Contents)
    BY <1>3, BlockLen, JunkAssumption DEF Contents
  <1> DEFINE new == LogOf(s, d, writer[x])
  <1>6. /\ Len(d) = Len(Bytes(x)) /\ Len(d) \in Nat
        /\ \A j \in 1..Len(Bytes(x)) : d[j] = IF j = i THEN b ELSE Bytes(x)[j]
    <2>1. CASE i \in 1..Len(Bytes(x))
      BY <1>2, <1>5, <2>1, ExceptSeq
    <2>2. CASE i \notin 1..Len(Bytes(x))
      BY <1>2, <1>5, <2>2
    <2> QED  BY <2>1, <2>2
  <1>7. /\ new \in Seq(Contents) /\ Len(new) = writer[x]
        /\ \A j \in 1..writer[x] : new[j] = d[j]
    BY <1>3, <1>5, <1>6, LogOfBlock
  <1> HIDE DEF new
  <1>8. ASSUME NEW j \in 1..writer[x] PROVE new[j] = IF j = i THEN b ELSE Log(x)[j]
    <2>1. j \in 1..Len(Bytes(x))
      BY <1>3, <1>5
    <2> QED  BY <1>4, <1>6, <1>7, <2>1
  <1>9. Exists' = Exists
    <2>1. Exists' = Exists \cup {x}
      BY <1>0, <1>2, <1>5, EffectView
    <2> QED  BY <1>4, <2>1
  <1>10. Queue!Becomes(x, new, reader[x])
    BY <1>0, <1>1, <1>2, EffectBecomes DEF new
  <1>11. CASE i \in 1..writer[x]
    <2> DEFINE e == [Log(x) EXCEPT ![i] = b]
    <2>1. /\ e \in Seq(Contents) /\ e \in Seq(Byte) /\ Len(e) = writer[x]
          /\ \A j \in 1..writer[x] : e[j] = IF j = i THEN b ELSE Log(x)[j]
      BY <1>0, <1>4, <1>5, <1>11, ExceptSeq
    <2> HIDE DEF e
    <2>2. new = e
      BY <1>7, <1>8, <2>1, SeqEqual
    <2>3. Queue!Becomes(x, [Logs[x] EXCEPT ![i] = b], reader[x]) /\ i \in 1..Len(Logs[x])
      BY <1>4, <1>10, <1>11, <2>2 DEF e
    <2>4. Queue!Poke(x)
      BY <1>4, <1>9, <2>3 DEF Queue!Poke, Logs, Exists
    <2>5. Written'
      BY <1>2, <2>1, <2>2, EffectWrites DEF new
    <2> QED  BY <2>4, <2>5
  <1>12. CASE i \notin 1..writer[x]
    <2>1. new = Log(x)
      <3>1. \A j \in 1..writer[x] : new[j] = Log(x)[j]
        BY <1>8, <1>12
      <3> QED  BY <1>4, <1>7, <3>1, SeqEqual
    <2>2. Queue!Becomes(x, Logs[x], reader[x])
      BY <1>4, <1>10, <2>1
    <2>3. Queue!Poke(x)
      BY <1>4, <1>9, <2>2 DEF Queue!Poke, Logs, Exists
    <2>4. Written'
      BY <1>0, <1>2, <2>1, EffectWrites DEF new
    <2> QED  BY <2>3, <2>4
  <1> QED  BY <1>11, <1>12

\* The bytes that a buffer appends of itself.
LEMMA OwnBytes ==
  ASSUME BufferInv, ~SplitMayFail, NEW x \in Buffers, Alive(x), NEW size \in Nat,
         reader[x] + size <= writer[x]
  PROVE  LET own == Part(Bytes(x), reader[x], reader[x] + size) IN
         /\ Written => own \in Seq(Byte)
         /\ Len(own) = size
         /\ \A i \in 1..size : own[i] = Log(x)[reader[x] + i]
  <1> DEFINE own == Part(Bytes(x), reader[x], reader[x] + size)
  <1>1. /\ Bytes(x) \in Blocks /\ reader[x] \in Nat /\ writer[x] \in Nat
        /\ writer[x] <= Len(Bytes(x))
    BY AliveFacts
  <1>2. Len(Bytes(x)) \in Nat /\ (Bytes(x) = <<>> <=> Len(Bytes(x)) = 0)
    BY <1>1, BlockLen
  <1>3. CASE Bytes(x) = <<>>
    <2>1. own = <<>>
      BY <1>3 DEF Part
    <2>2. size = 0
      BY <1>1, <1>2, <1>3
    <2> HIDE DEF own
    <2>3. (Written => own \in Seq(Byte)) /\ Len(own) = size
      BY <2>1, <2>2, EmptySeq
    <2>4. \A i \in 1..size : own[i] = Log(x)[reader[x] + i]
      BY <2>2
    <2> QED  BY <2>3, <2>4 DEF own
  <1>4. CASE Bytes(x) # <<>>
    <2>1. own = SubSeq(Bytes(x), reader[x] + 1, reader[x] + size)
      BY <1>4 DEF Part
    <2>2. /\ SubSeq(Log(x), reader[x] + 1, reader[x] + size) = own
          /\ Written => own \in Seq(Byte)
      BY <1>1, <2>1, PartOfLog, ZenonT(30)
    <2>3. reader[x] + size <= Len(Bytes(x))
      BY <1>1, <1>2
    <2> HIDE DEF own
    <2>4. Len(own) = size /\ \A i \in 1..size : own[i] = Bytes(x)[reader[x] + i]
      <3> DEFINE p == SubSeq(Bytes(x), reader[x] + 1, reader[x] + size)
      <3>1. Len(p) = size /\ \A i \in 1..size : p[i] = Bytes(x)[reader[x] + i]
        BY <1>1, <2>3, PartOfBlock
      <3> QED  BY <2>1, <3>1
    <2>5. \A i \in 1..writer[x] : Log(x)[i] = Bytes(x)[i]
      BY LogFacts
    <2>6. ASSUME NEW i \in 1..size PROVE own[i] = Log(x)[reader[x] + i]
      <3>1. reader[x] + i \in 1..writer[x]
        BY <1>1
      <3> QED  BY <2>4, <2>5, <3>1
    <2> QED  BY <2>2, <2>4, <2>6 DEF own
  <1> QED  BY <1>3, <1>4

\* Every operation is an operation of the queues.
LEMMA QueueStep ==
  ASSUME QueueInv, ~SplitMayFail, ~ReallocMoves, Next
  PROVE  Queue!Next /\ Written'
  <1>0. BufferInv
    BY DEF QueueInv
  <1>1. ASSUME NEW x \in Buffers, NEW y \in Buffers, copy(x, y) PROVE Queue!Next /\ Written'
    BY <1>1, CopyQueue DEF Queue!Next
  <1>2. ASSUME NEW x \in Buffers, destroy(x) PROVE Queue!Next /\ Written'
    BY <1>2, DestroyQueue DEF Queue!Next
  <1>3. ASSUME NEW x \in Buffers, NEW n \in Size, buffer(x, n) PROVE Queue!Next /\ Written'
    BY <1>3, MakeQueue DEF Queue!Next
  <1>4. ASSUME NEW x \in Buffers, NEW n \in Size, NEW bs \in [1..n -> Byte], writeBytes(x, bs)
        PROVE  Queue!Next /\ Written'
    <2>1. Alive(x) /\ bs \in Seq(Byte)
      BY <1>0, <1>4, WriteBytesEffect
    <2>2. PICK u, r : Writes(x, bs, u, r)
      BY <1>0, <1>4, WriteBytesEffect
    <2> QED  BY <2>1, <2>2, WriteQueue DEF Queue!Next
  <1>5. ASSUME NEW x \in Buffers, NEW n \in Size, writeOwnBytes(x, n)
        PROVE  Queue!Next /\ Written'
    <2> DEFINE own == Part(Bytes(x), reader[x], reader[x] + n)
    <2>1. Alive(x) /\ n \in Nat /\ reader[x] + n <= writer[x]
      BY <1>0, <1>5, WriteOwnBytesEffect
    <2>2. PICK u, r : Writes(x, own, u, r)
      BY <1>0, <1>5, WriteOwnBytesEffect, Zenon
    <2>3. own \in Seq(Byte)
      BY <1>0, <2>1, OwnBytes DEF QueueInv
    <2> QED  BY <2>1, <2>2, <2>3, WriteQueue DEF Queue!Next
  <1>6. ASSUME NEW x \in Buffers, NEW n \in Size, readBytes(x, n) PROVE Queue!Next /\ Written'
    BY <1>0, <1>6, ReadBytesEffect, ReadQueue, Zenon DEF Queue!Next
  <1>7. ASSUME NEW x \in Buffers, NEW n \in Size, readString(x, n) PROVE Queue!Next /\ Written'
    BY <1>0, <1>7, ReadStringEffect, ReadQueue, Zenon DEF Queue!Next
  <1>8. ASSUME NEW x \in Buffers, NEW n \in Size, skipBytes(x, n) PROVE Queue!Next /\ Written'
    BY <1>8, SkipQueue DEF Queue!Next
  <1>9. ASSUME NEW x \in Buffers, discardReadBytes(x) PROVE Queue!Next /\ Written'
    BY <1>9, DiscardQueue DEF Queue!Next
  <1>10. ASSUME NEW x \in Buffers, clear(x) PROVE Queue!Next /\ Written'
    BY <1>10, ClearQueue DEF Queue!Next
  <1>11. ASSUME NEW x \in Buffers, NEW i \in Size \ {0}, NEW b \in Byte, mutableBytes(x, i, b)
         PROVE  Queue!Next /\ Written'
    BY <1>11, MutateQueue DEF Queue!Next
  <1> QED  BY <1>1, <1>2, <1>3, <1>4, <1>5, <1>6, <1>7, <1>8, <1>9, <1>10, <1>11, Zenon
           DEF Next

\* If splits can be allocated and reallocate does not move a block that is being
\* read, the buffers are independent queues of bytes: sharing, splitting, growing
\* and compacting blocks cannot be seen (ByteBuffer.cpp:158-265).
THEOREM QueueImplemented ==
  ASSUME ~SplitMayFail, ~ReallocMoves
  PROVE  Spec => RefinesByteQueue
  <1>1. Init => Queue!Init /\ QueueInv
    <2> SUFFICES ASSUME Init PROVE Queue!Init /\ QueueInv
      OBVIOUS
    <2>1. ASSUME NEW x \in Buffers PROVE Log(x) = <<>>
      BY DEF Init, Log
    <2>2. Written
      BY <2>1, NoBytesWritten DEF Written
    <2>3. Queue!Init
      BY <2>1 DEF Init, Queue!Init
    <2> QED  BY <2>2, <2>3, BufferInvInit DEF QueueInv
  <1>2. QueueInv /\ [Next]_vars => QueueInv' /\ [Queue!Next]_(Queue!vars)
    <2>1. ASSUME QueueInv, Next PROVE QueueInv' /\ Queue!Next
      BY <2>1, BufferInvStep, QueueStep DEF QueueInv
    <2>2. ASSUME QueueInv, UNCHANGED vars PROVE QueueInv' /\ UNCHANGED Queue!vars
      <3>1. UNCHANGED <<store, data, reader, writer, out, aborted>>
        BY <2>2 DEF vars
      <3>2. ASSUME NEW x \in Buffers PROVE Log(x)' = Log(x)
        BY <3>1 DEF Log, Bytes
      <3>3. Written'
        BY <2>2, <3>2 DEF QueueInv, Written
      <3>4. BufferInv'
        BY <2>2, <3>1 DEF QueueInv, BufferInv, TypeOK, Inside, AbortNeedsSplit, Bytes
      <3>5. UNCHANGED Queue!vars
        BY <3>1, <3>2 DEF Queue!vars
      <3> QED  BY <3>3, <3>4, <3>5 DEF QueueInv
    <2> QED  BY <2>1, <2>2
  <1> QED  BY <1>1, <1>2, PTL DEF Spec, RefinesByteQueue, Queue!Spec

\* If splits can be allocated, a write of a client's bytes keeps the contents, and
\* does not abort, whatever other allocations fail (ByteBuffer.cpp:188-196).
THEOREM ContentsKept ==
  ASSUME ~SplitMayFail
  PROVE  Spec => WriteKeepsContents
  <1> DEFINE Keeps == \A x \in Buffers, n \in Size : \A bs \in [1..n -> Byte] :
                        writeBytes(x, bs) =>
                          /\ ~aborted'
                          /\ \A i \in 1..Len(Log(x)) : Log(x)'[i] = Log(x)[i]
  <1>1. ASSUME BufferInv, NEW x \in Buffers, NEW n \in Size, NEW bs \in [1..n -> Byte],
               writeBytes(x, bs)
        PROVE  ~aborted' /\ \A i \in 1..Len(Log(x)) : Log(x)'[i] = Log(x)[i]
    <2>1. Alive(x) /\ bs \in Seq(Contents)
      BY <1>1, WriteBytesEffect
    <2>2. PICK u, r : Writes(x, bs, u, r)
      BY <1>1, WriteBytesEffect
    <2> DEFINE app == IF r.n = 0 THEN <<>> ELSE bs
    <2>3. Log(x)' = Log(x) \o app /\ ~aborted'
      BY <1>1, <2>1, <2>2, WriteLog
    <2>4. app \in Seq(Contents)
      BY <2>1, EmptySeq
    <2>5. Log(x) \in Seq(Contents)
      BY <1>1, <2>1, LogFacts
    <2> HIDE DEF app
    <2>6. \A i \in 1..Len(Log(x)) : (Log(x) \o app)[i] = Log(x)[i]
      BY <2>4, <2>5, ConcatProperties
    <2> QED  BY <2>3, <2>6
  <1>2. BufferInv => [Keeps]_vars
    BY <1>1
  <1> QED  BY <1>2, BufferInvHolds, PTL DEF WriteKeepsContents

\* If splits can be allocated, a write appends all the client's bytes or none,
\* whatever other allocations fail (ByteBuffer.cpp:132-144, 188-192).
THEOREM AllOrNothingWritten ==
  ASSUME ~SplitMayFail
  PROVE  Spec => WritesAllOrNothing
  <1> DEFINE Appends == \A x \in Buffers : Log(x)' # Log(x) =>
                          \A n \in Size : \A bs \in [1..n -> Byte] :
                            writeBytes(x, bs) => Log(x)' = Log(x) \o bs
  <1>1. ASSUME BufferInv, NEW x \in Buffers, Log(x)' # Log(x), NEW n \in Size,
               NEW bs \in [1..n -> Byte], writeBytes(x, bs)
        PROVE  Log(x)' = Log(x) \o bs
    <2>1. Alive(x) /\ bs \in Seq(Contents)
      BY <1>1, WriteBytesEffect
    <2>2. PICK u, r : Writes(x, bs, u, r)
      BY <1>1, WriteBytesEffect
    <2>3. Log(x)' = Log(x) \o (IF r.n = 0 THEN <<>> ELSE bs)
      BY <1>1, <2>1, <2>2, WriteLog
    <2>4. Log(x) \o <<>> = Log(x)
      BY <1>1, <2>1, LogFacts, ConcatEmptySeq
    <2> QED  BY <1>1, <2>3, <2>4
  <1>2. BufferInv => [Appends]_vars
    BY <1>1
  <1> QED  BY <1>2, BufferInvHolds, PTL DEF WritesAllOrNothing

-----------------------------------------------------------------------------
(***************************************************************************)
(* Overlap, whatever reallocate does.                                       *)
(***************************************************************************)
\* A shared block stays where it is, and a block with room is not reallocated:
\* the source of the write is then still the buffer's own bytes.
LEMMA OwnSource ==
  ASSUME BufferInv, NEW x \in Buffers, NEW size \in Size, writeOwnBytes(x, size),
         IsShared(x) \/ Fits(Bytes(x), writer[x] + size)
  PROVE  \E u, r : Writes(x, Part(Bytes(x), reader[x], reader[x] + size), u, r)
  <1> DEFINE own == Part(Bytes(x), reader[x], reader[x] + size)
  <1>1. Alive(x)
    BY DEF writeOwnBytes
  <1>2. store \in Stores
    BY <1>1 DEF BufferInv, TypeOK, Stores
  <1> HIDE DEF own
  <1>3. PICK u \in Unique(x) :
          \E r \in SetBytes(u.d, own, writer[x])
                     \cup (IF ReallocMoves /\ own # <<>> /\ u.s = store[x]
                              /\ ~Fits(u.d, writer[x] + size)
                           THEN SetBytes(u.d, Fresh(size), writer[x]) ELSE {}) :
            /\ Installs(x, u.s, r.d)
            /\ moveWriterIndexTo(x, ForwardBy(writer[x], r.n), Len(r.d))
    BY Zenon DEF writeOwnBytes, own
  <1>4. ~(u.s = store[x] /\ ~Fits(u.d, writer[x] + size))
    <2>1. CASE IsShared(x)
      <3> DEFINE free == CHOOSE s \in Storages : ~Referenced(store, s)
      <3>1. store[x] # free
        BY <1>2, <2>1, FreeAddress
      <3>2. u \in {[s |-> free, d |-> Bytes(x)]}
                \cup (IF SplitMayFail THEN {[s |-> free, d |-> <<>>]} ELSE {})
        BY <2>1, Zenon DEF Unique
      <3> HIDE DEF free
      <3>3. u.s = free
        BY <3>2
      <3> QED  BY <3>1, <3>3
    <2>2. CASE ~IsShared(x)
      <3>1. u = [s |-> store[x], d |-> Bytes(x)]
        BY <2>2 DEF Unique
      <3>2. u.d = Bytes(x)
        BY <3>1
      <3> QED  BY <2>2, <3>2
    <2> QED  BY <2>1, <2>2
  <1>5. PICK r \in SetBytes(u.d, own, writer[x]) :
            /\ Installs(x, u.s, r.d)
            /\ moveWriterIndexTo(x, ForwardBy(writer[x], r.n), Len(r.d))
    BY <1>3, <1>4, Zenon
  <1>6. out' = <<>> /\ UNCHANGED reader
    BY DEF writeOwnBytes
  <1>7. Writes(x, own, u, r)
    BY <1>5, <1>6, Zenon DEF Writes
  <1> QED  BY <1>7, Zenon DEF own

\* The promise of ByteBuffer.h:118 is broken only by a block that has to grow
\* under the source: bytes that fit, and bytes of a shared block, are appended
\* as they are, wherever reallocate moves blocks and whatever allocation fails,
\* that of a split included.
THEOREM OverlapNeedsGrowth ==
  Spec => OverlapFailsOnlyByGrowth
  <1> DEFINE Copies == \A x \in Buffers, n \in Size :
                         writeOwnBytes(x, n) /\ (IsShared(x) \/ Fits(Bytes(x), writer[x] + n))
                           => AppendsOwn(x)
  <1>1. ASSUME BufferInv, NEW x \in Buffers, NEW n \in Size, writeOwnBytes(x, n),
               IsShared(x) \/ Fits(Bytes(x), writer[x] + n),
               NEW i \in 1..(writer'[x] - writer[x])
        PROVE  Log(x)'[writer[x] + i] = Log(x)[reader[x] + i]
    <2> DEFINE own == Part(Bytes(x), reader[x], reader[x] + n)
    <2>1. Alive(x) /\ n \in Nat /\ reader[x] + n <= writer[x] /\ own \in Seq(Contents)
      BY <1>1, WriteOwnBytesEffect
    <2>2. PICK u, r : Writes(x, own, u, r)
      BY <1>1, OwnSource, Zenon
    <2>3. /\ TypeOK /\ store[x] # None /\ Bytes(x) \in Blocks
          /\ reader[x] \in Nat /\ writer[x] \in Nat /\ writer[x] \in Size
          /\ writer[x] <= Len(Bytes(x)) \/ Bytes(x) = <<>>
      BY <1>1, <2>1, AliveFacts
    <2>4. Len(Bytes(x)) \in Nat
      BY <2>3, BlockLen
    <2>5. /\ Bytes(x) = <<>> => own = <<>>
          /\ Bytes(x) # <<>> => Len(own) = n /\ \A j \in 1..n : own[j] = Bytes(x)[reader[x] + j]
      <3>1. /\ reader[x] + n \in Nat /\ reader[x] <= reader[x] + n
            /\ reader[x] + n <= Len(Bytes(x)) \/ Bytes(x) = <<>>
            /\ (reader[x] + n) - reader[x] = n
        BY <2>1, <2>3, <2>4
      <3>2. /\ Bytes(x) = <<>> => own = <<>>
            /\ Bytes(x) # <<>> => Len(own) = (reader[x] + n) - reader[x]
            /\ Bytes(x) # <<>> => \A j \in 1..((reader[x] + n) - reader[x]) :
                                    own[j] = Bytes(x)[reader[x] + j]
        BY <2>3, <3>1, PartInBlock, ZenonT(30)
      <3> HIDE DEF own
      <3> QED  BY <3>1, <3>2
    <2> HIDE DEF own
    <2>6. u \in Unique(x) /\ r \in SetBytes(u.d, own, writer[x])
      BY <2>2 DEF Writes
    <2>7. u.d \in Blocks /\ u.s # None
      BY <2>3, <2>6, UniqueIsOwn, JunkAssumption
    <2>8. /\ r.d \in Blocks /\ r.n \in {0, Len(own)}
          /\ r.n # 0 => writer[x] + r.n <= Len(r.d)
          /\ r.n # 0 => \A j \in 1..Len(own) : r.d[writer[x] + j] = own[j]
      BY <2>1, <2>3, <2>6, <2>7, SetBytesKeeps
    <2>9. Effect(x, u.s, r.d, reader[x], writer[x] + r.n)
      BY <1>1, <2>1, <2>2, WriteEffect
    <2>10. writer'[x] = writer[x] + r.n
      BY <2>3, <2>9 DEF Effect, Cursors, TypeOK
    <2>11. r.n # 0 /\ r.n = Len(own) /\ r.n \in Nat /\ i \in 1..r.n
      BY <1>1, <2>1, <2>3, <2>8, <2>10
    <2>12. Bytes(x) # <<>> /\ Len(own) = n /\ writer[x] <= Len(Bytes(x))
      <3>1. own # <<>>
        BY <2>11
      <3> QED  BY <2>3, <2>5, <3>1
    <2>13. /\ writer[x] + i \in 1..(writer[x] + r.n) /\ reader[x] + i \in 1..writer[x]
           /\ writer[x] + r.n \in Nat
      BY <2>1, <2>3, <2>11, <2>12
    <2>14. Log(x)' = LogOf(u.s, r.d, writer[x] + r.n)
      <3>1. Logs' = [Logs EXCEPT ![x] = LogOf(u.s, r.d, writer[x] + r.n)]
        BY <1>1, <2>9, EffectView
      <3>2. Logs'[x] = LogOf(u.s, r.d, writer[x] + r.n)
        BY <3>1 DEF Logs
      <3> QED  BY <3>2 DEF Logs
    <2>15. Log(x)'[writer[x] + i] = own[i]
      <3>1. LogOf(u.s, r.d, writer[x] + r.n)[writer[x] + i] = r.d[writer[x] + i]
        BY <2>7, <2>8, <2>11, <2>13, LogOfBlock
      <3> QED  BY <2>8, <2>11, <2>14, <3>1
    <2>16. Log(x)[reader[x] + i] = Bytes(x)[reader[x] + i]
      <3>1. Log(x) = LogOf(store[x], Bytes(x), writer[x])
        BY DEF Log, LogOf
      <3>2. LogOf(store[x], Bytes(x), writer[x])[reader[x] + i] = Bytes(x)[reader[x] + i]
        BY <2>3, <2>12, <2>13, LogOfBlock
      <3> QED  BY <3>1, <3>2
    <2>17. own[i] = Bytes(x)[reader[x] + i]
      BY <2>5, <2>11, <2>12, <2>13
    <2> QED  BY <2>15, <2>16, <2>17
  <1>2. BufferInv => [Copies]_vars
    BY <1>1 DEF AppendsOwn
  <1> QED  BY <1>2, BufferInvHolds, PTL DEF OverlapFailsOnlyByGrowth
=============================================================================
