---------------------------- MODULE NextPowerOf2 ----------------------------
(***************************************************************************)
(* The capacity rounding of ByteBuffer.cpp.  A Size of Width bits is seen   *)
(* as the set of its bit positions: a right shift lowers the positions, an  *)
(* or is a union.                                                           *)
(***************************************************************************)
EXTENDS Integers

CONSTANT Width   \* bits of a Size, a power of two

ASSUME WidthAssumption == Width \in Nat \ {0}

\* What 2^k is, for the provers, which know exponentiation of numerals only.
ASSUME PowerAssumption == \A k \in 0..Width : 2^k \in Nat /\ 2^(k + 1) = 2 * 2^k

SizeMax == 2^Width - 1
Size    == 0..SizeMax

BitsOf(n) == {k \in 0..(Width - 1) : (n \div 2^k) % 2 = 1}

ValueOf(S) ==
    LET below[k \in 0..Width] ==     \* of the bits below bit k
          IF k = 0 THEN 0 ELSE below[k - 1] + (IF k - 1 \in S THEN 2^(k - 1) ELSE 0)
    IN  below[Width]

\* capacity |= capacity >> k
Smear(S, k) == S \cup {b - k : b \in {c \in S : c >= k}}

FaultySmeared(n) ==                   \* one of the shifts is forgotten
    LET c1 == Smear(BitsOf(n), 1)
        c2 == Smear(c1, 2)
        c3 == Smear(c2, 8)
        c4 == Smear(c3, 16)
    IN  ValueOf(c4)

\* The shifts of the code; those of Width bits and more change nothing.
Smeared(n) ==
    LET c1 == Smear(BitsOf(n), 1)
        c2 == Smear(c1, 2)
        c3 == Smear(c2, 4)
        c4 == Smear(c3, 8)
        c5 == Smear(c4, 16)
        c6 == Smear(c5, Width \div 2)
    IN  ValueOf(c6)

nextPowerOf2ClampedToMax(n) ==
    IF n <= 1 THEN 1
    ELSE IF Smeared(n - 1) = SizeMax THEN SizeMax
    ELSE Smeared(n - 1) + 1
=============================================================================
