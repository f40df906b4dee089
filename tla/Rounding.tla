------------------------------ MODULE Rounding ------------------------------
(***************************************************************************)
(* Every capacity a client may ask for, in turn, and what it is rounded to. *)
(***************************************************************************)
EXTENDS NextPowerOf2

VARIABLES request, capacity

rounding == <<request, capacity>>

RoundingInit == request = 0 /\ capacity = nextPowerOf2ClampedToMax(0)

Ask ==
    /\ request < SizeMax
    /\ request' = request + 1
    /\ capacity' = nextPowerOf2ClampedToMax(request')

RoundingSpec == RoundingInit /\ [][Ask]_rounding

IsPowerOf2(n) == \E k \in 0..(Width - 1) : n = 2^k

\* The rounded capacity is the least power of two that holds the request, and
\* SIZE_MAX exactly for the requests that no representable power of two holds
\* (ByteBuffer.cpp:33-51): the result never wraps to zero.
LeastPowerOrMax ==
    /\ capacity >= request
    /\ request <= 2^(Width - 1) =>
         /\ IsPowerOf2(capacity)
         /\ \A k \in 0..(Width - 1) : 2^k >= request => 2^k >= capacity
    /\ request > 2^(Width - 1) => capacity = SizeMax
=============================================================================
