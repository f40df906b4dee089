---------------------------- MODULE MCByteBuffer ----------------------------
(***************************************************************************)
(* Model checking of ByteBuffer.  Addresses only matter for being equal.    *)
(***************************************************************************)
EXTENDS ByteBuffer, TLC

Symmetry == Permutations(Buffers) \cup Permutations(Byte)
=============================================================================
