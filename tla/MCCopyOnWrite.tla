--------------------------- MODULE MCCopyOnWrite ---------------------------
(***************************************************************************)
(* Model checking of CopyOnWrite.  Threads, instances, addresses and values *)
(* are all interchangeable.                                                 *)
(***************************************************************************)
EXTENDS CopyOnWrite, TLC

Symmetry == Permutations(Threads) \cup Permutations(Instances)
              \cup Permutations(Blocks) \cup Permutations(Values)
=============================================================================
