------------------------------- MODULE MCSys -------------------------------
EXTENDS Sys, TLC

CONSTANTS t1, t2

\* One thread maps files, the other one makes the short calls.
MCUses == (t1 :> Mapping \cup {"munmap"}) @@ (t2 :> Calls \ (Mapping \cup {"munmap"}))

\* Files are alike.
Symmetry == Permutations(Files)
=============================================================================
