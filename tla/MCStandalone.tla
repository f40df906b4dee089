---------------------------- MODULE MCStandalone ----------------------------
(***************************************************************************)
(* The small parts: the heap, the rounding of capacities against its        *)
(* definition, for every request of Width bits, and the machine context.    *)
(* They share nothing: a behaviour is about one of them.                    *)
(***************************************************************************)
EXTENDS Heap, Rounding, MachineContext

VARIABLE part   \* the part this behaviour is about

vars == <<heapVars, machineVars, rounding, part>>

Init ==
    /\ part \in {"heap", "rounding", "machine"}
    /\ HeapInit /\ (part = "heap" \/ (type = "max" /\ storage = <<>>))
    /\ MachineInit /\ (part = "machine" \/ arch = "arm64")
    /\ RoundingInit

HeapStep    == part = "heap" /\ HeapNext /\ UNCHANGED <<machineVars, rounding, part>>
AskStep     == part = "rounding" /\ Ask /\ UNCHANGED <<heapVars, machineVars, part>>
MachineStep == part = "machine" /\ MachineNext /\ UNCHANGED <<heapVars, rounding, part>>

Spec == Init /\ [][HeapStep \/ AskStep \/ MachineStep]_vars
=============================================================================
