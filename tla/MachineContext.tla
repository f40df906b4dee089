--------------------------- MODULE MachineContext ---------------------------
(***************************************************************************)
(* machine/MachineContext.c: a caller reads the registers of a thread, in   *)
(* two kernel calls, into a context that it may have used before.  The      *)
(* target runs meanwhile, unless the client suspended it, and may end.      *)
(*                                                                          *)
(* The target's progress is counted in moments.  A register holds its name  *)
(* and the moment, so that the properties can tell which one was read, and  *)
(* when.                                                                    *)
(***************************************************************************)
EXTENDS Integers

CONSTANT MaxMoments   \* bound on the target's progress

ASSUME MaxMomentsAssumption == MaxMoments \in Nat

VARIABLES
    arch,     \* the architecture of the build
    moment,   \* the target's progress
    target,   \* running, suspended, gone
    step,     \* where the caller is in NPMachineContextGet
    context,  \* per part of the machine context, the moment it is from; 0: never
    result,   \* what the last call returned
    began     \* history: the moment at which that call began

machineVars == <<arch, moment, target, step, context, result, began>>

Archs == {"arm", "arm64", "i386", "x86_64"}

MachineInit ==
    /\ arch \in Archs
    /\ moment = 1 /\ target = "running"
    /\ step = "idle" /\ context = [ss |-> 0, es |-> 0]
    /\ result = FALSE /\ began = 1

(***************************************************************************)
(* The accessors: a register of __ss.                                       *)
(***************************************************************************)
Register(name) == [of |-> name, at |-> context.ss]

NPMachineContextGetFramePointer ==
    Register(CASE arch = "arm" -> "r7" [] arch = "arm64" -> "fp"
               [] arch = "i386" -> "ebp" [] arch = "x86_64" -> "rbp")

NPMachineContextGetStackPointer ==
    Register(CASE arch = "i386" -> "esp" [] arch = "x86_64" -> "rsp" [] OTHER -> "sp")

NPMachineContextGetInstructionAddress ==
    Register(CASE arch = "i386" -> "eip" [] arch = "x86_64" -> "rip" [] OTHER -> "pc")

\* There is none on x86.
NPMachineContextGetLinkRegister ==
    IF arch \in {"arm", "arm64"} THEN Register("lr") ELSE [of |-> "zero", at |-> 0]

-----------------------------------------------------------------------------
\* A context, and a thread that still has a port; otherwise the call returns
\* false and leaves the context alone.
NPMachineContextGet(hasContext) ==
    /\ step = "idle"
    /\ step' = IF hasContext /\ target # "gone" THEN "ss" ELSE "idle"
    /\ result' = FALSE
    /\ began' = moment
    /\ UNCHANGED <<arch, moment, target, context>>

\* thread_get_state copies one part.
setState(part) ==
    /\ target # "gone"
    /\ context' = [context EXCEPT ![part] = moment]

FaultyGetThreadState ==    \* the second part is read only if the first is not
    /\ step = "ss"
    /\ \/ setState("ss") /\ step' = "idle" /\ result' = TRUE
       \/ step' = "es" /\ UNCHANGED <<context, result>>
    /\ UNCHANGED <<arch, moment, target, began>>

GetThreadState ==
    /\ step = "ss"
    /\ \/ setState("ss") /\ step' = "es"
       \/ step' = "idle" /\ UNCHANGED context
    /\ UNCHANGED <<arch, moment, target, result, began>>

GetExceptionState ==
    /\ step = "es"
    /\ \/ setState("es") /\ result' = TRUE
       \/ UNCHANGED <<context, result>>
    /\ step' = "idle"
    /\ UNCHANGED <<arch, moment, target, began>>

TargetRuns ==
    /\ target = "running" /\ moment < MaxMoments
    /\ moment' = moment + 1
    /\ UNCHANGED <<arch, target, step, context, result, began>>

TargetEnds ==
    /\ target = "running" /\ target' = "gone"
    /\ UNCHANGED <<arch, moment, step, context, result, began>>

\* The client suspends or resumes the target between calls.
Toggle ==
    /\ step = "idle" /\ target # "gone"
    /\ target' = IF target = "running" THEN "suspended" ELSE "running"
    /\ UNCHANGED <<arch, moment, step, context, result, began>>

MachineNext ==
    \/ \E hasContext \in BOOLEAN : NPMachineContextGet(hasContext)
    \/ GetThreadState \/ GetExceptionState
    \/ TargetRuns \/ TargetEnds \/ Toggle

MachineSpec == MachineInit /\ [][MachineNext]_machineVars

-----------------------------------------------------------------------------
Frame == {NPMachineContextGetFramePointer, NPMachineContextGetStackPointer,
          NPMachineContextGetInstructionAddress}

\* What a stack walk starts from after a call that returned true, the frame
\* pointer, the stack pointer and the instruction address, are three registers
\* of one moment, no earlier than the call, on every architecture and in a
\* context that was used before or for which a call failed half way.  The
\* exception state may be later, since the target may run between the two
\* kernel calls, unless the client suspended it (MachineContext.c:55-116).
SnapshotWithinCall ==
    step = "idle" /\ result =>
        /\ \A r \in Frame : began <= r.at /\ r.at <= context.es
        /\ \A r, s \in Frame : r.at = s.at
        /\ \E r, s, u \in Frame : r.of # s.of /\ s.of # u.of /\ u.of # r.of
        /\ context.es <= moment
        /\ LET lr == NPMachineContextGetLinkRegister
           IN  lr.of = "zero" \/ (lr.at = context.ss /\ lr \notin Frame)
=============================================================================
