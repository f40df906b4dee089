------------------------------- MODULE NPTimer -------------------------------
(***************************************************************************)
(* The GCD timer of dispatch/timer.m: an _NPTimer object keeps two flags    *)
(* under an os_unfair_lock, and every call decides under the lock but       *)
(* talks to libdispatch after the lock has been released.                   *)
(*                                                                          *)
(* The body of a critical section touches nothing but the two flags, which  *)
(* nobody reads outside the lock, so it is one step.  The libdispatch call  *)
(* that follows it is a step of its own: pc[t] names the call thread t has  *)
(* decided on and not made yet.  Any number of other steps may come first.  *)
(*                                                                          *)
(* libdispatch itself is external and modelled from how timer.m uses it: a  *)
(* suspend count, a cancellation that is processed only while the count is  *)
(* zero, and a trap (the process aborts, nothing happens any more) on       *)
(* resuming a source that is not suspended and on releasing one that is.    *)
(***************************************************************************)
EXTENDS Integers, FiniteSets

CONSTANT Threads   \* threads that use the handle, the observable's included

ASSUME ThreadsAssumption == IsFiniteSet(Threads)

VARIABLES
    isCancelled,  \* _NPTimer._isCancelled
    isSuspended,  \* _NPTimer._isSuspended
    pc,           \* per thread, the libdispatch call it still has to make
    suspendCnt,   \* the source's suspend count
    source,       \* the source's life: none, active, cancelled, reclaimed
    running,      \* the event handler is executing
    binding,      \* the observable: uncreated, unbound, observing, fired
    held,         \* the client still owns the handle
    trap,         \* none, or the libdispatch trap that ended the process
    overlapped    \* history: a call took effect during another one

vars == <<isCancelled, isSuspended, pc, suspendCnt, source, running, binding,
          held, trap, overlapped>>
flags      == <<isCancelled, isSuspended>>
sourceVars == <<suspendCnt, source, running>>
clientVars == <<binding, held>>

\* "cancelResume" is the cancellation that found wasSuspended set.
Pending == {"idle", "resume", "suspend", "cancel", "cancelResume"}
Traps   == {"none", "overResume", "releaseSuspended"}

TypeOK ==
    /\ isCancelled \in BOOLEAN
    /\ isSuspended \in BOOLEAN
    /\ pc \in [Threads -> Pending]
    /\ suspendCnt \in Nat
    /\ source \in {"none", "active", "cancelled", "reclaimed"}
    /\ running \in BOOLEAN
    /\ binding \in {"uncreated", "unbound", "observing", "fired"}
    /\ held \in BOOLEAN
    /\ trap \in Traps
    /\ overlapped \in BOOLEAN

AllIdle == \A t \in Threads : pc[t] = "idle"

-----------------------------------------------------------------------------
(***************************************************************************)
(* Faulty variants of the definitions below, each a slip one could make in  *)
(* timer.m.  Nothing uses them: they show that the properties can fail.     *)
(***************************************************************************)
FaultyCreate(t) ==            \* the source is resumed as well as activated
    /\ trap = "none" /\ pc[t] = "idle" /\ binding = "uncreated"
    /\ source' = "active"
    /\ suspendCnt' = suspendCnt - 1
    /\ binding' = "unbound"
    /\ held' = TRUE
    /\ UNCHANGED <<flags, pc, running, trap, overlapped>>

FaultySuspendDecision(t) ==   \* a second suspend is not filtered out
    /\ ~isCancelled
    /\ isSuspended' = TRUE
    /\ pc' = [pc EXCEPT ![t] = "suspend"]
    /\ UNCHANGED isCancelled

FaultyCancelDecision(t) ==    \* the suspend is not balanced
    /\ ~isCancelled
    /\ isCancelled' = TRUE
    /\ isSuspended' = FALSE
    /\ pc' = [pc EXCEPT ![t] = "cancel"]

FaultyResumeDecision(t) ==    \* the cancelled and suspended tests are dropped
    /\ isSuspended' = FALSE
    /\ pc' = [pc EXCEPT ![t] = "resume"]
    /\ UNCHANGED isCancelled

FaultySuspend(t) ==           \* the flag is set, the source never suspended
    /\ ~isCancelled /\ ~isSuspended
    /\ isSuspended' = TRUE
    /\ UNCHANGED <<isCancelled, pc>>

FaultyDealloc(t) ==           \* the observable dies without cancelling
    /\ binding = "observing"
    /\ binding' = "fired"
    /\ UNCHANGED <<flags, pc, sourceVars, held, trap, overlapped>>

-----------------------------------------------------------------------------
Init ==
    /\ isCancelled = FALSE
    /\ isSuspended = FALSE
    /\ pc = [t \in Threads |-> "idle"]
    /\ suspendCnt = 0
    /\ source = "none"
    /\ running = FALSE
    /\ binding = "uncreated"
    /\ held = FALSE
    /\ trap = "none"
    /\ overlapped = FALSE

(***************************************************************************)
(* The three critical sections.  Each decides, under the lock, whether the  *)
(* thread goes on to libdispatch.                                           *)
(***************************************************************************)
ResumeDecision(t) ==
    /\ ~isCancelled /\ isSuspended
    /\ isSuspended' = FALSE
    /\ pc' = [pc EXCEPT ![t] = "resume"]
    /\ UNCHANGED isCancelled

SuspendDecision(t) ==
    /\ ~isCancelled /\ ~isSuspended
    /\ isSuspended' = TRUE
    /\ pc' = [pc EXCEPT ![t] = "suspend"]
    /\ UNCHANGED isCancelled

CancelDecision(t) ==
    /\ ~isCancelled
    /\ isCancelled' = TRUE
    /\ isSuspended' = FALSE
    /\ pc' = [pc EXCEPT ![t] = IF isSuspended THEN "cancelResume" ELSE "cancel"]

\* A call starts on t: the process lives, t is not inside another call.
Enter(t) ==
    /\ trap = "none"
    /\ pc[t] = "idle"
    /\ overlapped' = (overlapped \/ ~AllIdle)

(***************************************************************************)
(* The C entry points.  A call whose decision is negative returns without   *)
(* any effect: that is a stuttering step.                                   *)
(***************************************************************************)
NPDispatchTimerResume(t) ==
    /\ Enter(t) /\ held
    /\ ResumeDecision(t)
    /\ UNCHANGED <<sourceVars, clientVars, trap>>

NPDispatchTimerSuspend(t) ==
    /\ Enter(t) /\ held
    /\ SuspendDecision(t)
    /\ UNCHANGED <<sourceVars, clientVars, trap>>

NPDispatchTimerCancel(t) ==
    /\ Enter(t) /\ held
    /\ CancelDecision(t)
    /\ UNCHANGED <<sourceVars, clientVars, trap>>

\* Create, arm, activate, associate, return: the handle is unknown to others
\* until the call has returned, so the association is never found missing.
NPDispatchTimer(t) ==
    /\ Enter(t) /\ binding = "uncreated"
    /\ source' = "active"
    /\ binding' = "unbound"
    /\ held' = TRUE
    /\ UNCHANGED <<flags, pc, suspendCnt, running, trap>>

\* The same, bound to an object that is alive ...
NPDispatchTimerObservable(t) ==
    /\ Enter(t) /\ binding = "uncreated"
    /\ source' = "active"
    /\ binding' = "observing"
    /\ held' = TRUE
    /\ UNCHANGED <<flags, pc, suspendCnt, running, trap>>

\* ... or to nil, where NPAttachDeallocationHandler runs the handler at once:
\* the new timer is cancelled by the thread that creates it.
NPDispatchTimerObservableNil(t) ==
    /\ Enter(t) /\ binding = "uncreated"
    /\ source' = "active"
    /\ binding' = "fired"
    /\ held' = TRUE
    /\ CancelDecision(t)
    /\ UNCHANGED <<suspendCnt, running, trap>>

\* The observable's last release, on whichever thread, runs the deallocation
\* handler, which is NPDispatchTimerCancel; a timer that is already cancelled
\* stays as it is.
ObservableDealloc(t) ==
    /\ Enter(t)
    /\ binding = "observing"
    /\ binding' = "fired"
    /\ \/ CancelDecision(t)
       \/ isCancelled /\ UNCHANGED <<flags, pc>>
    /\ UNCHANGED <<sourceVars, held, trap>>

(***************************************************************************)
(* The libdispatch calls.                                                   *)
(***************************************************************************)
dispatch_resume(t) ==
    /\ trap = "none" /\ pc[t] = "resume"
    /\ \/ /\ suspendCnt > 0
          /\ suspendCnt' = suspendCnt - 1
          /\ trap' = trap
       \/ /\ suspendCnt = 0
          /\ trap' = "overResume"
          /\ suspendCnt' = suspendCnt
    /\ pc' = [pc EXCEPT ![t] = "idle"]
    /\ UNCHANGED <<flags, source, running, clientVars, overlapped>>

dispatch_suspend(t) ==
    /\ trap = "none" /\ pc[t] = "suspend"
    /\ suspendCnt' = suspendCnt + 1
    /\ pc' = [pc EXCEPT ![t] = "idle"]
    /\ UNCHANGED <<flags, source, running, clientVars, trap, overlapped>>

\* The cancellation goes first; a thread that found the timer suspended makes
\* the balancing dispatch_resume afterwards.
dispatch_source_cancel(t) ==
    /\ trap = "none" /\ pc[t] \in {"cancel", "cancelResume"}
    /\ source' = IF source = "active" THEN "cancelled" ELSE source
    /\ pc' = [pc EXCEPT ![t] = IF @ = "cancelResume" THEN "resume" ELSE "idle"]
    /\ UNCHANGED <<flags, suspendCnt, running, clientVars, trap, overlapped>>

\* The timer fires only on an active source that is not suspended.
HandlerBegin ==
    /\ trap = "none" /\ source = "active" /\ suspendCnt = 0 /\ ~running
    /\ running' = TRUE
    /\ UNCHANGED <<flags, pc, suspendCnt, source, clientVars, trap, overlapped>>

HandlerEnd ==
    /\ trap = "none" /\ running
    /\ running' = FALSE
    /\ UNCHANGED <<flags, pc, suspendCnt, source, clientVars, trap, overlapped>>

\* A cancelled source is processed once it is neither suspended nor running:
\* the event handler is released and the source can be freed.
Reclaim ==
    /\ trap = "none" /\ source = "cancelled" /\ suspendCnt = 0 /\ ~running
    /\ source' = "reclaimed"
    /\ UNCHANGED <<flags, pc, suspendCnt, running, clientVars, trap, overlapped>>

(***************************************************************************)
(* The client drops the handle between calls.  Unless the timer is bound to *)
(* an observable, whose handler keeps the source alive, the client has      *)
(* resumed or cancelled a timer it suspended: nothing else would.           *)
(***************************************************************************)
DropHandle ==
    /\ trap = "none" /\ held /\ AllIdle
    /\ binding = "observing" \/ ~isSuspended
    /\ held' = FALSE
    /\ UNCHANGED <<flags, pc, sourceVars, binding, trap, overlapped>>

\* The last reference goes away.  libdispatch traps on a suspended source and
\* cancels one that is still active.
LastRelease ==
    /\ trap = "none" /\ source # "none" /\ ~held /\ AllIdle
    /\ binding # "observing"
    /\ suspendCnt > 0 \/ source = "active"
    /\ trap' = IF suspendCnt > 0 THEN "releaseSuspended" ELSE trap
    /\ source' = IF suspendCnt > 0 THEN source ELSE "cancelled"
    /\ UNCHANGED <<flags, pc, suspendCnt, running, clientVars, overlapped>>

-----------------------------------------------------------------------------
Call(t) ==
    \/ NPDispatchTimer(t)
    \/ NPDispatchTimerObservable(t)
    \/ NPDispatchTimerObservableNil(t)
    \/ NPDispatchTimerResume(t)
    \/ NPDispatchTimerSuspend(t)
    \/ NPDispatchTimerCancel(t)
    \/ ObservableDealloc(t)

Finish(t) == dispatch_resume(t) \/ dispatch_suspend(t) \/ dispatch_source_cancel(t)

Libdispatch == HandlerBegin \/ HandlerEnd \/ Reclaim \/ LastRelease

Next ==
    \/ \E t \in Threads : Call(t) \/ Finish(t)
    \/ Libdispatch
    \/ DropHandle

Spec == Init /\ [][Next]_vars

(***************************************************************************)
(* A thread inside a call gets to run, a handler returns, and libdispatch   *)
(* processes a cancellation that is ready.  Nothing is assumed of the       *)
(* client: it may stop calling, and the timer need not fire.                *)
(***************************************************************************)
Fairness ==
    /\ \A t \in Threads : WF_vars(Finish(t))
    /\ WF_vars(HandlerEnd)
    /\ WF_vars(Reclaim)

FairSpec == Spec /\ Fairness

-----------------------------------------------------------------------------
(***************************************************************************)
(* Properties                                                               *)
(***************************************************************************)
AtCall(calls) == {t \in Threads : pc[t] \in calls}

\* The suspend count of the source, corrected by the calls that are decided
\* and not made, is what the flag says.  This is what makes deciding under
\* the lock and calling outside it sound (timer.m:49-95), and the invariant
\* from which the others follow.
SuspendLedger ==
    trap = "none" =>
      suspendCnt + Cardinality(AtCall({"suspend"}))
        = (IF isSuspended THEN 1 ELSE 0)
          + Cardinality(AtCall({"resume", "cancelResume"}))

\* Whatever the threads did, the client contract of DropHandle is enough:
\* the source is never released while suspended, because a cancellation
\* balances the suspend it found (timer.m:88-93).
ReleaseNeverTraps == trap # "releaseSuspended"

\* No thread resumes a source that is not suspended (timer.m:58, 92).
NoOverResume == trap # "overResume"

\* It takes two calls at the same time to over-resume: a client that lets each
\* call return before the next one starts is safe, whichever threads it uses
\* and whenever the observable dies (timer.m:49-95).
OverResumeNeedsOverlap == trap = "overResume" => overlapped

\* Once every suspend call has returned, a suspended timer does not start its
\* handler (timer.m:62-73).
SuspendedNeverFires ==
    [][AllIdle /\ isSuspended => ~(~running /\ running')]_vars

\* A cancellation that was decided, by a caller or by the death of the
\* observable, is carried through: the source is reclaimed and the handler
\* released, even if the timer was suspended (timer.m:75-95).
CancelReclaims == isCancelled ~> (source = "reclaimed" \/ trap # "none")
=============================================================================
