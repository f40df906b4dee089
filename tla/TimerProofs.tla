----------------------------- MODULE TimerProofs -----------------------------
(***************************************************************************)
(* Safety of the timer for every finite set of threads, and of the timer    *)
(* and the observable together: the composition is a behaviour of NPTimer   *)
(* and one of ValueObserving, for every set of threads, handlers and        *)
(* observers, so what is proved of either holds of both together.           *)
(*                                                                          *)
(* The ledger of the suspend count is the heart of the timer's argument.    *)
(* Each critical section moves the flag and the set of decided calls        *)
(* together, each libdispatch call moves the decided calls and the count    *)
(* together.                                                                *)
(*                                                                          *)
(* A handler is, at any time, an argument, attached, or given to nil, and   *)
(* it is in only one place: with the one observer that is associated, among *)
(* those that the dealloc still has to run, or called.  @synchronized makes *)
(* sure that the observer that was found missing still is when it is set.   *)
(***************************************************************************)
EXTENDS TimerObserving, FiniteSetTheorems, SequenceTheorems, TLAPS

(***************************************************************************)
(* Counting threads by what they are about to do.                           *)
(***************************************************************************)
Weight(x, C) == IF x \in C THEN 1 ELSE 0
Count(f, C) == Cardinality({u \in Threads : f[u] \in C})

\* The number of threads at one of the given calls is a number.
LEMMA CountIsNat ==
  ASSUME NEW f, NEW C
  PROVE  /\ IsFiniteSet({u \in Threads : f[u] \in C})
         /\ Count(f, C) \in Nat
  <1>1. IsFiniteSet({u \in Threads : f[u] \in C})
    <2>1. {u \in Threads : f[u] \in C} \subseteq Threads
      OBVIOUS
    <2> QED  BY <2>1, ThreadsAssumption, FS_Subset
  <1> QED  BY <1>1, FS_CardinalityType DEF Count

\* When one thread moves on, only its own weight in the count changes.
LEMMA CountStep ==
  ASSUME NEW f, NEW g, NEW t \in Threads, NEW C,
         \A u \in Threads \ {t} : g[u] = f[u]
  PROVE  Count(g, C) = Count(f, C) + Weight(g[t], C) - Weight(f[t], C)
  <1> DEFINE A == {u \in Threads : f[u] \in C}
             B == {u \in Threads : g[u] \in C}
  <1>1. /\ IsFiniteSet(A)
        /\ Count(f, C) = Cardinality(A) /\ Count(g, C) = Cardinality(B)
        /\ Count(f, C) \in Nat
    BY CountIsNat DEF Count
  <1> HIDE DEF A, B
  <1>2. CASE (g[t] \in C) <=> (f[t] \in C)
    <2>1. B = A  BY <1>2 DEF A, B
    <2> QED  BY <1>1, <1>2, <2>1 DEF Weight
  <1>3. CASE g[t] \in C /\ f[t] \notin C
    <2>1. B = A \cup {t} /\ t \notin A  BY <1>3 DEF A, B
    <2>2. Cardinality(B) = Cardinality(A) + 1  BY <1>1, <2>1, FS_AddElement
    <2> QED  BY <1>1, <1>3, <2>2 DEF Weight
  <1>4. CASE g[t] \notin C /\ f[t] \in C
    <2>1. B = A \ {t} /\ t \in A  BY <1>4 DEF A, B
    <2>2. Cardinality(B) = Cardinality(A) - 1  BY <1>1, <2>1, FS_RemoveElement
    <2> QED  BY <1>1, <1>4, <2>2 DEF Weight
  <1> QED  BY <1>2, <1>3, <1>4

-----------------------------------------------------------------------------
\* Every reachable state of the timer is well typed (timer.m:30-47).
THEOREM TypeCorrect == Spec => []TypeOK
  <1>1. Init => TypeOK
    <2> SUFFICES ASSUME Init PROVE TypeOK
      OBVIOUS
    <2>1. pc \in [Threads -> Pending]
      BY DEF Init, Pending
    <2>2. isCancelled \in BOOLEAN /\ isSuspended \in BOOLEAN /\ running \in BOOLEAN
          /\ held \in BOOLEAN /\ overlapped \in BOOLEAN
      BY DEF Init
    <2> QED  BY <2>1, <2>2 DEF Init, TypeOK, Traps
  <1>2. TypeOK /\ [Next]_vars => TypeOK'
    <2> SUFFICES ASSUME TypeOK, [Next]_vars PROVE TypeOK'
      OBVIOUS
    <2> USE DEF TypeOK, Pending, Traps
    <2>1. ASSUME NEW t \in Threads, Call(t) PROVE TypeOK'
      BY <2>1 DEF Call, NPDispatchTimer, NPDispatchTimerObservable,
        NPDispatchTimerObservableNil, NPDispatchTimerResume,
        NPDispatchTimerSuspend, NPDispatchTimerCancel, ObservableDealloc,
        Enter, ResumeDecision, SuspendDecision, CancelDecision, flags, sourceVars,
        clientVars
    <2>2. ASSUME NEW t \in Threads, Finish(t) PROVE TypeOK'
      BY <2>2 DEF Finish, dispatch_resume, dispatch_suspend,
        dispatch_source_cancel, flags, clientVars
    <2>3. CASE Libdispatch
      BY <2>3 DEF Libdispatch, HandlerBegin, HandlerEnd, Reclaim, LastRelease,
        flags, clientVars
    <2>4. CASE DropHandle
      BY <2>4 DEF DropHandle, flags, sourceVars
    <2>5. CASE UNCHANGED vars
      BY <2>5 DEF vars
    <2> QED  BY <2>1, <2>2, <2>3, <2>4, <2>5 DEF Next
  <1> QED  BY <1>1, <1>2, PTL DEF Spec

\* The quantities of the ledger, and the ledger in terms of them.
SuspendCalls == {"suspend"}
ResumeCalls  == {"resume", "cancelResume"}
Suspends == Count(pc, SuspendCalls)
Resumes  == Count(pc, ResumeCalls)
Ledger   == suspendCnt + Suspends = (IF isSuspended THEN 1 ELSE 0) + Resumes

\* SuspendLedger in those terms.
LEMMA LedgerRestated == SuspendLedger <=> (trap = "none" => Ledger)
  BY DEF SuspendLedger, Ledger, Suspends, Resumes, Weight, AtCall, Count,
    SuspendCalls, ResumeCalls

\* CountStep for the program counters.
LEMMA PcCount ==
  ASSUME NEW t \in Threads, \A u \in Threads \ {t} : pc'[u] = pc[u]
  PROVE  /\ Suspends' = Suspends + Weight(pc'[t], SuspendCalls)
                        - Weight(pc[t], SuspendCalls)
         /\ Resumes' = Resumes + Weight(pc'[t], ResumeCalls)
                       - Weight(pc[t], ResumeCalls)
  <1>1. Count(pc', SuspendCalls) = Count(pc, SuspendCalls)
          + Weight(pc'[t], SuspendCalls) - Weight(pc[t], SuspendCalls)
    BY CountStep, ZenonT(60)
  <1>2. Count(pc', ResumeCalls) = Count(pc, ResumeCalls)
          + Weight(pc'[t], ResumeCalls) - Weight(pc[t], ResumeCalls)
    BY CountStep, ZenonT(60)
  <1> QED  BY <1>1, <1>2, Zenon DEF Suspends, Resumes

\* A critical section moves the flag and the decided calls together.
LEMMA DecisionKeepsLedger ==
  ASSUME TypeOK, Ledger, NEW t \in Threads, pc[t] = "idle", suspendCnt' = suspendCnt,
         ResumeDecision(t) \/ SuspendDecision(t) \/ CancelDecision(t)
  PROVE  Ledger'
  <1> USE DEF TypeOK, Ledger, Pending
  <1>0. Suspends \in Nat /\ Resumes \in Nat
    BY CountIsNat DEF Suspends, Resumes
  <1>1. ASSUME NEW v \in Pending, pc' = [pc EXCEPT ![t] = v]
        PROVE  /\ Suspends' = Suspends + Weight(v, SuspendCalls)
               /\ Resumes' = Resumes + Weight(v, ResumeCalls)
    <2>1. pc'[t] = v /\ \A u \in Threads \ {t} : pc'[u] = pc[u]
      BY <1>1
    <2> QED  BY <1>0, <2>1, PcCount DEF Weight, SuspendCalls, ResumeCalls
  <1>2. CASE ResumeDecision(t)
    BY <1>0, <1>1, <1>2 DEF ResumeDecision, Weight, SuspendCalls, ResumeCalls
  <1>3. CASE SuspendDecision(t)
    BY <1>0, <1>1, <1>3 DEF SuspendDecision, Weight, SuspendCalls, ResumeCalls
  <1>4. CASE CancelDecision(t)
    <2>1. CASE isSuspended
      BY <1>0, <1>1, <1>4, <2>1 DEF CancelDecision, Weight, SuspendCalls, ResumeCalls
    <2>2. CASE ~isSuspended
      BY <1>0, <1>1, <1>4, <2>2 DEF CancelDecision, Weight, SuspendCalls, ResumeCalls
    <2> QED  BY <2>1, <2>2
  <1> QED  BY <1>2, <1>3, <1>4

\* A libdispatch call that does not trap moves the count and the decided calls.
LEMMA FinishKeepsLedger ==
  ASSUME TypeOK, Ledger, NEW t \in Threads, Finish(t), trap' = "none"
  PROVE  Ledger'
  <1> USE DEF TypeOK, Ledger, Pending
  <1>0. Suspends \in Nat /\ Resumes \in Nat
    BY CountIsNat DEF Suspends, Resumes
  <1>1. ASSUME NEW v \in Pending, pc' = [pc EXCEPT ![t] = v]
        PROVE  /\ Suspends' = Suspends + Weight(v, SuspendCalls)
                              - Weight(pc[t], SuspendCalls)
               /\ Resumes' = Resumes + Weight(v, ResumeCalls)
                             - Weight(pc[t], ResumeCalls)
    <2>1. pc'[t] = v /\ \A u \in Threads \ {t} : pc'[u] = pc[u]
      BY <1>1
    <2> QED  BY <2>1, PcCount
  <1>2. CASE dispatch_resume(t)
    BY <1>0, <1>1, <1>2 DEF dispatch_resume, Weight, flags,
      SuspendCalls, ResumeCalls
  <1>3. CASE dispatch_suspend(t)
    BY <1>0, <1>1, <1>3 DEF dispatch_suspend, Weight, flags,
      SuspendCalls, ResumeCalls
  <1>4. CASE dispatch_source_cancel(t)
    <2>1. CASE pc[t] = "cancel"
      BY <1>0, <1>1, <1>4, <2>1 DEF dispatch_source_cancel, Weight, flags,
      SuspendCalls, ResumeCalls
    <2>2. CASE pc[t] = "cancelResume"
      BY <1>0, <1>1, <1>4, <2>2 DEF dispatch_source_cancel, Weight, flags,
      SuspendCalls, ResumeCalls
    <2> QED  BY <1>4, <2>1, <2>2 DEF dispatch_source_cancel
  <1> QED  BY <1>2, <1>3, <1>4 DEF Finish

-----------------------------------------------------------------------------
\* The suspend count, corrected by the decided calls, always agrees with the
\* flag (timer.m:49-95), for any number of threads.
THEOREM LedgerHolds == Spec => []SuspendLedger
  <1>1. Init => SuspendLedger
    <2> SUFFICES ASSUME Init PROVE Ledger
      BY LedgerRestated
    <2>1. /\ {u \in Threads : pc[u] \in {"suspend"}} = {}
          /\ {u \in Threads : pc[u] \in {"resume", "cancelResume"}} = {}
      BY DEF Init
    <2> QED  BY <2>1, FS_EmptySet DEF Ledger, Suspends, Resumes, Count, Weight, Init,
      SuspendCalls, ResumeCalls
  <1>2. TypeOK /\ SuspendLedger /\ [Next]_vars => SuspendLedger'
    <2> SUFFICES ASSUME TypeOK, SuspendLedger, [Next]_vars, trap' = "none"
                 PROVE  Ledger'
      BY LedgerRestated DEF SuspendLedger, Ledger, Suspends, Resumes, Weight, AtCall,
        Count, SuspendCalls, ResumeCalls
    <2>0. trap = "none" => Ledger
      BY LedgerRestated
    <2>1. ASSUME NEW t \in Threads, Call(t) PROVE Ledger'
      <3>0. Ledger /\ pc[t] = "idle"
        BY <2>0, <2>1 DEF Call, Enter, NPDispatchTimer, NPDispatchTimerObservable,
          NPDispatchTimerObservableNil, NPDispatchTimerResume,
          NPDispatchTimerSuspend, NPDispatchTimerCancel, ObservableDealloc
      <3>1. CASE NPDispatchTimer(t) \/ NPDispatchTimerObservable(t)
        BY <3>0, <3>1 DEF NPDispatchTimer, NPDispatchTimerObservable, flags,
          Ledger, Suspends, Resumes, Weight
      <3>2. CASE NPDispatchTimerObservableNil(t)
        BY <3>0, <3>2, DecisionKeepsLedger DEF NPDispatchTimerObservableNil
      <3>3. CASE NPDispatchTimerResume(t)
        BY <3>0, <3>3, DecisionKeepsLedger DEF NPDispatchTimerResume, sourceVars
      <3>4. CASE NPDispatchTimerSuspend(t)
        BY <3>0, <3>4, DecisionKeepsLedger DEF NPDispatchTimerSuspend, sourceVars
      <3>5. CASE NPDispatchTimerCancel(t)
        BY <3>0, <3>5, DecisionKeepsLedger DEF NPDispatchTimerCancel, sourceVars
      <3>6. CASE ObservableDealloc(t)
        <4>1. CASE CancelDecision(t)
          BY <3>0, <3>6, <4>1, DecisionKeepsLedger DEF ObservableDealloc, sourceVars
        <4>2. CASE isCancelled /\ UNCHANGED <<flags, pc>>
          BY <3>0, <3>6, <4>2 DEF ObservableDealloc, sourceVars, flags, Ledger,
            Suspends, Resumes, Weight
        <4> QED  BY <3>6, <4>1, <4>2 DEF ObservableDealloc
      <3> QED  BY <2>1, <3>1, <3>2, <3>3, <3>4, <3>5, <3>6 DEF Call
    <2>2. ASSUME NEW t \in Threads, Finish(t) PROVE Ledger'
      <3>1. trap = "none"
        BY <2>2 DEF Finish, dispatch_resume, dispatch_suspend, dispatch_source_cancel
      <3> QED  BY <2>0, <2>2, <3>1, FinishKeepsLedger
    <2>3. CASE Libdispatch
      BY <2>0, <2>3 DEF Libdispatch, HandlerBegin, HandlerEnd, Reclaim, LastRelease,
        flags, clientVars, Ledger, Suspends, Resumes, Weight
    <2>4. CASE DropHandle
      BY <2>0, <2>4 DEF DropHandle, flags, sourceVars, Ledger, Suspends, Resumes, Weight
    <2>5. CASE UNCHANGED vars
      BY <2>0, <2>5 DEF vars, Ledger, Suspends, Resumes, Weight
    <2> QED  BY <2>1, <2>2, <2>3, <2>4, <2>5 DEF Next
  <1> QED  BY <1>1, <1>2, TypeCorrect, PTL DEF Spec

-----------------------------------------------------------------------------
(***************************************************************************)
(* A source is released only after the observable's handler is gone and the *)
(* client has dropped the handle: by then nothing has left it suspended.    *)
(***************************************************************************)
CancelledIsResumed == isCancelled => ~isSuspended
DroppedIsResumed   == ~held /\ binding # "observing" => ~isSuspended

ReleaseInv == CancelledIsResumed /\ DroppedIsResumed /\ ReleaseNeverTraps

\* With every thread idle, the count is what the flag says.
LEMMA IdleLedger ==
  ASSUME TypeOK, SuspendLedger, AllIdle, trap = "none"
  PROVE  suspendCnt = (IF isSuspended THEN 1 ELSE 0)
  <1>1. /\ AtCall({"suspend"}) = {}
        /\ AtCall({"resume", "cancelResume"}) = {}
    BY DEF AllIdle, AtCall
  <1> QED  BY <1>1, FS_EmptySet DEF SuspendLedger, TypeOK

\* No interleaving of calls, deaths of the observable and handle drops lets the
\* last reference go while the source is suspended (timer.m:88-93).
THEOREM ReleaseSafe == Spec => []ReleaseNeverTraps
  <1>1. Init => ReleaseInv
    BY DEF Init, ReleaseInv, CancelledIsResumed, DroppedIsResumed, ReleaseNeverTraps
  <1>2. TypeOK /\ SuspendLedger /\ ReleaseInv /\ [Next]_vars => ReleaseInv'
    <2> SUFFICES ASSUME TypeOK, SuspendLedger, ReleaseInv, [Next]_vars
                 PROVE  ReleaseInv'
      OBVIOUS
    <2> USE DEF ReleaseInv, CancelledIsResumed, DroppedIsResumed, ReleaseNeverTraps
    <2>1. ASSUME NEW t \in Threads, Call(t) PROVE ReleaseInv'
      BY <2>1 DEF Call, NPDispatchTimer, NPDispatchTimerObservable,
        NPDispatchTimerObservableNil, NPDispatchTimerResume,
        NPDispatchTimerSuspend, NPDispatchTimerCancel, ObservableDealloc,
        ResumeDecision, SuspendDecision, CancelDecision, flags, sourceVars,
        clientVars, TypeOK
    <2>2. ASSUME NEW t \in Threads, Finish(t) PROVE ReleaseInv'
      BY <2>2 DEF Finish, dispatch_resume, dispatch_suspend,
        dispatch_source_cancel, flags, clientVars
    <2>3. CASE HandlerBegin \/ HandlerEnd \/ Reclaim
      BY <2>3 DEF HandlerBegin, HandlerEnd, Reclaim, flags, clientVars
    <2>4. CASE LastRelease
      <3>1. suspendCnt = 0
        BY <2>4, IdleLedger DEF LastRelease
      <3> QED  BY <2>4, <3>1 DEF LastRelease, flags, clientVars
    <2>5. CASE DropHandle
      BY <2>5 DEF DropHandle, flags, sourceVars
    <2>6. CASE UNCHANGED vars
      BY <2>6 DEF vars
    <2> QED  BY <2>1, <2>2, <2>3, <2>4, <2>5, <2>6 DEF Next, Libdispatch
  <1>3. ReleaseInv => ReleaseNeverTraps
    BY DEF ReleaseInv
  <1> QED  BY <1>1, <1>2, <1>3, TypeCorrect, LedgerHolds, PTL DEF Spec

-----------------------------------------------------------------------------
(***************************************************************************)
(* Without overlapping calls at most one call is decided and not made, and  *)
(* the ledger says that it is backed.                                       *)
(***************************************************************************)
OneCall == \A t, u \in Threads : pc[t] # "idle" /\ pc[u] # "idle" => t = u

SerialInv == ~overlapped => OneCall /\ NoOverResume

\* A call that starts while all threads are idle is the only one.
LEMMA CallAlone ==
  ASSUME TypeOK, NEW t \in Threads, Call(t), ~overlapped'
  PROVE  OneCall' /\ trap' = "none"
  <1>1. Enter(t) /\ trap' = trap
    BY DEF Call, NPDispatchTimer, NPDispatchTimerObservable,
      NPDispatchTimerObservableNil, NPDispatchTimerResume,
      NPDispatchTimerSuspend, NPDispatchTimerCancel, ObservableDealloc
  <1>2. AllIdle /\ trap = "none"
    BY <1>1 DEF Enter
  <1>3. pc' = pc \/ \E v \in Pending : pc' = [pc EXCEPT ![t] = v]
    BY DEF Call, NPDispatchTimer, NPDispatchTimerObservable,
      NPDispatchTimerObservableNil, NPDispatchTimerResume,
      NPDispatchTimerSuspend, NPDispatchTimerCancel, ObservableDealloc,
      ResumeDecision, SuspendDecision, CancelDecision, flags, Pending
  <1> QED  BY <1>1, <1>2, <1>3 DEF AllIdle, OneCall, TypeOK

\* A resume that is the only decided call finds the source suspended.
LEMMA LoneResumeIsBacked ==
  ASSUME TypeOK, SuspendLedger, OneCall, trap = "none",
         NEW t \in Threads, pc[t] = "resume"
  PROVE  suspendCnt > 0
  <1>1. /\ AtCall({"suspend"}) = {}
        /\ AtCall({"resume", "cancelResume"}) = {t}
    BY DEF OneCall, AtCall
  <1>2. Cardinality({t}) = 1
    BY FS_Singleton
  <1> QED  BY <1>1, <1>2, FS_EmptySet DEF SuspendLedger, TypeOK

\* As long as no two calls overlap, no dispatch_resume reaches a source that is
\* not suspended (timer.m:58, 92), whatever the observable and the client do.
THEOREM SerialNeverOverResumes == Spec => []OverResumeNeedsOverlap
  <1>1. Init => SerialInv
    BY DEF Init, SerialInv, OneCall, NoOverResume
  <1>2. TypeOK /\ SuspendLedger /\ SerialInv /\ [Next]_vars => SerialInv'
    <2> SUFFICES ASSUME TypeOK, SuspendLedger, SerialInv, [Next]_vars, ~overlapped'
                 PROVE  OneCall' /\ NoOverResume'
      BY DEF SerialInv
    <2>1. ASSUME NEW t \in Threads, Call(t) PROVE OneCall' /\ NoOverResume'
      BY <2>1, CallAlone DEF NoOverResume
    <2>2. ASSUME NEW t \in Threads, Finish(t) PROVE OneCall' /\ NoOverResume'
      <3>0. ~overlapped /\ OneCall /\ trap = "none"
        BY <2>2 DEF Finish, dispatch_resume, dispatch_suspend,
          dispatch_source_cancel, SerialInv
      <3>1. pc[t] # "idle" /\ \A u \in Threads \ {t} : pc[u] = "idle" /\ pc'[u] = "idle"
        BY <2>2, <3>0 DEF Finish, dispatch_resume, dispatch_suspend,
          dispatch_source_cancel, OneCall, TypeOK
      <3>2. trap' # "overResume"
        BY <2>2, <3>0, LoneResumeIsBacked DEF Finish, dispatch_resume,
          dispatch_suspend, dispatch_source_cancel, TypeOK
      <3> QED  BY <3>1, <3>2 DEF OneCall, NoOverResume
    <2>3. CASE Libdispatch
      BY <2>3 DEF Libdispatch, HandlerBegin, HandlerEnd, Reclaim, LastRelease,
        SerialInv, OneCall, NoOverResume
    <2>4. CASE DropHandle
      BY <2>4 DEF DropHandle, SerialInv, OneCall, NoOverResume
    <2>5. CASE UNCHANGED vars
      BY <2>5 DEF vars, SerialInv, OneCall, NoOverResume
    <2> QED  BY <2>1, <2>2, <2>3, <2>4, <2>5 DEF Next
  <1>3. SerialInv => OverResumeNeedsOverlap
    BY DEF SerialInv, NoOverResume, OverResumeNeedsOverlap
  <1> QED  BY <1>1, <1>2, <1>3, TypeCorrect, LedgerHolds, PTL DEF Spec

-----------------------------------------------------------------------------
\* Once every suspend call has returned, the count of a suspended timer is one,
\* and libdispatch does not start its handler (timer.m:62-73).
THEOREM SuspendedSafe == Spec => SuspendedNeverFires
  <1>1. TypeOK /\ SuspendLedger /\ [Next]_vars
          => [AllIdle /\ isSuspended => ~(~running /\ running')]_vars
    <2> SUFFICES ASSUME TypeOK, SuspendLedger, Next, AllIdle, isSuspended,
                        ~running, running'
                 PROVE  FALSE
      OBVIOUS
    <2>1. HandlerBegin
      BY DEF Next, Call, NPDispatchTimer, NPDispatchTimerObservable,
        NPDispatchTimerObservableNil, NPDispatchTimerResume,
        NPDispatchTimerSuspend, NPDispatchTimerCancel, ObservableDealloc,
        Finish, dispatch_resume, dispatch_suspend, dispatch_source_cancel,
        Libdispatch, HandlerEnd, Reclaim, LastRelease, DropHandle, sourceVars, TypeOK
    <2>2. suspendCnt = 1 /\ suspendCnt = 0
      BY <2>1, IdleLedger DEF HandlerBegin
    <2> QED  BY <2>2
  <1> QED  BY <1>1, TypeCorrect, LedgerHolds, PTL DEF Spec, SuspendedNeverFires

-----------------------------------------------------------------------------
(***************************************************************************)
(* The inductive invariant of the observable.                               *)
(***************************************************************************)
Attaching(t) == at[t] # "idle"

\* Inside @synchronized a thread has the lock, and what it has seen of the association
\* is so.
Locked ==
    \A t \in Threads :
        /\ at[t] \in {"get", "create", "add"} => lock = t
        /\ at[t] = "create" => assoc = None
        /\ at[t] = "add" => local[t] = assoc /\ assoc # None
        /\ Attaching(t) => alive
        /\ Attaching(t) <=> arg[t] # None

\* A handler is in one call at most, and only before it is attached or given to nil.
OneUse ==
    /\ \A t, u \in Threads : arg[t] = arg[u] /\ arg[t] # None => t = u
    /\ \A t \in Threads : arg[t] \notin attached \cup onNil
    /\ attached \cap onNil = {}

Injective(s) == \A i, j \in 1..Len(s) : s[i] = s[j] => i = j
Within(s, S) == \A i \in 1..Len(s) : s[i] \in S
Apart(s, r) == \A i \in 1..Len(s), j \in 1..Len(r) : s[i] # r[j]

\* Only the associated observer has handlers, while the object lives.
Kept ==
    /\ \A o \in Observers : Injective(handlers[o]) /\ Within(handlers[o], attached)
    /\ \A o \in Observers : alive /\ handlers[o] # <<>> => o = assoc
    /\ assoc # None => assoc \in made
    /\ \A o \in Observers : o \notin made => handlers[o] = <<>>
    /\ ~alive => assoc = None

\* Handlers that ran, and those that the dealloc has not come to.
RanOnce ==
    /\ Injective(called) /\ Injective(dying) /\ Apart(called, dying)
    /\ Within(dying, attached) /\ (alive => dying = <<>>)
    /\ Within(called, IF alive THEN onNil ELSE onNil \cup attached)

ObservingInv == Observing!TypeOK /\ Locked /\ OneUse /\ Kept /\ RanOnce

-----------------------------------------------------------------------------
ReaperOK == reaper \in Threads \cup {None}

\* The thread that releases the observable is a thread.
LEMMA ReaperType == TSpec => []ReaperOK
  <1>1. TInit => ReaperOK
    BY DEF TInit, ReaperOK
  <1>2. ReaperOK /\ [TNext]_all => ReaperOK'
    BY DEF ReaperOK, TNext, all, Create, CreateObservable, CreateObservableNil, Use, AttachStep,
      LastReleaseOfObservable, FinishCall, Attach, Drop, RunHandler, TimerStep
  <1> QED  BY <1>1, <1>2, PTL DEF TSpec

\* In the composition the timer behaves as NPTimer: the death of the observable is the only
\* thing that happens to it, and that happens as NPTimer says (timer.m:120-126).
THEOREM TimerImplemented == TSpec => Spec
  <1>1. TInit => Init
    BY DEF TInit
  <1>2. ReaperOK /\ [TNext]_all => [Next]_vars
    <2> SUFFICES ASSUME ReaperOK, [TNext]_all
                 PROVE  [Next]_vars
      OBVIOUS
    <2>1. ASSUME NEW t \in Threads, Create(t) \/ CreateObservable(t) \/ CreateObservableNil(t)
                                    \/ Use(t) \/ FinishCall(t)
          PROVE  Next
      BY <2>1 DEF Create, CreateObservable, CreateObservableNil, Use, FinishCall, Next, Call
    <2>2. ASSUME NEW t \in Threads,
                 \/ AttachStep(t) \/ LastReleaseOfObservable(t)
                 \/ \E h \in Handlers : Attach(t, h)
          PROVE  UNCHANGED vars
      BY <2>2 DEF AttachStep, LastReleaseOfObservable, Attach
    <2>3. CASE Drop
      BY <2>3 DEF Drop, Next
    <2>4. CASE RunHandler
      <3>1. reaper \in Threads
        BY <2>4 DEF RunHandler, ReaperOK
      <3>2. ObservableDealloc(reaper) \/ UNCHANGED vars
        BY <2>4 DEF RunHandler
      <3> QED  BY <3>1, <3>2 DEF Next, Call
    <2>5. CASE TimerStep
      BY <2>5 DEF TimerStep, Next
    <2>6. CASE UNCHANGED all
      BY <2>6 DEF all
    <2> QED  BY <2>1, <2>2, <2>3, <2>4, <2>5, <2>6 DEF TNext
  <1> QED  BY <1>1, <1>2, ReaperType, PTL DEF TSpec, Spec

\* In the composition the observable behaves as ValueObserving, whatever the timer does
\* with its own handler (NSValueObserving.m).
THEOREM ObservingImplemented == TSpec => Observing!Spec
  <1>1. TInit => Observing!Init
    BY DEF TInit
  <1>2. [TNext]_all => [Observing!Next]_(Observing!vars)
    <2> SUFFICES ASSUME [TNext]_all PROVE [Observing!Next]_(Observing!vars)
      OBVIOUS
    <2>1. ASSUME UNCHANGED observingVars PROVE UNCHANGED Observing!vars
      BY <2>1 DEF observingVars, Observing!vars
    <2>2. ASSUME NEW t \in Threads, Create(t) \/ Use(t) \/ FinishCall(t)
          PROVE  UNCHANGED Observing!vars
      BY <2>1, <2>2 DEF Create, Use, FinishCall
    <2>3. ASSUME NEW t \in Threads, CreateObservable(t) \/ CreateObservableNil(t)
          PROVE  Observing!Next
      BY <2>3, ObservingAssumption DEF CreateObservable, CreateObservableNil, Observing!Next
    <2>4. ASSUME NEW t \in Threads,
                 \/ AttachStep(t) \/ LastReleaseOfObservable(t)
                 \/ \E h \in Handlers : Attach(t, h)
          PROVE  Observing!Next
      BY <2>4 DEF AttachStep, LastReleaseOfObservable, Attach, Observing!Next
    <2>5. CASE Drop \/ TimerStep
      BY <2>1, <2>5 DEF Drop, TimerStep
    <2>6. CASE RunHandler
      BY <2>6 DEF RunHandler, Observing!Next
    <2>7. CASE UNCHANGED all
      BY <2>1, <2>7 DEF all
    <2> QED  BY <2>2, <2>3, <2>4, <2>5, <2>6, <2>7 DEF TNext
  <1> QED  BY <1>1, <1>2, PTL DEF TSpec, Observing!Spec

-----------------------------------------------------------------------------
(***************************************************************************)
(* Lists of handlers.                                                       *)
(***************************************************************************)
\* A new handler at the end of a list without repetitions leaves it without any.
LEMMA ListAppend ==
  ASSUME NEW s \in Seq(Handlers), NEW h \in Handlers, NEW S
  PROVE  /\ Append(s, h) \in Seq(Handlers) /\ Append(s, h) # <<>>
         /\ Injective(s) /\ (\A i \in 1..Len(s) : s[i] # h) => Injective(Append(s, h))
         /\ Within(s, S) /\ h \in S => Within(Append(s, h), S)
         /\ \A i \in 1..Len(Append(s, h)) :
              Append(s, h)[i] = h \/ \E j \in 1..Len(s) : Append(s, h)[i] = s[j]
  <1> DEFINE a == Append(s, h)
             n == Len(s)
  <1>1. /\ a \in Seq(Handlers) /\ a # <<>> /\ n \in Nat /\ Len(a) = n + 1 /\ a[n + 1] = h
        /\ \A i \in 1..n : a[i] = s[i]
    BY AppendProperties
  <1> HIDE DEF a
  <1>2. \A i \in 1..Len(a) : i \in 1..n \/ i = n + 1
    BY <1>1
  <1> HIDE DEF n
  <1>3. Injective(s) /\ (\A i \in 1..n : s[i] # h) => Injective(a)
    BY <1>1, <1>2 DEF Injective, n
  <1>4. Within(s, S) /\ h \in S => Within(a, S)
    BY <1>1, <1>2 DEF Within, n
  <1>5. \A i \in 1..Len(a) : a[i] = h \/ \E j \in 1..n : a[i] = s[j]
    BY <1>1, <1>2
  <1> QED  BY <1>1, <1>3, <1>4, <1>5 DEF a, n

\* The first handler of a list without repetitions is not in the rest.
LEMMA ListTail ==
  ASSUME NEW s \in Seq(Handlers), s # <<>>, Injective(s)
  PROVE  /\ Tail(s) \in Seq(Handlers) /\ Injective(Tail(s)) /\ Head(s) \in Handlers
         /\ 1 \in 1..Len(s) /\ Head(s) = s[1]
         /\ \A i \in 1..Len(Tail(s)) :
              Tail(s)[i] # Head(s) /\ \E j \in 1..Len(s) : Tail(s)[i] = s[j]
  <1> DEFINE r == Tail(s)
             n == Len(s)
  <1>1. /\ r \in Seq(Handlers) /\ n \in Nat /\ n # 0 /\ Len(r) = n - 1 /\ Head(s) = s[1]
        /\ Head(s) \in Handlers /\ \A i \in 1..(n - 1) : r[i] = s[i + 1]
    BY HeadTailProperties, EmptySeq
  <1> HIDE DEF r
  <1>2. \A i \in 1..Len(r) : i \in Int /\ i + 1 \in 1..n /\ i + 1 # 1 /\ r[i] = s[i + 1]
    BY <1>1
  <1>3. 1 \in 1..n
    BY <1>1
  <1> HIDE DEF n
  <1>4. Injective(r)
    <2> SUFFICES ASSUME NEW i \in 1..Len(r), NEW j \in 1..Len(r), r[i] = r[j] PROVE i = j
      BY DEF Injective
    <2>1. i + 1 = j + 1
      BY <1>2 DEF Injective, n
    <2> QED  BY <1>2, <2>1
  <1>5. \A i \in 1..Len(r) : r[i] # s[1] /\ \E j \in 1..n : r[i] = s[j]
    BY <1>2, <1>3 DEF Injective, n
  <1> QED  BY <1>1, <1>3, <1>4, <1>5 DEF r, n

-----------------------------------------------------------------------------
(***************************************************************************)
(* The observable.                                                          *)
(***************************************************************************)
\* Attaching to nil preserves the invariant.
LEMMA NilStep ==
  ASSUME ObservingInv, NEW t \in Threads, NEW h \in Handlers, Observing!AttachToNil(t, h)
  PROVE  ObservingInv'
  <1> USE DEF ObservingInv
  <1>0. /\ UNCHANGED <<alive, assoc, lock, at, local, arg, handlers, made, dying, attached>>
        /\ called' = Append(called, h) /\ onNil' = onNil \cup {h}
        /\ h \notin attached \cup onNil /\ \A u \in Threads : arg[u] # h
        /\ called \in Seq(Handlers) /\ dying \in Seq(Handlers)
    BY DEF Observing!AttachToNil, Observing!Fresh, Observing!TypeOK
  <1>1. /\ \A i \in 1..Len(called) : called[i] # h
        /\ \A i \in 1..Len(dying) : dying[i] # h
    BY <1>0 DEF RanOnce, Within
  <1>2. /\ called' \in Seq(Handlers) /\ Injective(called')
        /\ \A i \in 1..Len(called') : called'[i] = h \/ \E j \in 1..Len(called) : called'[i] = called[j]
    BY <1>0, <1>1, ListAppend DEF RanOnce
  <1>3. Observing!TypeOK'
    BY <1>0, <1>2 DEF Observing!TypeOK
  <1>4. Locked' /\ OneUse' /\ Kept'
    BY <1>0 DEF Locked, OneUse, Kept, Attaching
  <1>5. Apart(called', dying) /\ Within(called', IF alive THEN onNil' ELSE onNil' \cup attached)
    BY <1>0, <1>1, <1>2 DEF RanOnce, Apart, Within
  <1> QED  BY <1>0, <1>2, <1>3, <1>4, <1>5 DEF RanOnce

\* The steps of an attaching call up to the association preserve the invariant.
LEMMA EnterStep ==
  ASSUME ObservingInv, NEW t \in Threads,
         \/ \E h \in Handlers : Observing!NPAttachDeallocationHandler(t, h)
         \/ Observing!Synchronized(t) \/ Observing!GetAssociated(t)
  PROVE  ObservingInv'
  <1> USE DEF ObservingInv
  <1>0. UNCHANGED <<alive, assoc, handlers, made, dying, called, attached, onNil>>
    BY DEF Observing!NPAttachDeallocationHandler, Observing!Synchronized,
      Observing!GetAssociated, Observing!history
  <1>1. Kept' /\ RanOnce'
    BY <1>0 DEF Kept, RanOnce
  <1>2. ASSUME NEW h \in Handlers, Observing!NPAttachDeallocationHandler(t, h)
        PROVE  Observing!TypeOK' /\ Locked' /\ OneUse'
    <2>1. /\ at[t] = "idle" /\ alive /\ at' = [at EXCEPT ![t] = "enter"]
          /\ arg' = [arg EXCEPT ![t] = h] /\ UNCHANGED <<lock, local>>
          /\ h \notin attached \cup onNil /\ (\A u \in Threads : arg[u] # h) /\ h # None
      BY <1>2, ObservingAssumption
        DEF Observing!NPAttachDeallocationHandler, Observing!Fresh
    <2>2. Observing!TypeOK'
      BY <1>0, <2>1 DEF Observing!TypeOK
    <2>3. /\ at'[t] = "enter" /\ arg'[t] = h
          /\ \A u \in Threads \ {t} : at'[u] = at[u] /\ arg'[u] = arg[u]
      BY <2>1 DEF Observing!TypeOK
    <2>4. Locked'
      BY <1>0, <2>1, <2>3 DEF Locked, Attaching
    <2>5. OneUse'
      BY <1>0, <2>1, <2>3 DEF OneUse
    <2> QED  BY <1>1, <2>2, <2>4, <2>5
  <1>3. CASE Observing!Synchronized(t)
    <2>1. /\ at[t] = "enter" /\ lock = None /\ lock' = t /\ at' = [at EXCEPT ![t] = "get"]
          /\ UNCHANGED <<local, arg>>
      BY <1>3 DEF Observing!Synchronized, Observing!Lock
    <2>2. Observing!TypeOK'
      BY <1>0, <2>1 DEF Observing!TypeOK
    <2>3. at'[t] = "get" /\ \A u \in Threads \ {t} : at'[u] = at[u]
      BY <2>1 DEF Observing!TypeOK
    <2>4. \A u \in Threads : at[u] \notin {"get", "create", "add"}
      BY <2>1, ObservingAssumption DEF Locked
    <2>5. Locked'
      BY <1>0, <2>1, <2>3, <2>4 DEF Locked, Attaching
    <2>6. OneUse'
      BY <1>0, <2>1 DEF OneUse
    <2> QED  BY <1>1, <2>2, <2>5, <2>6
  <1>4. CASE Observing!GetAssociated(t)
    <2>1. /\ at[t] = "get" /\ local' = [local EXCEPT ![t] = assoc]
          /\ at' = [at EXCEPT ![t] = IF assoc = None THEN "create" ELSE "add"]
          /\ UNCHANGED <<lock, arg>>
      BY <1>4 DEF Observing!GetAssociated
    <2>2. Observing!TypeOK'
      BY <1>0, <2>1 DEF Observing!TypeOK
    <2>3. /\ at'[t] = (IF assoc = None THEN "create" ELSE "add") /\ local'[t] = assoc
          /\ \A u \in Threads \ {t} : at'[u] = at[u] /\ local'[u] = local[u]
      BY <2>1 DEF Observing!TypeOK
    <2>4. Locked'
      BY <1>0, <2>1, <2>3 DEF Locked, Attaching
    <2>5. OneUse'
      BY <1>0, <2>1 DEF OneUse
    <2> QED  BY <1>1, <2>2, <2>4, <2>5
  <1> QED  BY <1>1, <1>2, <1>3, <1>4

\* A new observer replaces none, and so runs nothing early.
LEMMA CreateStep ==
  ASSUME ObservingInv, NEW t \in Threads, NEW o \in Observers, Observing!SetAssociated(t, o)
  PROVE  ObservingInv'
  <1> USE DEF ObservingInv
  <1>1. at[t] = "create" /\ assoc = None /\ lock = t /\ alive /\ o \notin made
    BY DEF Observing!SetAssociated, Locked, Attaching
  <1>2. /\ made' = made \cup {o} /\ local' = [local EXCEPT ![t] = o] /\ assoc' = o
        /\ at' = [at EXCEPT ![t] = "add"]
        /\ UNCHANGED <<called, alive, lock, arg, handlers, dying, attached, onNil>>
    BY <1>1 DEF Observing!SetAssociated, Observing!history
  <1>3. Observing!TypeOK'
    BY <1>2 DEF Observing!TypeOK
  <1>4. /\ at'[t] = "add" /\ local'[t] = o /\ o # None
        /\ \A u \in Threads \ {t} : at'[u] = at[u] /\ local'[u] = local[u]
    BY <1>2, ObservingAssumption DEF Observing!TypeOK
  <1>5. \A u \in Threads \ {t} : at[u] \notin {"get", "create", "add"}
    BY <1>1 DEF Locked
  <1>6. Locked'
    BY <1>1, <1>2, <1>4, <1>5 DEF Locked, Attaching
  <1>7. Kept'
    BY <1>1, <1>2, ObservingAssumption DEF Kept
  <1> QED  BY <1>2, <1>3, <1>6, <1>7 DEF OneUse, RanOnce

\* A handler joins the others.
LEMMA AddStep ==
  ASSUME ObservingInv, NEW t \in Threads, Observing!AddObserverHandler(t)
  PROVE  ObservingInv'
  <1> USE DEF ObservingInv
  <1> DEFINE h == arg[t]
             o == local[t]
  <1>1. /\ at[t] = "add" /\ o = assoc /\ o # None /\ lock = t /\ alive /\ h # None
        /\ o \in Observers /\ h \in Handlers /\ h \notin attached \cup onNil
    BY DEF Observing!AddObserverHandler, Locked, Attaching, OneUse, Observing!TypeOK
  <1>2. /\ handlers' = [handlers EXCEPT ![o] = Append(handlers[o], h)]
        /\ attached' = attached \cup {h} /\ lock' = None
        /\ at' = [at EXCEPT ![t] = "idle"] /\ local' = [local EXCEPT ![t] = None]
        /\ arg' = [arg EXCEPT ![t] = None]
        /\ UNCHANGED <<alive, assoc, made, dying, called, onNil>>
    BY DEF Observing!AddObserverHandler
  <1>3. /\ handlers[o] \in Seq(Handlers)
        /\ \A i \in 1..Len(handlers[o]) : handlers[o][i] # h
    BY <1>1 DEF Kept, Within, Observing!TypeOK
  <1>4. /\ Append(handlers[o], h) \in Seq(Handlers) /\ Injective(Append(handlers[o], h))
        /\ Within(Append(handlers[o], h), attached')
    <2>1. Within(handlers[o], attached')
      BY <1>1, <1>2 DEF Kept, Within
    <2> QED  BY <1>1, <1>2, <1>3, <2>1, ListAppend DEF Kept
  <1>5. Observing!TypeOK'
    BY <1>1, <1>2, <1>4 DEF Observing!TypeOK
  <1>6. /\ at'[t] = "idle" /\ arg'[t] = None
        /\ \A u \in Threads \ {t} : at'[u] = at[u] /\ local'[u] = local[u] /\ arg'[u] = arg[u]
        /\ handlers'[o] = Append(handlers[o], h)
        /\ \A x \in Observers \ {o} : handlers'[x] = handlers[x]
    BY <1>1, <1>2 DEF Observing!TypeOK
  <1> HIDE DEF h, o
  <1>7. Locked'
    <2>1. \A u \in Threads \ {t} : at[u] \notin {"get", "create", "add"}
      BY <1>1 DEF Locked
    <2> QED  BY <1>2, <1>6, <2>1 DEF Locked, Attaching
  <1>8. OneUse'
    <2>1. None \notin attached' \cup onNil
      BY <1>1, <1>2, ObservingAssumption DEF Observing!TypeOK
    <2>2. \A u \in Threads \ {t} : arg[u] # h
      BY <1>1 DEF OneUse, h
    <2> QED  BY <1>1, <1>2, <1>6, <2>1, <2>2 DEF OneUse
  <1>9. Kept'
    <2>1. \A x \in Observers \ {o} : Injective(handlers'[x]) /\ Within(handlers'[x], attached')
      BY <1>2, <1>6 DEF Kept, Within
    <2>2. Injective(handlers'[o]) /\ Within(handlers'[o], attached')
      BY <1>4, <1>6
    <2>3. o \in made
      BY <1>1 DEF Kept
    <2> QED  BY <1>1, <1>2, <1>6, <2>1, <2>2, <2>3 DEF Kept
  <1>10. RanOnce'
    BY <1>1, <1>2 DEF RanOnce, Within
  <1> QED  BY <1>5, <1>7, <1>8, <1>9, <1>10

\* The death of the object hands its handlers to the dealloc of the observer.
LEMMA DeathStep ==
  ASSUME ObservingInv, Observing!Dealloc
  PROVE  ObservingInv'
  <1> USE DEF ObservingInv
  <1>1. /\ alive /\ (\A t \in Threads : at[t] = "idle") /\ alive' = FALSE /\ assoc' = None
        /\ dying' = (IF assoc = None THEN <<>> ELSE handlers[assoc])
        /\ UNCHANGED <<lock, at, local, arg, handlers, made, called, attached, onNil>>
    BY DEF Observing!Dealloc, Observing!history
  <1>2. /\ dying' \in Seq(Handlers) /\ Injective(dying') /\ Within(dying', attached)
    <2>1. CASE assoc = None
      <3>1. dying' = <<>> /\ <<>> \in Seq(Handlers) /\ Len(<<>>) = 0
        BY <1>1, <2>1
      <3>2. \A i \in 1..Len(dying') : FALSE
        BY <3>1
      <3> QED  BY <3>1, <3>2 DEF Injective, Within
    <2>2. CASE assoc # None
      BY <1>1, <2>2 DEF Kept, Observing!TypeOK
    <2> QED  BY <2>1, <2>2
  <1>3. Observing!TypeOK'
    BY <1>1, <1>2 DEF Observing!TypeOK
  <1>4. Locked' /\ OneUse' /\ Kept'
    BY <1>1 DEF Locked, OneUse, Kept, Attaching
  <1>5. Within(called, onNil) /\ Within(called, onNil \cup attached)
    BY <1>1 DEF RanOnce, Within
  <1>6. Apart(called, dying')
    BY <1>2, <1>5 DEF Apart, Within, OneUse
  <1> QED  BY <1>1, <1>2, <1>3, <1>4, <1>5, <1>6 DEF RanOnce

\* The dealloc runs the next handler.
LEMMA RunStep ==
  ASSUME ObservingInv, Observing!RunHandler
  PROVE  ObservingInv'
  <1> USE DEF ObservingInv
  <1>1. /\ dying # <<>> /\ called' = Append(called, Head(dying)) /\ dying' = Tail(dying)
        /\ UNCHANGED <<alive, assoc, lock, at, local, arg, handlers, made, attached, onNil>>
        /\ dying \in Seq(Handlers) /\ called \in Seq(Handlers) /\ ~alive
    BY DEF Observing!RunHandler, Observing!history, Observing!TypeOK, RanOnce
  <1> DEFINE h == Head(dying)
  <1>2. /\ dying' \in Seq(Handlers) /\ Injective(dying') /\ h \in Handlers
        /\ 1 \in 1..Len(dying) /\ h = dying[1]
        /\ \A i \in 1..Len(dying') : dying'[i] # h /\ \E j \in 1..Len(dying) : dying'[i] = dying[j]
    BY <1>1, ListTail DEF RanOnce
  <1> HIDE DEF h
  <1>3. h \in attached /\ \A i \in 1..Len(called) : called[i] # h
    BY <1>2 DEF RanOnce, Within, Apart
  <1>4. /\ called' \in Seq(Handlers) /\ Injective(called')
        /\ \A i \in 1..Len(called') : called'[i] = h \/ \E j \in 1..Len(called) : called'[i] = called[j]
    BY <1>1, <1>2, <1>3, ListAppend DEF RanOnce, h
  <1>5. Observing!TypeOK'
    BY <1>1, <1>2, <1>4 DEF Observing!TypeOK
  <1>6. Locked' /\ OneUse' /\ Kept'
    BY <1>1 DEF Locked, OneUse, Kept, Attaching
  <1>7. Within(dying', attached) /\ Within(called', onNil \cup attached)
    BY <1>1, <1>2, <1>3, <1>4 DEF RanOnce, Within
  <1>8. Apart(called', dying')
    BY <1>2, <1>4 DEF RanOnce, Apart
  <1> QED  BY <1>1, <1>2, <1>4, <1>5, <1>6, <1>7, <1>8 DEF RanOnce

\* ObservingInv holds in every state of an observable: it is inductive as it stands.
LEMMA ObservingInvariant == Observing!Spec => []ObservingInv
  <1>1. Observing!Init => ObservingInv
    <2> SUFFICES ASSUME Observing!Init PROVE ObservingInv
      OBVIOUS
    <2>1. Observing!TypeOK
      <3>1. <<>> \in Seq(Handlers)
        OBVIOUS
      <3>2. handlers \in [Observers -> Seq(Handlers)]
        BY <3>1 DEF Observing!Init
      <3> QED  BY <3>1, <3>2 DEF Observing!Init, Observing!TypeOK
    <2>2. Locked /\ OneUse
      BY DEF Observing!Init, Locked, OneUse, Attaching
    <2>3. \A i \in 1..Len(<<>>) : FALSE
      <3>1. Len(<<>>) = 0
        OBVIOUS
      <3> QED  BY <3>1
    <2>4. Injective(<<>>) /\ Apart(<<>>, <<>>) /\ \A S : Within(<<>>, S)
      BY <2>3 DEF Injective, Apart, Within
    <2>5. Kept
      BY <2>4 DEF Observing!Init, Kept
    <2>6. RanOnce
      BY <2>4 DEF Observing!Init, RanOnce
    <2> QED  BY <2>1, <2>2, <2>5, <2>6 DEF ObservingInv
  <1>2. ObservingInv /\ [Observing!Next]_(Observing!vars) => ObservingInv'
    <2> SUFFICES ASSUME ObservingInv, [Observing!Next]_(Observing!vars) PROVE ObservingInv'
      OBVIOUS
    <2>1. CASE UNCHANGED Observing!vars
      BY <2>1 DEF Observing!vars, ObservingInv, Observing!TypeOK, Locked, OneUse, Kept, RanOnce,
        Attaching
    <2>2. CASE Observing!Next
      BY <2>2, NilStep, EnterStep, CreateStep, AddStep, DeathStep, RunStep
        DEF Observing!Next, Observing!AttachStep
    <2> QED  BY <2>1, <2>2
  <1> QED  BY <1>1, <1>2, PTL DEF Observing!Spec

\* Every variable of the composition keeps its type.
THEOREM CompositionTypeCorrect == TSpec => []TTypeOK
  <1>1. TypeOK /\ ObservingInv /\ ReaperOK => TTypeOK
    BY DEF ObservingInv, ReaperOK, TTypeOK
  <1> QED  BY <1>1, TypeCorrect, TimerImplemented, ObservingInvariant, ObservingImplemented,
              ReaperType, PTL

\* A handler runs once at most, and only for nil or after the object's death, however the
\* first attaching calls interleave (NSValueObserving.m:69-77).
THEOREM HandlersRunOnce == TSpec => []OnceAndNotEarly
  <1>1. ObservingInv => OnceAndNotEarly
    <2> SUFFICES ASSUME ObservingInv, NEW h \in Handlers
                 PROVE  /\ Observing!Calls(h) <= 1
                        /\ Observing!Calls(h) = 1 => h \in onNil \/ ~alive
      BY DEF OnceAndNotEarly, Observing!OnceAndNotEarly
    <2> DEFINE C == {i \in 1..Len(called) : called[i] = h}
    <2>1. Observing!Calls(h) = Cardinality(C)
      BY Zenon DEF Observing!Calls, Observing!Cardinality, Cardinality
    <2>2. CASE C = {}
      <3>1. Cardinality(C) = 0
        BY <2>2, FS_EmptySet
      <3> QED  BY <2>1, <3>1
    <2>3. CASE C # {}
      <3>1. PICK i \in C : TRUE
        BY <2>3
      <3>2. C = {i}
        BY <3>1 DEF ObservingInv, RanOnce, Injective
      <3>3. Cardinality(C) = 1
        BY <3>2, FS_Singleton
      <3>4. h \in onNil \/ ~alive
        BY <3>1 DEF ObservingInv, RanOnce, Within
      <3> QED  BY <2>1, <3>3, <3>4
    <2> QED  BY <2>2, <2>3
  <1> QED  BY <1>1, ObservingInvariant, ObservingImplemented, PTL

\* With a real observable the suspend count is still what the flag says
\* (timer.m:49-95).
THEOREM ComposedLedger == TSpec => []SuspendLedger
  BY LedgerHolds, TimerImplemented, PTL

\* With a real observable the source is still never released while suspended.
THEOREM ComposedReleaseSafe == TSpec => []ReleaseNeverTraps
  BY ReleaseSafe, TimerImplemented, PTL

\* With a real observable it still takes two calls at the same time to over-resume.
THEOREM ComposedSerialSafe == TSpec => []OverResumeNeedsOverlap
  BY SerialNeverOverResumes, TimerImplemented, PTL

\* With a real observable a suspended timer still does not start its handler.
THEOREM ComposedSuspendedSafe == TSpec => SuspendedNeverFires
  BY SuspendedSafe, TimerImplemented, PTL
=============================================================================
