--------------------------- MODULE TimerObserving ---------------------------
(***************************************************************************)
(* The timer of NPTimer together with the observable it may be bound to:    *)
(* NPDispatchTimerObservable attaches a block that cancels the timer, other *)
(* code attaches other blocks, and the death of the observable runs them    *)
(* all, on the thread that released it, while the rest use the timer.       *)
(*                                                                          *)
(* A step is a step of NPTimer, of ValueObserving, or of both, where one    *)
(* calls the other.  binding of NPTimer is what the timer knows of the      *)
(* observable.  A thread is in one call at a time.                          *)
(***************************************************************************)
EXTENDS NPTimer, Sequences

CONSTANTS
    Handlers, Observers, None,
    CancelTimer   \* the handler that NPDispatchTimerObservable attaches

ASSUME ObservingAssumption ==
    /\ CancelTimer \in Handlers
    /\ None \notin Threads \cup Handlers \cup Observers

VARIABLES
    alive, assoc, lock, at, local, arg, handlers, made, dying, called, attached, onNil,
    reaper   \* the thread that released the observable

Observing == INSTANCE ValueObserving WITH pc <- at

observingVars == <<alive, assoc, lock, at, local, arg, handlers, made, dying, called,
                   attached, onNil>>
all == <<vars, observingVars, reaper>>

-----------------------------------------------------------------------------
TInit == Init /\ Observing!Init /\ reaper = None

\* t runs client code: it is in no call, and no dealloc is under way on it.
Client(t) ==
    /\ trap = "none"
    /\ at[t] = "idle" /\ pc[t] = "idle"
    /\ reaper = t => dying = <<>>

\* Nobody has the handle before the call that creates the timer has returned.
Returned == \A t \in Threads : arg[t] # CancelTimer

Create(t) == Client(t) /\ NPDispatchTimer(t) /\ UNCHANGED <<observingVars, reaper>>

CreateObservable(t) ==
    /\ Client(t)
    /\ NPDispatchTimerObservable(t)
    /\ Observing!NPAttachDeallocationHandler(t, CancelTimer)
    /\ UNCHANGED reaper

CreateObservableNil(t) ==
    /\ Client(t)
    /\ NPDispatchTimerObservableNil(t)
    /\ Observing!AttachToNil(t, CancelTimer)
    /\ UNCHANGED reaper

Use(t) ==
    /\ Client(t) /\ Returned
    /\ NPDispatchTimerResume(t) \/ NPDispatchTimerSuspend(t) \/ NPDispatchTimerCancel(t)
    /\ UNCHANGED <<observingVars, reaper>>

Drop == Returned /\ DropHandle /\ UNCHANGED <<observingVars, reaper>>

\* Other users of the observable.
Attach(t, h) ==
    /\ Client(t) /\ h # CancelTimer
    /\ Observing!NPAttachDeallocationHandler(t, h) \/ Observing!AttachToNil(t, h)
    /\ UNCHANGED <<vars, reaper>>

AttachStep(t) ==
    /\ trap = "none"
    /\ Observing!AttachStep(t)
    /\ UNCHANGED <<vars, reaper>>

LastReleaseOfObservable(t) ==
    /\ Client(t)
    /\ Observing!Dealloc
    /\ reaper' = t
    /\ UNCHANGED vars

\* The handlers run one after the other.  One of them may be the block that
\* calls NPDispatchTimerCancel, which has to return before the next one runs.
RunHandler ==
    /\ trap = "none" /\ reaper # None /\ pc[reaper] = "idle"
    /\ Observing!RunHandler
    /\ IF Head(dying) = CancelTimer THEN ObservableDealloc(reaper) ELSE UNCHANGED vars
    /\ UNCHANGED reaper

TimerStep == Libdispatch /\ UNCHANGED <<observingVars, reaper>>

FinishCall(t) == Finish(t) /\ UNCHANGED <<observingVars, reaper>>

TNext ==
    \/ \E t \in Threads :
         \/ Create(t) \/ CreateObservable(t) \/ CreateObservableNil(t) \/ Use(t)
         \/ AttachStep(t) \/ LastReleaseOfObservable(t) \/ FinishCall(t)
         \/ \E h \in Handlers : Attach(t, h)
    \/ Drop
    \/ RunHandler
    \/ TimerStep

TSpec == TInit /\ [][TNext]_all

\* Of NPTimer, the fairness stays as it is; a dealloc that has started goes on.
TFairSpec == TSpec /\ Fairness /\ WF_all(RunHandler)

-----------------------------------------------------------------------------
TTypeOK == TypeOK /\ Observing!TypeOK /\ reaper \in Threads \cup {None}

\* See ValueObserving: a handler runs once, and neither for an object that is
\* alive nor, with its observer replaced, too early (NSValueObserving.m:69-77).
OnceAndNotEarly == Observing!OnceAndNotEarly

\* No attached handler is lost: each of them runs when the object dies, also
\* while one of them is at cancelling a timer (NSValueObserving.m:46-51).
AllRunAtDeath ==
    \A h \in Handlers :
        (h \in attached /\ ~alive) ~> (Observing!Calls(h) = 1 \/ trap # "none")

\* The death of the object a timer is bound to ends the timer: however the
\* threads raced to attach, suspend, resume or cancel, its source is reclaimed
\* (timer.m:120-126).
DeathReclaims ==
    (CancelTimer \in onNil \/ (CancelTimer \in attached /\ ~alive))
        ~> (source = "reclaimed" \/ trap # "none")
=============================================================================
