------------------------------ MODULE Debounce ------------------------------
(***************************************************************************)
(* NPDispatchScheduleDebounce of dispatch/schedule.m.  A private serial     *)
(* queue runs, in the order they were queued, the signal blocks, the cancel *)
(* blocks and the event handlers of the one-shot timer sources that the     *)
(* signal blocks create.  One block runs at a time and only blocks touch    *)
(* the schedule's state, so a block is one step.                            *)
(*                                                                          *)
(* Time is kept as what is left of each timer, and as how long ago the last *)
(* signal block ran, capped at Delay.  The leeway, and any lateness of the  *)
(* system, is the time an expired timer waits before its handler is queued. *)
(*                                                                          *)
(* Signals are numbered as they are sent.  The queue is FIFO, so the number *)
(* of a signal is the generation its block will get.                        *)
(***************************************************************************)
EXTENDS Integers, Sequences

CONSTANTS
    Delay,       \* delayInSeconds, in ticks
    MaxSignals,  \* bound: signals the client sends
    MaxCancels   \* bound: cancellations the client sends

ASSUME DelayAssumption == Delay \in Nat
ASSUME BoundsAssumption == MaxSignals \in Nat /\ MaxCancels \in Nat

VARIABLES
    handle,      \* none, live, null (calloc failed) or freed
    queue,       \* the private queue: <<kind, generation>>
    generation,
    canceled,
    source,      \* per generation, its timer source
    left,        \* per generation, the time left of its timer
    dispatched,  \* per generation, callbacks handed to the client's queue
    ran,         \* per generation, callbacks that have run
    issued,      \* signals sent
    cancels,     \* cancellations sent
    quiet,       \* history: time since the last signal block ran, capped
    cancelledIn  \* history: where a signal was when a cancel was first called

vars == <<handle, queue, generation, canceled, source, left, dispatched, ran,
          issued, cancels, quiet, cancelledIn>>
blockState == <<generation, canceled, source, left, dispatched, quiet>>

Generations == 1..MaxSignals

\* none: not created; armed: waits for its time; fired: its handler is queued;
\* cancelled: its handler has run and has cancelled it, so it is released.
SourceStates == {"none", "armed", "fired", "cancelled"}
Stages == {"unsent", "queued", "armed", "fired", "dispatched", "over"}

TypeOK ==
    /\ handle \in {"none", "live", "null", "freed"}
    /\ queue \in Seq({"signal", "cancel", "timer"} \X (0..MaxSignals))
    /\ generation \in 0..MaxSignals
    /\ canceled \in BOOLEAN
    /\ source \in [Generations -> SourceStates]
    /\ left \in [Generations -> 0..Delay]
    /\ dispatched \in [Generations -> Nat]
    /\ ran \in [Generations -> Nat]
    /\ issued \in 0..MaxSignals
    /\ cancels \in 0..MaxCancels
    /\ quiet \in 0..Delay
    /\ cancelledIn \in [Generations -> Stages]

\* How far signal g has got.
Stage(g) ==
    IF g > issued THEN "unsent"
    ELSE IF dispatched[g] > ran[g] THEN "dispatched"
    ELSE CASE source[g] = "none"      -> "queued"
           [] source[g] = "armed"     -> "armed"
           [] source[g] = "fired"     -> "fired"
           [] source[g] = "cancelled" -> "over"

-----------------------------------------------------------------------------
(***************************************************************************)
(* Faulty variants, each a slip one could make in schedule.m.               *)
(***************************************************************************)
FaultyMayDispatch(g) == ~canceled        \* the generation is not compared

FaultyOnSignal ==                        \* canceled is not reset
    /\ queue # <<>> /\ Head(queue)[1] = "signal" /\ generation < MaxSignals
    /\ queue' = Tail(queue)
    /\ generation' = generation + 1
    /\ source' = [source EXCEPT ![generation + 1] = "armed"]
    /\ left' = [left EXCEPT ![generation + 1] = Delay]
    /\ quiet' = 0
    /\ UNCHANGED <<handle, canceled, dispatched, ran, issued, cancels, cancelledIn>>

FaultyOnTimer ==                         \* only a timer that fires is cancelled
    /\ queue # <<>> /\ Head(queue)[1] = "timer"
    /\ LET g == Head(queue)[2] IN
         IF ~canceled /\ g = generation
         THEN /\ source' = [source EXCEPT ![g] = "cancelled"]
              /\ dispatched' = [dispatched EXCEPT ![g] = @ + 1]
         ELSE UNCHANGED <<source, dispatched>>
    /\ queue' = Tail(queue)
    /\ UNCHANGED <<handle, generation, canceled, left, ran, issued, cancels,
                   quiet, cancelledIn>>

-----------------------------------------------------------------------------
Init ==
    /\ handle = "none"
    /\ queue = <<>>
    /\ generation = 0
    /\ canceled = FALSE
    /\ source = [g \in Generations |-> "none"]
    /\ left = [g \in Generations |-> 0]
    /\ dispatched = [g \in Generations |-> 0]
    /\ ran = [g \in Generations |-> 0]
    /\ issued = 0
    /\ cancels = 0
    /\ quiet = 0
    /\ cancelledIn = [g \in Generations |-> "unsent"]

\* The handle is NULL if calloc fails.
makeScheduleWork == handle' \in {"live", "null"}

NPDispatchScheduleDebounce ==
    /\ handle = "none"
    /\ makeScheduleWork
    /\ UNCHANGED <<queue, blockState, ran, issued, cancels, cancelledIn>>

\* A NULL handle ignores signals and cancellations: a stuttering step.
NPScheduleWorkSignal ==
    /\ handle = "live" /\ issued < MaxSignals
    /\ issued' = issued + 1
    /\ queue' = Append(queue, <<"signal", 0>>)
    /\ UNCHANGED <<handle, blockState, ran, cancels, cancelledIn>>

NPScheduleWorkCancel ==
    /\ handle = "live" /\ cancels < MaxCancels
    /\ cancels' = cancels + 1
    /\ queue' = Append(queue, <<"cancel", 0>>)
    /\ cancelledIn' = [g \in Generations |->
                         IF cancelledIn[g] = "unsent" THEN Stage(g) ELSE cancelledIn[g]]
    /\ UNCHANGED <<handle, blockState, ran, issued>>

\* Queued blocks and armed timers keep what they captured.
NPScheduleWorkFree ==
    /\ handle = "live"
    /\ handle' = "freed"
    /\ UNCHANGED <<queue, blockState, ran, issued, cancels, cancelledIn>>

(***************************************************************************)
(* The blocks of the private queue.                                         *)
(***************************************************************************)
onSignal ==
    /\ queue # <<>> /\ Head(queue)[1] = "signal" /\ generation < MaxSignals
    /\ queue' = Tail(queue)
    /\ canceled' = FALSE
    /\ generation' = generation + 1
    /\ source' = [source EXCEPT ![generation + 1] = "armed"]
    /\ left' = [left EXCEPT ![generation + 1] = Delay]
    /\ quiet' = 0
    /\ UNCHANGED <<handle, dispatched, ran, issued, cancels, cancelledIn>>

onCancel ==
    /\ queue # <<>> /\ Head(queue)[1] = "cancel"
    /\ queue' = Tail(queue)
    /\ canceled' = TRUE
    /\ UNCHANGED <<handle, generation, source, left, dispatched, ran, issued,
                   cancels, quiet, cancelledIn>>

MayDispatch(g) == ~canceled /\ g = generation

\* The event handler of a timer: cancel the source, then dispatch or not.
onTimer ==
    /\ queue # <<>> /\ Head(queue)[1] = "timer"
    /\ LET g == Head(queue)[2] IN
         /\ source' = [source EXCEPT ![g] = "cancelled"]
         /\ dispatched' = IF MayDispatch(g)
                          THEN [dispatched EXCEPT ![g] = @ + 1]
                          ELSE dispatched
    /\ queue' = Tail(queue)
    /\ UNCHANGED <<handle, generation, canceled, left, ran, issued, cancels,
                   quiet, cancelledIn>>

(***************************************************************************)
(* libdispatch: timers, time and the client's queue.                        *)
(***************************************************************************)
\* The interval of the timer is DISPATCH_TIME_FOREVER: it expires once, and a
\* source that has fired is never armed again.
TimerFires(g) ==
    /\ source[g] = "armed" /\ left[g] = 0
    /\ source' = [source EXCEPT ![g] = "fired"]
    /\ queue' = Append(queue, <<"timer", g>>)
    /\ UNCHANGED <<handle, generation, canceled, left, dispatched, ran, issued,
                   cancels, quiet, cancelledIn>>

RunCallback(g) ==
    /\ ran[g] < dispatched[g]
    /\ ran' = [ran EXCEPT ![g] = @ + 1]
    /\ UNCHANGED <<handle, queue, blockState, issued, cancels, cancelledIn>>

Tick ==
    /\ left' = [g \in Generations |-> IF left[g] > 0 THEN left[g] - 1 ELSE 0]
    /\ quiet' = IF quiet < Delay THEN quiet + 1 ELSE quiet
    /\ UNCHANGED <<handle, queue, generation, canceled, source, dispatched, ran,
                   issued, cancels, cancelledIn>>

Next ==
    \/ NPDispatchScheduleDebounce
    \/ NPScheduleWorkSignal
    \/ NPScheduleWorkCancel
    \/ NPScheduleWorkFree
    \/ onSignal
    \/ onCancel
    \/ onTimer
    \/ \E g \in Generations : TimerFires(g) \/ RunCallback(g)
    \/ Tick

Spec == Init /\ [][Next]_vars

\* Time passes, an expired timer fires (within some finite leeway), and both
\* queues run what they were given.  Nothing is assumed of the client.
Fairness ==
    /\ WF_vars(onSignal \/ onCancel \/ onTimer)
    /\ \A g \in Generations : WF_vars(TimerFires(g)) /\ WF_vars(RunCallback(g))
    /\ WF_vars(Tick)

FairSpec == Spec /\ Fairness

-----------------------------------------------------------------------------
(***************************************************************************)
(* Properties                                                               *)
(***************************************************************************)
\* A callback is handed over only after a full delay without a signal block,
\* whichever timers are still around from earlier signals (schedule.m:117-125).
QuietPeriod == [][dispatched' # dispatched => quiet = Delay]_vars

\* A cancel called before the timer of a signal has fired calls that signal off
\* for good, even if a later signal clears `canceled` before the timer's
\* handler runs (schedule.m:108-109, 122, 128-130).
CancelCallsOff ==
    \A g \in Generations :
        cancelledIn[g] \in {"queued", "armed"} => dispatched[g] = 0

\* The last signal is never lost: unless another signal or a cancel follows,
\* its callback runs, even if the handle is freed meanwhile (schedule.m:131-135).
LastSignalRuns ==
    \A g \in Generations :
        (issued = g /\ cancelledIn[g] = "unsent")
          ~> (ran[g] > 0 \/ issued > g \/ cancelledIn[g] # "unsent")

\* Every timer source a signal creates is cancelled by its own handler, the
\* superseded ones too, and so can be released (schedule.m:112, 118).
SourcesReclaimed ==
    \A g \in Generations : (source[g] = "armed") ~> (source[g] = "cancelled")
=============================================================================
