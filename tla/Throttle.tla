------------------------------ MODULE Throttle ------------------------------
(***************************************************************************)
(* NPDispatchScheduleThrottle of dispatch/schedule.m.  Signals are blocks   *)
(* queued on a private serial queue; each one reads the monotonic clock,    *)
(* then decides whether the callback is dispatched to the client's queue    *)
(* or the signal is dropped.                                                *)
(*                                                                          *)
(* The private queue runs one block at a time, so hasFired and previous     *)
(* belong to the block that is running; but time passes, signals arrive     *)
(* and callbacks run between its clock reading and its dispatch, so a block *)
(* takes two steps.  The client's queue may be serial or concurrent: a      *)
(* dispatched callback starts at any later time.                            *)
(*                                                                          *)
(* NPScheduleWorkCancel does nothing to a throttle, and a signal on a NULL  *)
(* handle returns at once: both are stuttering steps.                       *)
(***************************************************************************)
EXTENDS Integers

CONSTANTS
    Delay,       \* delayInSeconds, in ticks of the clock
    MaxTime,     \* bound: the clock stops there
    MaxSignals   \* bound: signals the client sends

ASSUME DelayAssumption == Delay \in Nat
ASSUME BoundsAssumption == MaxTime \in Nat /\ MaxSignals \in Nat

VARIABLES
    handle,     \* none, live, null (calloc failed) or freed
    now,        \* CLOCK_MONOTONIC
    signals,    \* signals sent
    queued,     \* onSignal blocks waiting on the private queue
    stamp,      \* the timestamp of the running block, NoStamp if none runs
    hasFired,
    previous,
    dispatched, \* callbacks handed to the client's queue
    first,      \* history: the timestamp that fired first
    firedAt,    \* history: timestamps that dispatched the callback
    droppedAt,  \* history: timestamps that were dropped
    ran         \* callbacks that the client's queue has started

vars == <<handle, now, signals, queued, stamp, hasFired, previous, dispatched,
          first, firedAt, droppedAt, ran>>
state   == <<hasFired, previous, dispatched>>
history == <<first, firedAt, droppedAt>>

NoStamp == -1

TypeOK ==
    /\ handle \in {"none", "live", "null", "freed"}
    /\ now \in Nat
    /\ signals \in Nat
    /\ queued \in Nat
    /\ stamp \in Nat \cup {NoStamp}
    /\ hasFired \in BOOLEAN
    /\ previous \in Nat
    /\ dispatched \in Nat
    /\ first \in Nat
    /\ firedAt \subseteq Nat
    /\ droppedAt \subseteq Nat
    /\ ran \in Nat

-----------------------------------------------------------------------------
(***************************************************************************)
(* Faulty variants, each a slip one could make in schedule.m.               *)
(***************************************************************************)
FaultyDrop(ts) ==     \* previous slides along with every signal
    /\ previous' = ts
    /\ droppedAt' = droppedAt \cup {ts}
    /\ UNCHANGED <<hasFired, dispatched, first, firedAt>>

FaultyIsDue(ts) ==    \* the window ends a tick early
    ~hasFired \/ ts - previous >= Delay - 1

FaultyFree ==         \* freeing the handle drops the signals it was sent
    /\ handle = "live"
    /\ handle' = "freed"
    /\ queued' = 0
    /\ UNCHANGED <<now, signals, stamp, state, history, ran>>

-----------------------------------------------------------------------------
\* CLOCK_MONOTONIC starts anywhere: 0 is not special to hasFired.
Init ==
    /\ handle = "none"
    /\ now = 0
    /\ signals = 0
    /\ queued = 0
    /\ stamp = NoStamp
    /\ hasFired = FALSE
    /\ previous = 0
    /\ dispatched = 0
    /\ first = 0
    /\ firedAt = {}
    /\ droppedAt = {}
    /\ ran = 0

\* The handle is NULL if calloc fails.
makeScheduleWork == handle' \in {"live", "null"}

NPDispatchScheduleThrottle ==
    /\ handle = "none"
    /\ makeScheduleWork
    /\ UNCHANGED <<now, signals, queued, stamp, state, history, ran>>

NPScheduleWorkSignal ==
    /\ handle = "live" /\ signals < MaxSignals
    /\ signals' = signals + 1
    /\ queued' = queued + 1
    /\ UNCHANGED <<handle, now, stamp, state, history, ran>>

\* The queued blocks keep what they captured: freeing the handle stops nothing.
NPScheduleWorkFree ==
    /\ handle = "live"
    /\ handle' = "freed"
    /\ UNCHANGED <<now, signals, queued, stamp, state, history, ran>>

monotonicSeconds ==
    /\ queued > 0 /\ stamp = NoStamp
    /\ stamp' = now
    /\ queued' = queued - 1
    /\ UNCHANGED <<handle, now, signals, state, history, ran>>

IsDue(ts) == ~hasFired \/ ts - previous >= Delay

Fire(ts) ==
    /\ hasFired' = TRUE
    /\ previous' = ts
    /\ dispatched' = dispatched + 1
    /\ first' = IF hasFired THEN first ELSE ts
    /\ firedAt' = firedAt \cup {ts}
    /\ UNCHANGED droppedAt

Drop(ts) ==
    /\ droppedAt' = droppedAt \cup {ts}
    /\ UNCHANGED <<state, first, firedAt>>

onSignal ==
    /\ stamp # NoStamp
    /\ \/ IsDue(stamp) /\ Fire(stamp)
       \/ ~IsDue(stamp) /\ Drop(stamp)
    /\ stamp' = NoStamp
    /\ UNCHANGED <<handle, now, signals, queued, ran>>

\* The client's queue starts the callback.
RunCallback ==
    /\ ran < dispatched
    /\ ran' = ran + 1
    /\ UNCHANGED <<handle, now, signals, queued, stamp, state, history>>

Tick ==
    /\ now < MaxTime
    /\ now' = now + 1
    /\ UNCHANGED <<handle, signals, queued, stamp, state, history, ran>>

Next ==
    \/ NPDispatchScheduleThrottle
    \/ NPScheduleWorkSignal
    \/ NPScheduleWorkFree
    \/ monotonicSeconds
    \/ onSignal
    \/ RunCallback
    \/ Tick

Spec == Init /\ [][Next]_vars

\* Both queues keep running what they were given.  The client need not signal,
\* and the clock need not advance.
Fairness ==
    /\ WF_vars(monotonicSeconds)
    /\ WF_vars(onSignal)
    /\ WF_vars(RunCallback)

FairSpec == Spec /\ Fairness

-----------------------------------------------------------------------------
(***************************************************************************)
(* Properties                                                               *)
(***************************************************************************)
\* "At most once per delay window" over the whole life of the handle: n
\* dispatches, and so n executions, need n - 1 full delays since the first
\* one, however signals and clock readings interleave (schedule.m:86-93).
RateBound == hasFired => (dispatched - 1) * Delay <= now - first

\* A signal is only ever dropped because the callback was dispatched for a
\* signal less than a delay before it (schedule.m:88).
DropJustified ==
    \A d \in droppedAt : \E f \in firedAt : f <= d /\ d - f < Delay

\* Once a signal has been sent the callback does run, even if the handle is
\* freed at once (schedule.m:70-79, 94-95).
SignalRunsCallback == (signals > 0) ~> (ran > 0)
=============================================================================
