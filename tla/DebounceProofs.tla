--------------------------- MODULE DebounceProofs ---------------------------
(***************************************************************************)
(* The debounce for any delay and any number of signals: type correctness,  *)
(* the quiet period and cancellation.                                       *)
(*                                                                          *)
(* A queued handler belongs to a source that has fired, a source of a later *)
(* generation does not exist yet, and the source of the current generation  *)
(* measures exactly the time since its signal block ran.                    *)
(***************************************************************************)
EXTENDS Debounce, SequenceTheorems, TLAPS

Items == {"signal", "cancel", "timer"} \X (0..MaxSignals)

\* A queued handler belongs to a source that has fired.
HandlersFired ==
    \A i \in 1..Len(queue) : queue[i][1] = "timer" =>
        queue[i][2] \in Generations /\ source[queue[i][2]] = "fired"

\* No source has two handlers in the queue.
HandlersDistinct ==
    \A i, j \in 1..Len(queue) : queue[i][1] = "timer" /\ queue[i] = queue[j] => i = j

\* Sources are created in order.
NoFutureSource == \A g \in Generations : g > generation => source[g] = "none"

\* Only a source whose handler has run can have dispatched, and it did so once.
DispatchedOnce ==
    \A g \in Generations : /\ dispatched[g] <= 1
                           /\ source[g] # "cancelled" => dispatched[g] = 0

\* The current source measures the quiet period.
CurrentIsQuiet ==
    generation > 0 =>
      /\ source[generation] = "armed" => left[generation] + quiet >= Delay
      /\ source[generation] = "fired" => quiet = Delay

DebounceInv ==
    /\ TypeOK
    /\ HandlersFired
    /\ HandlersDistinct
    /\ NoFutureSource
    /\ DispatchedOnce
    /\ CurrentIsQuiet

-----------------------------------------------------------------------------
\* Queuing an item, item by item.
LEMMA Queued ==
  ASSUME NEW q \in Seq(Items), NEW e \in Items
  PROVE  /\ Append(q, e) \in Seq(Items)
         /\ Len(Append(q, e)) = Len(q) + 1 /\ Len(q) \in Nat
         /\ \A i \in 1..Len(q) : Append(q, e)[i] = q[i]
         /\ Append(q, e)[Len(q) + 1] = e
  OBVIOUS

\* Taking the first item, item by item.
LEMMA Dequeued ==
  ASSUME NEW q \in Seq(Items), q # <<>>
  PROVE  /\ Tail(q) \in Seq(Items) /\ Head(q) = q[1] /\ Head(q) \in Items
         /\ Len(q) \in Nat /\ Len(q) >= 1 /\ Len(Tail(q)) = Len(q) - 1
         /\ \A i \in 1..Len(Tail(q)) : i + 1 \in 1..Len(q) /\ Tail(q)[i] = q[i + 1]
  OBVIOUS

\* A block leaves the queue: what was true of every item stays true, and no
\* other item is the one that left.
LEMMA DequeueKeepsHandlers ==
  ASSUME DebounceInv, queue # <<>>, queue' = Tail(queue)
  PROVE  /\ HandlersDistinct'
         /\ \A i \in 1..Len(queue') : queue'[i][1] = "timer" =>
              /\ queue'[i][2] \in Generations /\ source[queue'[i][2]] = "fired"
              /\ queue'[i] # Head(queue)
  <1>0. queue \in Seq(Items)
    BY DEF DebounceInv, TypeOK, Items
  <1>1. /\ Head(queue) = queue[1] /\ 1 \in 1..Len(queue)
        /\ \A i \in 1..Len(queue') : i + 1 \in 1..Len(queue) /\ queue'[i] = queue[i + 1]
    BY <1>0, Dequeued
  <1>2. HandlersDistinct'
    <2> SUFFICES ASSUME NEW i \in 1..Len(queue'), NEW j \in 1..Len(queue'),
                        queue'[i][1] = "timer", queue'[i] = queue'[j]
                 PROVE  i = j
      BY DEF HandlersDistinct
    <2>1. i + 1 = j + 1
      BY <1>1 DEF DebounceInv, HandlersDistinct
    <2> QED  BY <2>1
  <1>3. ASSUME NEW i \in 1..Len(queue'), queue'[i][1] = "timer"
        PROVE  /\ queue'[i][2] \in Generations /\ source[queue'[i][2]] = "fired"
               /\ queue'[i] # Head(queue)
    <2>1. queue'[i][2] \in Generations /\ source[queue'[i][2]] = "fired"
      BY <1>1, <1>3 DEF DebounceInv, HandlersFired
    <2>2. queue'[i] = Head(queue) => i + 1 = 1
      BY <1>1, <1>3 DEF DebounceInv, HandlersDistinct
    <2> QED  BY <2>1, <2>2
  <1> QED  BY <1>2, <1>3

\* A signal or a cancel is queued: the handlers in the queue stay as they are.
LEMMA EnqueueKeepsHandlers ==
  ASSUME DebounceInv, NEW e \in Items, queue' = Append(queue, e), source' = source,
         e[1] # "timer"
  PROVE  HandlersFired' /\ HandlersDistinct' /\ queue' \in Seq(Items)
  <1>0. queue \in Seq(Items)
    BY DEF DebounceInv, TypeOK, Items
  <1>1. /\ queue' \in Seq(Items) /\ Len(queue') = Len(queue) + 1 /\ Len(queue) \in Nat
        /\ \A i \in 1..Len(queue) : queue'[i] = queue[i]
        /\ queue'[Len(queue) + 1] = e
    BY <1>0, Queued
  <1>2. \A i \in 1..Len(queue') : queue'[i][1] = "timer" =>
          i \in 1..Len(queue) /\ queue'[i] = queue[i]
    BY <1>1
  <1>3. HandlersFired'
    BY <1>2 DEF DebounceInv, HandlersFired
  <1>4. HandlersDistinct'
    BY <1>2 DEF DebounceInv, HandlersDistinct
  <1> QED  BY <1>1, <1>3, <1>4

\* The calls of the client, the callbacks and a stuttering step.
LEMMA ClientKeepsInv ==
  ASSUME DebounceInv,
         \/ NPDispatchScheduleDebounce \/ NPScheduleWorkSignal \/ NPScheduleWorkCancel
         \/ NPScheduleWorkFree \/ (\E g \in Generations : RunCallback(g))
         \/ UNCHANGED vars
  PROVE  DebounceInv' /\ dispatched' = dispatched
  <1>1. UNCHANGED blockState
    BY DEF NPDispatchScheduleDebounce, NPScheduleWorkSignal, NPScheduleWorkCancel,
      NPScheduleWorkFree, RunCallback, vars, blockState
  <1>2. NoFutureSource' /\ DispatchedOnce' /\ CurrentIsQuiet'
    BY <1>1 DEF DebounceInv, NoFutureSource, DispatchedOnce, CurrentIsQuiet, blockState
  <1>3. /\ HandlersFired' /\ HandlersDistinct'
        /\ queue' \in Seq({"signal", "cancel", "timer"} \X (0..MaxSignals))
    <2>1. CASE queue' = queue
      BY <1>1, <2>1 DEF DebounceInv, HandlersFired, HandlersDistinct, blockState, TypeOK
    <2>2. CASE NPScheduleWorkSignal
      <3>1. <<"signal", 0>> \in Items
        BY BoundsAssumption DEF Items
      <3> QED  BY <1>1, <2>2, <3>1, EnqueueKeepsHandlers
                DEF NPScheduleWorkSignal, blockState, Items
    <2>3. CASE NPScheduleWorkCancel
      <3>1. <<"cancel", 0>> \in Items
        BY BoundsAssumption DEF Items
      <3> QED  BY <1>1, <2>3, <3>1, EnqueueKeepsHandlers
                DEF NPScheduleWorkCancel, blockState, Items
    <2> QED  BY <2>1, <2>2, <2>3 DEF NPDispatchScheduleDebounce, NPScheduleWorkFree,
               RunCallback, vars
  <1>4. /\ handle' \in {"none", "live", "null", "freed"}
        /\ issued' \in 0..MaxSignals /\ cancels' \in 0..MaxCancels
    BY BoundsAssumption, SMTT(60) DEF DebounceInv, TypeOK, NPDispatchScheduleDebounce,
      makeScheduleWork, NPScheduleWorkSignal, NPScheduleWorkCancel,
      NPScheduleWorkFree, RunCallback, vars
  <1>5. cancelledIn' \in [Generations -> Stages]
    <2>1. CASE NPScheduleWorkCancel
      <3>1. \A g \in Generations : Stage(g) \in Stages
        BY DEF Stage, Stages, DebounceInv, TypeOK, SourceStates
      <3> QED  BY <2>1, <3>1 DEF DebounceInv, TypeOK, NPScheduleWorkCancel
    <2> QED  BY <2>1 DEF DebounceInv, TypeOK, NPDispatchScheduleDebounce,
               NPScheduleWorkSignal, NPScheduleWorkFree, RunCallback, vars
  <1>6. ran' \in [Generations -> Nat]
    BY DEF DebounceInv, TypeOK, NPDispatchScheduleDebounce, NPScheduleWorkSignal,
      NPScheduleWorkCancel, NPScheduleWorkFree, RunCallback, vars
  <1>7. TypeOK'
    BY <1>1, <1>3, <1>4, <1>5, <1>6 DEF DebounceInv, TypeOK, blockState
  <1> QED  BY <1>1, <1>2, <1>3, <1>7 DEF DebounceInv, blockState

\* A signal block starts the next generation with a fresh timer.
LEMMA SignalKeepsInv ==
  ASSUME DebounceInv, onSignal
  PROVE  DebounceInv' /\ dispatched' = dispatched
  <1> DEFINE n == generation + 1
  <1>0. /\ generation \in 0..MaxSignals /\ n \in Generations
    BY BoundsAssumption DEF DebounceInv, TypeOK, onSignal, Generations
  <1>1. /\ queue # <<>> /\ queue' = Tail(queue) /\ n \in Generations
        /\ generation \in 0..MaxSignals /\ generation' = n
        /\ source \in [Generations -> SourceStates] /\ source[n] = "none"
        /\ source' = [source EXCEPT ![n] = "armed"]
        /\ left \in [Generations -> 0..Delay]
        /\ left' = [left EXCEPT ![n] = Delay]
        /\ quiet' = 0 /\ dispatched' = dispatched
    BY <1>0 DEF DebounceInv, TypeOK, onSignal, NoFutureSource
  <1> HIDE DEF n
  <1>2. HandlersDistinct' /\ HandlersFired'
    <2>1. /\ HandlersDistinct'
          /\ \A i \in 1..Len(queue') : queue'[i][1] = "timer" =>
               queue'[i][2] \in Generations /\ source[queue'[i][2]] = "fired"
      BY <1>1, DequeueKeepsHandlers
    <2>2. \A g \in Generations : source[g] = "fired" => source'[g] = "fired"
      BY <1>1
    <2> QED  BY <2>1, <2>2 DEF HandlersFired
  <1>3. NoFutureSource'
    BY <1>1 DEF DebounceInv, NoFutureSource, Generations, n
  <1>4. DispatchedOnce'
    BY <1>1 DEF DebounceInv, DispatchedOnce, SourceStates
  <1>5. CurrentIsQuiet'
    BY <1>1, DelayAssumption DEF CurrentIsQuiet
  <1>6. TypeOK'
    <2>1. queue \in Seq(Items)
      BY DEF DebounceInv, TypeOK, Items
    <2>2. queue' \in Seq({"signal", "cancel", "timer"} \X (0..MaxSignals))
      BY <1>1, <2>1, Dequeued DEF Items
    <2>3. source' \in [Generations -> SourceStates] /\ left' \in [Generations -> 0..Delay]
      BY <1>1, DelayAssumption DEF SourceStates
    <2>4. generation' \in 0..MaxSignals /\ quiet' \in 0..Delay
      BY <1>1, DelayAssumption DEF Generations
    <2> QED  BY <2>2, <2>3, <2>4 DEF DebounceInv, TypeOK, onSignal
  <1> QED  BY <1>1, <1>2, <1>3, <1>4, <1>5, <1>6 DEF DebounceInv

\* A cancel block only sets the flag.
LEMMA CancelKeepsInv ==
  ASSUME DebounceInv, onCancel
  PROVE  DebounceInv' /\ dispatched' = dispatched
  <1>1. /\ queue # <<>> /\ queue' = Tail(queue)
        /\ UNCHANGED <<generation, source, left, dispatched, quiet>>
    BY DEF onCancel
  <1>2. HandlersDistinct' /\ HandlersFired'
    BY <1>1, DequeueKeepsHandlers DEF HandlersFired
  <1>3. NoFutureSource' /\ DispatchedOnce' /\ CurrentIsQuiet'
    BY <1>1 DEF DebounceInv, NoFutureSource, DispatchedOnce, CurrentIsQuiet
  <1>4. TypeOK'
    <2>1. queue \in Seq(Items)
      BY DEF DebounceInv, TypeOK, Items
    <2>2. queue' \in Seq({"signal", "cancel", "timer"} \X (0..MaxSignals))
      BY <1>1, <2>1, Dequeued DEF Items
    <2> QED  BY <2>2 DEF DebounceInv, TypeOK, onCancel
  <1> QED  BY <1>1, <1>2, <1>3, <1>4 DEF DebounceInv

\* A timer's handler cancels its source and dispatches at most once, after the
\* quiet period.
LEMMA TimerKeepsInv ==
  ASSUME DebounceInv, onTimer
  PROVE  DebounceInv' /\ (dispatched' # dispatched => quiet = Delay)
  <1> DEFINE g == Head(queue)[2]
  <1>0. queue \in Seq(Items) /\ queue # <<>> /\ queue' = Tail(queue)
    BY DEF DebounceInv, TypeOK, Items, onTimer
  <1>1. /\ g \in Generations /\ source[g] = "fired"
        /\ Head(queue) = <<"timer", g>>
    <2>1. Head(queue) = queue[1] /\ 1 \in 1..Len(queue) /\ Head(queue) \in Items
      BY <1>0, Dequeued
    <2>2. Head(queue)[1] = "timer"
      BY DEF onTimer
    <2> QED  BY <2>1, <2>2 DEF DebounceInv, HandlersFired, Items
  <1>2. /\ source' = [source EXCEPT ![g] = "cancelled"]
        /\ dispatched' = dispatched
           \/ (g = generation /\ dispatched' = [dispatched EXCEPT ![g] = @ + 1])
        /\ source \in [Generations -> SourceStates]
        /\ dispatched \in [Generations -> Nat]
        /\ UNCHANGED <<generation, left, quiet>>
    BY DEF onTimer, MayDispatch, DebounceInv, TypeOK
  <1>3. dispatched' # dispatched => quiet = Delay
    <2>1. generation \in 0..MaxSignals
      BY DEF DebounceInv, TypeOK
    <2> QED  BY <1>1, <1>2, <2>1 DEF DebounceInv, CurrentIsQuiet, Generations
  <1> HIDE DEF g
  <1>4. HandlersDistinct' /\ HandlersFired'
    <2>1. /\ HandlersDistinct'
          /\ \A i \in 1..Len(queue') : queue'[i][1] = "timer" =>
               /\ queue'[i][2] \in Generations /\ source[queue'[i][2]] = "fired"
               /\ queue'[i] # Head(queue)
      BY <1>0, DequeueKeepsHandlers
    <2>2. ASSUME NEW i \in 1..Len(queue'), queue'[i][1] = "timer"
          PROVE  queue'[i][2] \in Generations /\ source'[queue'[i][2]] = "fired"
      <3>1. queue' \in Seq(Items)
        BY <1>0, Dequeued
      <3>2. queue'[i] \in Items
        BY <3>1
      <3>3. queue'[i] = <<"timer", queue'[i][2]>>
        BY <2>2, <3>2 DEF Items
      <3>4. queue'[i][2] # g
        BY <1>1, <2>1, <2>2, <3>3
      <3> QED  BY <1>2, <2>1, <2>2, <3>4
    <2> QED  BY <2>1, <2>2 DEF HandlersFired
  <1>5. NoFutureSource'
    BY <1>1, <1>2 DEF DebounceInv, NoFutureSource
  <1>6. DispatchedOnce'
    BY <1>1, <1>2 DEF DebounceInv, DispatchedOnce
  <1>7. CurrentIsQuiet'
    BY <1>1, <1>2 DEF DebounceInv, CurrentIsQuiet
  <1>8. TypeOK'
    <2>1. queue' \in Seq({"signal", "cancel", "timer"} \X (0..MaxSignals))
      BY <1>0, Dequeued DEF Items
    <2>2. source' \in [Generations -> SourceStates] /\ dispatched' \in [Generations -> Nat]
      BY <1>1, <1>2 DEF SourceStates
    <2> QED  BY <2>1, <2>2 DEF DebounceInv, TypeOK, onTimer
  <1> QED  BY <1>3, <1>4, <1>5, <1>6, <1>7, <1>8 DEF DebounceInv

\* A timer whose time is up queues its handler; no other handler is its.
LEMMA FireKeepsInv ==
  ASSUME DebounceInv, NEW g \in Generations, TimerFires(g)
  PROVE  DebounceInv' /\ dispatched' = dispatched
  <1>0. queue \in Seq(Items) /\ <<"timer", g>> \in Items
    BY DEF DebounceInv, TypeOK, Items, Generations
  <1>1. /\ source[g] = "armed" /\ left[g] = 0
        /\ source \in [Generations -> SourceStates]
        /\ source' = [source EXCEPT ![g] = "fired"]
        /\ queue' = Append(queue, <<"timer", g>>)
        /\ UNCHANGED <<generation, left, dispatched, quiet>>
    BY DEF TimerFires, DebounceInv, TypeOK
  <1>2. /\ queue' \in Seq(Items) /\ Len(queue') = Len(queue) + 1 /\ Len(queue) \in Nat
        /\ \A i \in 1..Len(queue) : queue'[i] = queue[i]
        /\ queue'[Len(queue) + 1] = <<"timer", g>>
    BY <1>0, <1>1, Queued
  <1>3. \A i \in 1..Len(queue) : queue[i] # <<"timer", g>>
    BY <1>1 DEF DebounceInv, HandlersFired
  <1>4. HandlersFired'
    <2> SUFFICES ASSUME NEW i \in 1..Len(queue'), queue'[i][1] = "timer"
                 PROVE  queue'[i][2] \in Generations /\ source'[queue'[i][2]] = "fired"
      BY DEF HandlersFired
    <2>1. CASE i \in 1..Len(queue)
      BY <1>1, <1>2, <2>1 DEF DebounceInv, HandlersFired
    <2>2. CASE i = Len(queue) + 1
      BY <1>1, <1>2, <2>2
    <2> QED  BY <1>2, <2>1, <2>2
  <1>5. HandlersDistinct'
    <2> SUFFICES ASSUME NEW i \in 1..Len(queue'), NEW j \in 1..Len(queue'),
                        queue'[i][1] = "timer", queue'[i] = queue'[j]
                 PROVE  i = j
      BY DEF HandlersDistinct
    <2>1. CASE i \in 1..Len(queue) /\ j \in 1..Len(queue)
      BY <1>2, <2>1 DEF DebounceInv, HandlersDistinct
    <2>2. CASE i = Len(queue) + 1 \/ j = Len(queue) + 1
      BY <1>2, <1>3, <2>2
    <2> QED  BY <1>2, <2>1, <2>2
  <1>6. NoFutureSource'
    BY <1>1 DEF DebounceInv, NoFutureSource
  <1>7. DispatchedOnce'
    BY <1>1 DEF DebounceInv, DispatchedOnce
  <1>8. CurrentIsQuiet'
    <2>1. quiet \in 0..Delay /\ generation \in 0..MaxSignals
      BY DEF DebounceInv, TypeOK
    <2> QED  BY <1>1, <2>1, DelayAssumption DEF DebounceInv, CurrentIsQuiet, Generations
  <1>9. TypeOK'
    <2>1. source' \in [Generations -> SourceStates]
      BY <1>1 DEF SourceStates
    <2> QED  BY <1>2, <2>1 DEF DebounceInv, TypeOK, TimerFires, Items
  <1> QED  BY <1>1, <1>4, <1>5, <1>6, <1>7, <1>8, <1>9 DEF DebounceInv

\* A tick takes from the timer what it adds to the quiet period.
LEMMA TickKeepsInv ==
  ASSUME DebounceInv, Tick
  PROVE  DebounceInv' /\ dispatched' = dispatched
  <1>1. UNCHANGED <<handle, queue, generation, canceled, source, dispatched, ran,
                    issued, cancels, cancelledIn>>
    BY DEF Tick
  <1>2. /\ HandlersFired' /\ HandlersDistinct' /\ NoFutureSource' /\ DispatchedOnce'
    BY <1>1 DEF DebounceInv, HandlersFired, HandlersDistinct, NoFutureSource,
      DispatchedOnce
  <1>3. /\ left \in [Generations -> 0..Delay] /\ quiet \in 0..Delay
        /\ left' \in [Generations -> 0..Delay] /\ quiet' \in 0..Delay
    BY DelayAssumption DEF DebounceInv, TypeOK, Tick
  <1>4. CurrentIsQuiet'
    <2>1. generation \in 0..MaxSignals
      BY DEF DebounceInv, TypeOK
    <2> QED  BY <1>1, <1>3, <2>1, DelayAssumption
              DEF DebounceInv, CurrentIsQuiet, Tick, Generations
  <1>5. TypeOK'
    BY <1>1, <1>3 DEF DebounceInv, TypeOK
  <1> QED  BY <1>1, <1>2, <1>4, <1>5 DEF DebounceInv

-----------------------------------------------------------------------------
\* One step of the debounce.
LEMMA StepKeepsInv ==
  ASSUME DebounceInv, [Next]_vars
  PROVE  DebounceInv' /\ (dispatched' # dispatched => quiet = Delay)
  BY ClientKeepsInv, SignalKeepsInv, CancelKeepsInv, TimerKeepsInv, FireKeepsInv,
     TickKeepsInv DEF Next

\* The invariant holds in every reachable state.
LEMMA DebounceInvariant == Spec => []DebounceInv
  <1>1. Init => DebounceInv
    <2> SUFFICES ASSUME Init PROVE DebounceInv
      OBVIOUS
    <2>1. queue \in Seq({"signal", "cancel", "timer"} \X (0..MaxSignals)) /\ Len(queue) = 0
      BY DEF Init
    <2>2. HandlersFired /\ HandlersDistinct
      BY <2>1 DEF HandlersFired, HandlersDistinct
    <2>3. NoFutureSource /\ DispatchedOnce /\ CurrentIsQuiet
      BY DEF Init, NoFutureSource, DispatchedOnce, CurrentIsQuiet
    <2>4. /\ source \in [Generations -> SourceStates]
          /\ left \in [Generations -> 0..Delay]
          /\ cancelledIn \in [Generations -> Stages]
      BY DelayAssumption DEF Init, SourceStates, Stages
    <2>5. dispatched \in [Generations -> Nat] /\ ran \in [Generations -> Nat]
      BY DEF Init
    <2>6. TypeOK
      <3>1. /\ handle = "none" /\ canceled = FALSE /\ generation = 0 /\ issued = 0
            /\ cancels = 0 /\ quiet = 0
        BY DEF Init
      <3>2. handle \in {"none", "live", "null", "freed"} /\ canceled \in BOOLEAN
        BY <3>1
      <3>3. /\ generation \in 0..MaxSignals /\ issued \in 0..MaxSignals
            /\ cancels \in 0..MaxCancels /\ quiet \in 0..Delay
        BY <3>1, DelayAssumption, BoundsAssumption
      <3> QED  BY <2>1, <2>4, <2>5, <3>2, <3>3 DEF TypeOK
    <2> QED  BY <2>2, <2>3, <2>6 DEF DebounceInv
  <1>2. DebounceInv /\ [Next]_vars => DebounceInv'
    BY StepKeepsInv
  <1> QED  BY <1>1, <1>2, PTL DEF Spec

\* Type correctness of the debounce (schedule.m:102-136).
THEOREM DebounceTypeCorrect == Spec => []TypeOK
  <1>1. DebounceInv => TypeOK
    BY DEF DebounceInv
  <1> QED  BY <1>1, DebounceInvariant, PTL

\* The callback is dispatched only after a full delay without a signal
\* (schedule.m:117-125).
THEOREM DebounceQuietPeriod == Spec => QuietPeriod
  <1>1. DebounceInv /\ [Next]_vars => [dispatched' # dispatched => quiet = Delay]_vars
    BY StepKeepsInv
  <1> QED  BY <1>1, DebounceInvariant, PTL DEF Spec, QuietPeriod

-----------------------------------------------------------------------------
(***************************************************************************)
(* A cancel calls a signal off.  The queue is FIFO: the signals in it have  *)
(* the numbers after the current generation, in order, and the cancel that  *)
(* called a signal off stays behind that signal and ahead of the handler of *)
(* its timer until it has run.                                              *)
(***************************************************************************)
Called == {"queued", "armed"}

\* pos[k] is the place of signal k in the queue.
Numbering(pos, gen, iss, q) ==
    /\ pos \in [(gen + 1)..iss -> 1..Len(q)]
    /\ \A k \in (gen + 1)..iss : q[pos[k]][1] = "signal"
    /\ \A k, l \in (gen + 1)..iss : k < l => pos[k] < pos[l]
    /\ \A i \in 1..Len(q) : q[i][1] = "signal" => \E k \in (gen + 1)..iss : pos[k] = i

\* A cancel is queued behind signal g and ahead of the handler of its timer.
CancelAhead(pos, gen, q, g) ==
    \E i \in 1..Len(q) :
      /\ q[i][1] = "cancel"
      /\ g > gen => pos[g] < i
      /\ \A j \in 1..(i - 1) : q[j] # <<"timer", g>>

\* The handler of g has run, or will find another generation or `canceled`.
CalledOff(pos, gen, can, q, src, g) ==
    \/ src = "cancelled"
    \/ gen > g
    \/ gen = g /\ can
    \/ CancelAhead(pos, gen, q, g)

\* No signal that was cancelled in time has led to a callback ...
NeverDispatched ==
    \A g \in Generations : cancelledIn[g] \in Called => g <= issued /\ dispatched[g] = 0

\* ... and none will.
WillBeCalledOff ==
    \E pos \in [(generation + 1)..issued -> 1..Len(queue)] :
      /\ Numbering(pos, generation, issued, queue)
      /\ \A g \in Generations : cancelledIn[g] \in Called =>
           CalledOff(pos, generation, canceled, queue, source[g], g)

CancelInv == generation <= issued /\ NeverDispatched /\ WillBeCalledOff

\* A block leaves the queue; a signal block starts the next generation.
LEMMA NumberingTail ==
  ASSUME NEW q \in Seq(Items), q # <<>>, NEW gen \in Nat, NEW iss \in Nat, gen <= iss,
         NEW pos, Numbering(pos, gen, iss, q),
         NEW n, n = IF Head(q)[1] = "signal" THEN gen + 1 ELSE gen
  PROVE  /\ n <= iss
         /\ Numbering([k \in (n + 1)..iss |-> pos[k] - 1], n, iss, Tail(q))
  <1> DEFINE p == [k \in (n + 1)..iss |-> pos[k] - 1]
  <1>1. /\ Head(q) = q[1] /\ Len(q) \in Nat /\ Len(q) >= 1 /\ Len(Tail(q)) = Len(q) - 1
        /\ \A i \in 1..Len(Tail(q)) : i + 1 \in 1..Len(q) /\ Tail(q)[i] = q[i + 1]
    BY Dequeued
  <1>2. /\ \A k \in (gen + 1)..iss : pos[k] \in 1..Len(q) /\ q[pos[k]][1] = "signal"
        /\ \A k, l \in (gen + 1)..iss : k < l => pos[k] < pos[l]
        /\ \A i \in 1..Len(q) : q[i][1] = "signal" =>
             \E k \in (gen + 1)..iss : pos[k] = i
    BY DEF Numbering
  <1>3. CASE Head(q)[1] = "signal"
    <2>1. n = gen + 1
      BY <1>3
    <2>2. PICK k0 \in (gen + 1)..iss : pos[k0] = 1
      BY <1>1, <1>2, <1>3
    <2>3. gen + 1 \in (gen + 1)..iss
      BY <2>2
    <2>4. k0 = gen + 1
      <3>1. k0 > gen + 1 => pos[gen + 1] < 1
        BY <1>2, <2>2, <2>3
      <3>2. pos[gen + 1] \in 1..Len(q)
        BY <1>2, <2>3
      <3> QED  BY <1>1, <2>2, <3>1, <3>2
    <2>5. \A k \in (n + 1)..iss : k \in (gen + 1)..iss /\ pos[k] > 1
      BY <1>2, <2>1, <2>2, <2>3, <2>4
    <2>6. \A i \in 1..Len(q), k \in (gen + 1)..iss : i > 1 /\ pos[k] = i => k \in (n + 1)..iss
      BY <2>1, <2>2, <2>4
    <2> QED
      <3>1. n <= iss
        BY <2>1, <2>3
      <3>2. \A k \in (n + 1)..iss : /\ p[k] = pos[k] - 1 /\ p[k] \in 1..Len(Tail(q))
                                    /\ Tail(q)[p[k]][1] = "signal"
        BY <1>1, <1>2, <2>5
      <3>3. \A k, l \in (n + 1)..iss : k < l => p[k] < p[l]
        BY <1>1, <1>2, <2>5, <3>2
      <3>4. ASSUME NEW i \in 1..Len(Tail(q)), Tail(q)[i][1] = "signal"
            PROVE  \E k \in (n + 1)..iss : p[k] = i
        <4>1. i + 1 \in 1..Len(q) /\ q[i + 1][1] = "signal" /\ i + 1 > 1
          BY <1>1, <3>4
        <4>2. PICK k \in (gen + 1)..iss : pos[k] = i + 1
          BY <1>2, <4>1
        <4>3. k \in (n + 1)..iss
          BY <2>6, <4>1, <4>2
        <4> QED  BY <3>2, <4>2, <4>3
      <3>5. p \in [(n + 1)..iss -> 1..Len(Tail(q))]
        BY <3>2
      <3> HIDE DEF p
      <3>6. Numbering(p, n, iss, Tail(q))
        BY <3>2, <3>3, <3>4, <3>5 DEF Numbering
      <3> QED  BY <3>1, <3>6 DEF p
  <1>4. CASE Head(q)[1] # "signal"
    <2>1. n = gen
      BY <1>4
    <2>2. \A k \in (n + 1)..iss : pos[k] > 1 /\ pos[k] \in 1..Len(q)
      BY <1>1, <1>2, <1>4, <2>1
    <2>3. \A k \in (n + 1)..iss : /\ p[k] = pos[k] - 1 /\ p[k] \in 1..Len(Tail(q))
                                  /\ Tail(q)[p[k]][1] = "signal"
      BY <1>1, <1>2, <2>1, <2>2
    <2>4. \A k, l \in (n + 1)..iss : k < l => p[k] < p[l]
      BY <1>1, <1>2, <2>1, <2>2, <2>3
    <2>5. ASSUME NEW i \in 1..Len(Tail(q)), Tail(q)[i][1] = "signal"
          PROVE  \E k \in (n + 1)..iss : p[k] = i
      <3>1. i + 1 \in 1..Len(q) /\ q[i + 1][1] = "signal"
        BY <1>1, <2>5
      <3>2. PICK k \in (n + 1)..iss : pos[k] = i + 1
        BY <1>2, <2>1, <3>1
      <3>3. p[k] = i
        BY <2>3, <3>2
      <3> QED  BY <3>3
    <2>6. p \in [(n + 1)..iss -> 1..Len(Tail(q))]
      BY <2>3
    <2> HIDE DEF p
    <2>7. Numbering(p, n, iss, Tail(q))
      BY <2>3, <2>4, <2>5, <2>6 DEF Numbering
    <2> QED  BY <2>1, <2>7 DEF p
  <1> QED  BY <1>3, <1>4

\* The cancel that is ahead moves up with the queue, until it is the block that
\* runs: then signal g has its generation.
LEMMA AheadTail ==
  ASSUME NEW q \in Seq(Items), q # <<>>, NEW gen \in Nat, NEW iss \in Nat,
         NEW pos, Numbering(pos, gen, iss, q),
         NEW n, n = IF Head(q)[1] = "signal" THEN gen + 1 ELSE gen,
         NEW g \in 1..iss, CancelAhead(pos, gen, q, g)
  PROVE  /\ Head(q) # <<"timer", g>>
         /\ \/ Head(q)[1] = "cancel" /\ gen >= g
            \/ CancelAhead([k \in (n + 1)..iss |-> pos[k] - 1], n, Tail(q), g)
  <1> DEFINE p == [k \in (n + 1)..iss |-> pos[k] - 1]
  <1>1. /\ Head(q) = q[1] /\ Len(q) \in Nat /\ Len(q) >= 1 /\ Len(Tail(q)) = Len(q) - 1
        /\ \A i \in 1..Len(Tail(q)) : i + 1 \in 1..Len(q) /\ Tail(q)[i] = q[i + 1]
    BY Dequeued
  <1>2. \A k \in (gen + 1)..iss : pos[k] \in 1..Len(q)
    BY DEF Numbering
  <1>3. PICK i \in 1..Len(q) : /\ q[i][1] = "cancel"
                               /\ g > gen => pos[g] < i
                               /\ \A j \in 1..(i - 1) : q[j] # <<"timer", g>>
    BY DEF CancelAhead
  <1>4. CASE i = 1
    <2>1. ~(g > gen)
      BY <1>1, <1>2, <1>3, <1>4
    <2>2. Head(q)[1] = "cancel" /\ Head(q) # <<"timer", g>>
      BY <1>1, <1>3, <1>4
    <2> QED  BY <2>1, <2>2
  <1>5. CASE i > 1
    <2>1. Head(q) # <<"timer", g>>
      BY <1>1, <1>3, <1>5
    <2>2. i - 1 \in 1..Len(Tail(q)) /\ Tail(q)[i - 1][1] = "cancel"
      BY <1>1, <1>3, <1>5
    <2>3. g > n => p[g] < i - 1
      <3> SUFFICES ASSUME g > n PROVE p[g] < i - 1
        OBVIOUS
      <3>1. n \in Nat /\ g > gen /\ g \in (n + 1)..iss /\ g \in (gen + 1)..iss
        OBVIOUS
      <3>2. p[g] = pos[g] - 1
        BY <3>1
      <3> QED  BY <1>1, <1>2, <1>3, <3>1, <3>2
    <2>4. \A j \in 1..(i - 1 - 1) : Tail(q)[j] # <<"timer", g>>
      BY <1>1, <1>3
    <2> HIDE DEF p
    <2>5. CancelAhead(p, n, Tail(q), g)
      BY <2>2, <2>3, <2>4 DEF CancelAhead
    <2> QED  BY <2>1, <2>5 DEF p
  <1> QED  BY <1>4, <1>5

\* Something is queued; a signal gets the next number.
LEMMA NumberingAppend ==
  ASSUME NEW q \in Seq(Items), NEW e \in Items, NEW gen \in Nat, NEW iss \in Nat,
         gen <= iss, NEW pos, Numbering(pos, gen, iss, q),
         NEW n, n = IF e[1] = "signal" THEN iss + 1 ELSE iss
  PROVE  Numbering([k \in (gen + 1)..n |-> IF k = iss + 1 THEN Len(q) + 1 ELSE pos[k]],
                   gen, n, Append(q, e))
  <1> DEFINE p == [k \in (gen + 1)..n |-> IF k = iss + 1 THEN Len(q) + 1 ELSE pos[k]]
             r == Append(q, e)
  <1>1. /\ r \in Seq(Items) /\ Len(r) = Len(q) + 1 /\ Len(q) \in Nat
        /\ \A i \in 1..Len(q) : r[i] = q[i]
        /\ r[Len(q) + 1] = e
    BY Queued
  <1>2. /\ \A k \in (gen + 1)..iss : pos[k] \in 1..Len(q) /\ q[pos[k]][1] = "signal"
        /\ \A k, l \in (gen + 1)..iss : k < l => pos[k] < pos[l]
        /\ \A i \in 1..Len(q) : q[i][1] = "signal" =>
             \E k \in (gen + 1)..iss : pos[k] = i
    BY DEF Numbering
  <1>3. /\ \A k \in (gen + 1)..iss : k \in (gen + 1)..n /\ p[k] = pos[k]
        /\ \A k \in (gen + 1)..n : k \notin (gen + 1)..iss =>
             k = iss + 1 /\ p[k] = Len(q) + 1 /\ e[1] = "signal"
        /\ e[1] = "signal" => iss + 1 \in (gen + 1)..n /\ p[iss + 1] = Len(q) + 1
    OBVIOUS
  <1>4. p = [k \in (gen + 1)..n |-> p[k]]
    OBVIOUS
  <1> HIDE DEF p, r
  <1>5. \A k \in (gen + 1)..n : p[k] \in 1..Len(r) /\ r[p[k]][1] = "signal"
    <2> SUFFICES ASSUME NEW k \in (gen + 1)..n
                 PROVE  p[k] \in 1..Len(r) /\ r[p[k]][1] = "signal"
      OBVIOUS
    <2>1. CASE k \in (gen + 1)..iss
      BY <1>1, <1>2, <1>3, <2>1
    <2>2. CASE k \notin (gen + 1)..iss
      BY <1>1, <1>3, <2>2
    <2> QED  BY <2>1, <2>2
  <1>6. \A k, l \in (gen + 1)..n : k < l => p[k] < p[l]
    <2> SUFFICES ASSUME NEW k \in (gen + 1)..n, NEW l \in (gen + 1)..n, k < l
                 PROVE  p[k] < p[l]
      OBVIOUS
    <2>1. k \in (gen + 1)..iss
      BY <1>3
    <2>2. p[k] = pos[k] /\ pos[k] \in 1..Len(q)
      BY <1>2, <1>3, <2>1
    <2>3. CASE l \in (gen + 1)..iss
      BY <1>2, <1>3, <2>1, <2>3
    <2>4. CASE l \notin (gen + 1)..iss
      BY <1>1, <1>3, <2>2, <2>4
    <2> QED  BY <2>3, <2>4
  <1>7. \A i \in 1..Len(r) : r[i][1] = "signal" => \E k \in (gen + 1)..n : p[k] = i
    <2> SUFFICES ASSUME NEW i \in 1..Len(r), r[i][1] = "signal"
                 PROVE  \E k \in (gen + 1)..n : p[k] = i
      OBVIOUS
    <2>1. CASE i \in 1..Len(q)
      <3>1. PICK k \in (gen + 1)..iss : pos[k] = i
        BY <1>1, <1>2, <2>1
      <3> QED  BY <1>3, <3>1
    <2>2. CASE i \notin 1..Len(q)
      <3>1. i = Len(q) + 1 /\ e[1] = "signal"
        BY <1>1, <2>2
      <3> QED  BY <1>3, <3>1
    <2> QED  BY <2>1, <2>2
  <1>8. p \in [(gen + 1)..n -> 1..Len(r)]
    BY <1>4, <1>5
  <1>9. Numbering(p, gen, n, r)
    BY <1>5, <1>6, <1>7, <1>8 DEF Numbering
  <1> QED  BY <1>9 DEF p, r

\* The cancel that is ahead stays ahead of what is queued later.
LEMMA AheadAppend ==
  ASSUME NEW q \in Seq(Items), NEW e \in Items, NEW gen \in Nat, NEW iss \in Nat,
         NEW pos, NEW n, n = IF e[1] = "signal" THEN iss + 1 ELSE iss,
         NEW g \in 1..iss, CancelAhead(pos, gen, q, g)
  PROVE  CancelAhead([k \in (gen + 1)..n |-> IF k = iss + 1 THEN Len(q) + 1 ELSE pos[k]],
                     gen, Append(q, e), g)
  <1> DEFINE p == [k \in (gen + 1)..n |-> IF k = iss + 1 THEN Len(q) + 1 ELSE pos[k]]
             r == Append(q, e)
  <1>1. /\ Len(r) = Len(q) + 1 /\ Len(q) \in Nat
        /\ \A i \in 1..Len(q) : r[i] = q[i]
    BY Queued
  <1>2. g > gen => p[g] = pos[g]
    OBVIOUS
  <1>3. PICK i \in 1..Len(q) : /\ q[i][1] = "cancel"
                               /\ g > gen => pos[g] < i
                               /\ \A j \in 1..(i - 1) : q[j] # <<"timer", g>>
    BY DEF CancelAhead
  <1> HIDE DEF p, r
  <1>4. i \in 1..Len(r) /\ r[i][1] = "cancel"
    BY <1>1, <1>3
  <1>5. g > gen => p[g] < i
    BY <1>2, <1>3
  <1>6. \A j \in 1..(i - 1) : r[j] # <<"timer", g>>
    BY <1>1, <1>3
  <1>7. CancelAhead(p, gen, r, g)
    BY <1>4, <1>5, <1>6 DEF CancelAhead
  <1> QED  BY <1>7 DEF p, r

\* Any block of the private queue: it keeps the signals that were called off,
\* called off.
LEMMA BlockKeepsCalledOff ==
  ASSUME DebounceInv, CancelInv, queue # <<>>, queue' = Tail(queue),
         generation' = (IF Head(queue)[1] = "signal" THEN generation + 1 ELSE generation),
         UNCHANGED <<issued, cancelledIn>>,
         Head(queue)[1] = "cancel" => canceled',
         Head(queue)[1] = "timer" => canceled' = canceled,
         \A g \in Generations : source[g] = "cancelled" => source'[g] = "cancelled"
  PROVE  generation' <= issued /\ WillBeCalledOff'
  <1>1. /\ queue \in Seq(Items) /\ generation \in Nat /\ issued \in Nat
        /\ generation <= issued
        /\ Head(queue)[1] \in {"signal", "cancel", "timer"}
    <2>1. queue \in Seq(Items) /\ generation \in Nat /\ issued \in Nat
      BY BoundsAssumption DEF DebounceInv, TypeOK, Items
    <2>2. Head(queue) \in Items
      BY <2>1, Dequeued
    <2> QED  BY <2>1, <2>2 DEF CancelInv, Items
  <1>2. PICK pos \in [(generation + 1)..issued -> 1..Len(queue)] :
          /\ Numbering(pos, generation, issued, queue)
          /\ \A g \in Generations : cancelledIn[g] \in Called =>
               CalledOff(pos, generation, canceled, queue, source[g], g)
    BY DEF CancelInv, WillBeCalledOff
  <1> DEFINE p == [k \in (generation' + 1)..issued |-> pos[k] - 1]
  <1>3. generation' <= issued /\ Numbering(p, generation', issued, queue')
    BY <1>1, <1>2, NumberingTail
  <1>4. ASSUME NEW g \in Generations, cancelledIn[g] \in Called,
               CancelAhead(pos, generation, queue, g)
        PROVE  \/ Head(queue)[1] = "cancel" /\ generation >= g
               \/ CancelAhead(p, generation', queue', g)
    <2>1. g \in 1..issued
      BY <1>1, <1>4 DEF CancelInv, NeverDispatched, Generations
    <2> QED  BY <1>1, <1>2, <1>4, <2>1, AheadTail
  <1> HIDE DEF p
  <1>5. ASSUME NEW g \in Generations, cancelledIn[g] \in Called
        PROVE  CalledOff(p, generation', canceled', queue', source'[g], g)
    <2>0. CalledOff(pos, generation, canceled, queue, source[g], g)
      BY <1>2, <1>5
    <2>1. CASE source[g] = "cancelled"
      BY <2>1 DEF CalledOff
    <2>2. CASE generation > g
      BY <1>1, <2>2 DEF CalledOff, Generations
    <2>3. CASE generation = g /\ canceled
      <3>1. CASE Head(queue)[1] = "signal"
        <4>1. generation' > g
          BY <1>1, <2>3, <3>1
        <4> QED  BY <4>1 DEF CalledOff
      <3>2. CASE Head(queue)[1] # "signal"
        <4>1. generation' = g /\ canceled'
          BY <1>1, <2>3, <3>2
        <4> QED  BY <4>1 DEF CalledOff
      <3> QED  BY <3>1, <3>2
    <2>4. CASE CancelAhead(pos, generation, queue, g)
      <3>1. CASE Head(queue)[1] = "cancel" /\ generation >= g
        <4>1. generation' = generation /\ canceled'
          BY <3>1
        <4>2. generation' > g \/ generation' = g
          BY <1>1, <3>1, <4>1 DEF Generations
        <4> QED  BY <4>1, <4>2 DEF CalledOff
      <3>2. CASE CancelAhead(p, generation', queue', g)
        BY <3>2 DEF CalledOff
      <3> QED  BY <1>4, <1>5, <2>4, <3>1, <3>2
    <2> QED  BY <2>0, <2>1, <2>2, <2>3, <2>4 DEF CalledOff
  <1>6. p \in [(generation' + 1)..issued -> 1..Len(queue')]
    BY <1>3 DEF Numbering
  <1> QED  BY <1>3, <1>5, <1>6 DEF WillBeCalledOff

\* The handler of a timer does not dispatch a signal that was called off.
LEMMA HandlerObeysCancel ==
  ASSUME DebounceInv, CancelInv, queue # <<>>, Head(queue)[1] = "timer",
         cancelledIn[Head(queue)[2]] \in Called
  PROVE  ~MayDispatch(Head(queue)[2])
  <1> DEFINE g == Head(queue)[2]
  <1>1. queue \in Seq(Items) /\ generation \in Nat /\ issued \in Nat
    BY BoundsAssumption DEF DebounceInv, TypeOK, Items
  <1>2. Head(queue) = queue[1] /\ 1 \in 1..Len(queue) /\ Head(queue) \in Items
    BY <1>1, Dequeued
  <1>3. g \in Generations /\ source[g] = "fired" /\ Head(queue) = <<"timer", g>>
    BY <1>2 DEF DebounceInv, HandlersFired, Items
  <1>4. PICK pos \in [(generation + 1)..issued -> 1..Len(queue)] :
          /\ Numbering(pos, generation, issued, queue)
          /\ CalledOff(pos, generation, canceled, queue, source[g], g)
    BY <1>3 DEF CancelInv, WillBeCalledOff
  <1>5. g \in 1..issued
    BY <1>1, <1>3 DEF CancelInv, NeverDispatched, Generations
  <1> HIDE DEF g
  <1>6. ~CancelAhead(pos, generation, queue, g)
    BY <1>1, <1>3, <1>4, <1>5, AheadTail
  <1>7. generation > g \/ (generation = g /\ canceled)
    <2>1. source[g] # "cancelled"
      BY <1>3
    <2> QED  BY <1>4, <1>6, <2>1, Zenon DEF CalledOff, g
  <1>8. ~(~canceled /\ g = generation)
    BY <1>1, <1>5, <1>7
  <1> QED  BY <1>8 DEF MayDispatch, g

\* Whatever is queued, by a call of the client or by a timer.
LEMMA QueuedKeepsCalledOff ==
  ASSUME DebounceInv, CancelInv, NEW e \in Items, queue' = Append(queue, e),
         issued' = (IF e[1] = "signal" THEN issued + 1 ELSE issued),
         UNCHANGED <<generation, canceled>>,
         \A g \in Generations : source[g] = "cancelled" => source'[g] = "cancelled",
         \A g \in Generations : cancelledIn'[g] \in Called =>
           \/ cancelledIn[g] \in Called
           \/ /\ e[1] = "cancel" /\ g <= issued
              /\ source[g] # "fired"
  PROVE  generation' <= issued' /\ WillBeCalledOff'
  <1>1. /\ queue \in Seq(Items) /\ generation \in Nat /\ issued \in Nat
        /\ generation <= issued
    BY BoundsAssumption DEF DebounceInv, TypeOK, Items, CancelInv
  <1>2. PICK pos \in [(generation + 1)..issued -> 1..Len(queue)] :
          /\ Numbering(pos, generation, issued, queue)
          /\ \A g \in Generations : cancelledIn[g] \in Called =>
               CalledOff(pos, generation, canceled, queue, source[g], g)
    BY DEF CancelInv, WillBeCalledOff
  <1> DEFINE p == [k \in (generation + 1)..issued' |->
                     IF k = issued + 1 THEN Len(queue) + 1 ELSE pos[k]]
  <1>3. Numbering(p, generation, issued', queue')
    BY <1>1, <1>2, NumberingAppend
  <1>4. ASSUME NEW g \in Generations, cancelledIn[g] \in Called,
               CancelAhead(pos, generation, queue, g)
        PROVE  CancelAhead(p, generation, queue', g)
    <2>1. g \in 1..issued
      BY <1>1, <1>4 DEF CancelInv, NeverDispatched, Generations
    <2> QED  BY <1>1, <1>2, <1>4, <2>1, AheadAppend
  <1>5. ASSUME NEW g \in Generations, e[1] = "cancel", g <= issued, source[g] # "fired"
        PROVE  CancelAhead(p, generation, queue', g)
    <2>1. /\ Len(queue') = Len(queue) + 1 /\ Len(queue) \in Nat
          /\ \A i \in 1..Len(queue) : queue'[i] = queue[i]
          /\ queue'[Len(queue) + 1] = e
      BY <1>1, Queued
    <2>2. issued' = issued
      BY <1>5
    <2>3. ASSUME g > generation PROVE p[g] < Len(queue) + 1
      <3>1. g \in (generation + 1)..issued /\ g # issued + 1
        BY <1>1, <1>5, <2>3 DEF Generations
      <3>2. p[g] = pos[g] /\ pos[g] \in 1..Len(queue)
        BY <1>2, <2>2, <3>1
      <3> QED  BY <2>1, <3>2
    <2>4. ASSUME NEW j \in 1..(Len(queue) + 1 - 1) PROVE queue'[j] # <<"timer", g>>
      <3>1. j \in 1..Len(queue) /\ queue'[j] = queue[j]
        BY <2>1
      <3> QED  BY <1>5, <3>1 DEF DebounceInv, HandlersFired
    <2>5. Len(queue) + 1 \in 1..Len(queue')
      BY <2>1
    <2>6. queue'[Len(queue) + 1][1] = "cancel"
      BY <1>5, <2>1
    <2> HIDE DEF p
    <2>7. \E i \in 1..Len(queue') :
            /\ queue'[i][1] = "cancel"
            /\ g > generation => p[g] < i
            /\ \A j \in 1..(i - 1) : queue'[j] # <<"timer", g>>
      <3> WITNESS Len(queue) + 1 \in 1..Len(queue')
      <3> QED  BY <2>3, <2>4, <2>6
    <2> QED  BY <2>7 DEF CancelAhead
  <1> HIDE DEF p
  <1>6. ASSUME NEW g \in Generations, cancelledIn'[g] \in Called
        PROVE  CalledOff(p, generation, canceled, queue', source'[g], g)
    <2>1. CASE cancelledIn[g] \in Called
      <3>1. CalledOff(pos, generation, canceled, queue, source[g], g)
        BY <1>2, <2>1
      <3> QED  BY <1>4, <2>1, <3>1 DEF CalledOff
    <2>2. CASE e[1] = "cancel" /\ g <= issued /\ source[g] # "fired"
      BY <1>5, <2>2 DEF CalledOff
    <2> QED  BY <1>6, <2>1, <2>2
  <1>7. p \in [(generation + 1)..issued' -> 1..Len(queue')]
    BY <1>3 DEF Numbering
  <1>8. generation' <= issued'
    BY <1>1
  <1> QED  BY <1>3, <1>6, <1>7, <1>8 DEF WillBeCalledOff

\* What neither the queue nor the schedule notices.
LEMMA OtherKeepsCalledOff ==
  ASSUME CancelInv, UNCHANGED <<queue, generation, canceled, source, issued, cancelledIn>>
  PROVE  generation' <= issued' /\ WillBeCalledOff'
  BY DEF CancelInv, WillBeCalledOff

\* One step keeps the signals that were called off, called off.
LEMMA StepKeepsCancelInv ==
  ASSUME DebounceInv, CancelInv, [Next]_vars
  PROVE  CancelInv'
  <1>0. /\ source \in [Generations -> SourceStates] /\ dispatched \in [Generations -> Nat]
        /\ generation \in 0..MaxSignals /\ issued \in 0..MaxSignals
        /\ cancelledIn \in [Generations -> Stages] /\ ran \in [Generations -> Nat]
    BY DEF DebounceInv, TypeOK
  <1>1. CASE NPDispatchScheduleDebounce \/ NPScheduleWorkFree \/ Tick \/ UNCHANGED vars
             \/ \E g \in Generations : RunCallback(g)
    <2>1. UNCHANGED <<queue, generation, canceled, source, issued, cancelledIn, dispatched>>
      BY <1>1 DEF NPDispatchScheduleDebounce, NPScheduleWorkFree, Tick, vars, RunCallback,
        blockState
    <2>2. NeverDispatched'
      BY <2>1 DEF CancelInv, NeverDispatched
    <2> QED  BY <2>1, <2>2, OtherKeepsCalledOff DEF CancelInv
  <1>2. CASE NPScheduleWorkSignal
    <2>1. <<"signal", 0>> \in Items
      BY BoundsAssumption DEF Items
    <2>2. /\ queue' = Append(queue, <<"signal", 0>>) /\ issued' = issued + 1
          /\ UNCHANGED <<generation, canceled, source, cancelledIn, dispatched>>
      BY <1>2 DEF NPScheduleWorkSignal, blockState
    <2>3. generation' <= issued' /\ WillBeCalledOff'
      BY <2>1, <2>2, QueuedKeepsCalledOff
    <2>4. NeverDispatched'
      BY <1>0, <2>2 DEF CancelInv, NeverDispatched, Generations
    <2> QED  BY <2>3, <2>4 DEF CancelInv
  <1>3. CASE NPScheduleWorkCancel
    <2>1. <<"cancel", 0>> \in Items
      BY BoundsAssumption DEF Items
    <2>2. /\ queue' = Append(queue, <<"cancel", 0>>)
          /\ UNCHANGED <<generation, canceled, source, issued, dispatched>>
          /\ \A g \in Generations : cancelledIn'[g] = IF cancelledIn[g] = "unsent"
                                                      THEN Stage(g) ELSE cancelledIn[g]
      BY <1>3 DEF NPScheduleWorkCancel, blockState
    <2>3. ASSUME NEW g \in Generations, Stage(g) \in Called
          PROVE  g <= issued /\ source[g] \in {"none", "armed"}
      <3>1. ~(g > issued)
        BY <2>3 DEF Stage, Called
      <3>2. source[g] \in {"none", "armed"}
        BY <1>0, <2>3 DEF Stage, Called, SourceStates
      <3> QED  BY <1>0, <3>1, <3>2 DEF Generations
    <2>4. ASSUME NEW g \in Generations, cancelledIn'[g] \in Called
          PROVE  \/ cancelledIn[g] \in Called
                 \/ g <= issued /\ source[g] \in {"none", "armed"}
      BY <2>2, <2>3, <2>4
    <2>5. generation' <= issued' /\ WillBeCalledOff'
      BY <2>1, <2>2, <2>4, QueuedKeepsCalledOff
    <2>6. NeverDispatched'
      BY <1>0, <2>2, <2>4 DEF CancelInv, NeverDispatched, DebounceInv, DispatchedOnce
    <2> QED  BY <2>5, <2>6 DEF CancelInv
  <1>4. CASE onSignal
    <2>1. /\ queue # <<>> /\ queue' = Tail(queue) /\ Head(queue)[1] = "signal"
          /\ generation' = generation + 1 /\ generation + 1 \in Generations
          /\ source' = [source EXCEPT ![generation + 1] = "armed"]
          /\ UNCHANGED <<issued, cancelledIn, dispatched>>
      BY <1>0, <1>4, BoundsAssumption DEF onSignal, Generations
    <2>2. source[generation + 1] = "none"
      BY <1>0, <2>1 DEF DebounceInv, NoFutureSource
    <2>3. generation' <= issued /\ WillBeCalledOff'
      BY <1>0, <2>1, <2>2, BlockKeepsCalledOff
    <2>4. NeverDispatched'
      BY <2>1 DEF CancelInv, NeverDispatched
    <2> QED  BY <2>1, <2>3, <2>4 DEF CancelInv
  <1>5. CASE onCancel
    <2>1. /\ queue # <<>> /\ queue' = Tail(queue) /\ Head(queue)[1] = "cancel" /\ canceled'
          /\ UNCHANGED <<generation, issued, cancelledIn, dispatched, source>>
      BY <1>5 DEF onCancel
    <2>2. generation' <= issued /\ WillBeCalledOff'
      BY <2>1, BlockKeepsCalledOff
    <2>3. NeverDispatched'
      BY <2>1 DEF CancelInv, NeverDispatched
    <2> QED  BY <2>1, <2>2, <2>3 DEF CancelInv
  <1>6. CASE onTimer
    <2>1. /\ queue # <<>> /\ queue' = Tail(queue) /\ Head(queue)[1] = "timer"
          /\ source' = [source EXCEPT ![Head(queue)[2]] = "cancelled"]
          /\ UNCHANGED <<generation, canceled, issued, cancelledIn>>
      BY <1>6 DEF onTimer
    <2>2. generation' <= issued /\ WillBeCalledOff'
      BY <1>0, <2>1, BlockKeepsCalledOff
    <2>3. \A g \in Generations : cancelledIn[g] \in Called => dispatched'[g] = dispatched[g]
      BY <1>0, <1>6, HandlerObeysCancel DEF onTimer
    <2>4. NeverDispatched'
      BY <2>1, <2>3 DEF CancelInv, NeverDispatched
    <2> QED  BY <2>1, <2>2, <2>4 DEF CancelInv
  <1>7. ASSUME NEW g \in Generations, TimerFires(g) PROVE CancelInv'
    <2>1. <<"timer", g>> \in Items
      BY DEF Items, Generations
    <2>2. /\ queue' = Append(queue, <<"timer", g>>) /\ source[g] = "armed"
          /\ source' = [source EXCEPT ![g] = "fired"]
          /\ UNCHANGED <<generation, canceled, issued, cancelledIn, dispatched>>
      BY <1>7 DEF TimerFires
    <2>3. generation' <= issued' /\ WillBeCalledOff'
      BY <1>0, <2>1, <2>2, QueuedKeepsCalledOff
    <2>4. NeverDispatched'
      BY <2>2 DEF CancelInv, NeverDispatched
    <2> QED  BY <2>3, <2>4 DEF CancelInv
  <1> QED  BY <1>1, <1>2, <1>3, <1>4, <1>5, <1>6, <1>7 DEF Next

\* A cancel called before a signal's timer has fired calls it off for good: no
\* interleaving of later signals, cancels and handlers leads to its callback
\* (schedule.m:108-109, 122, 128-130).
THEOREM DebounceCancelCallsOff == Spec => []CancelCallsOff
  <1>1. Init => CancelInv
    <2> SUFFICES ASSUME Init PROVE CancelInv
      OBVIOUS
    <2>1. /\ generation = 0 /\ issued = 0 /\ queue = <<>>
          /\ \A g \in Generations : cancelledIn[g] \notin Called
      BY DEF Init, Called
    <2>2. (generation + 1)..issued = {}
      BY <2>1
    <2>3. [k \in (generation + 1)..issued |-> 0] \in [(generation + 1)..issued -> 1..Len(queue)]
      BY <2>2
    <2>4. Len(queue) = 0
      BY <2>1
    <2>5. Numbering([k \in (generation + 1)..issued |-> 0], generation, issued, queue)
      BY <2>2, <2>3, <2>4 DEF Numbering
    <2>6. WillBeCalledOff
      BY <2>1, <2>3, <2>5 DEF WillBeCalledOff
    <2> QED  BY <2>1, <2>6 DEF CancelInv, NeverDispatched
  <1>2. DebounceInv /\ CancelInv /\ [Next]_vars => CancelInv'
    BY StepKeepsCancelInv
  <1>3. CancelInv => CancelCallsOff
    BY DEF CancelInv, NeverDispatched, CancelCallsOff, Called
  <1> QED  BY <1>1, <1>2, <1>3, DebounceInvariant, PTL DEF Spec
=============================================================================
