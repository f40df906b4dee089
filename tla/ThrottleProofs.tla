--------------------------- MODULE ThrottleProofs ---------------------------
(***************************************************************************)
(* The throttle's rate bound and its reason for dropping a signal, for any  *)
(* delay and any number of signals.  Both rest on one fact about the clock: *)
(* the last firing, the reading of the running block and the present are in *)
(* that order.                                                              *)
(***************************************************************************)
EXTENDS Throttle, TLAPS

\* The last firing precedes the clock reading in progress and the present.
ClockOrder ==
    /\ stamp # NoStamp => stamp <= now
    /\ hasFired => /\ first <= previous /\ previous <= now
                   /\ stamp # NoStamp => previous <= stamp
                   /\ previous \in firedAt

\* Firings are a delay apart, counted up to the last one.
Spaced == hasFired => (dispatched - 1) * Delay <= previous - first
Unfired == ~hasFired => dispatched = 0

ThrottleInv == TypeOK /\ ClockOrder /\ Spaced /\ Unfired /\ DropJustified

\* One more firing costs one more delay.
LEMMA OneMoreDelay ==
  ASSUME NEW n \in Nat, NEW d \in Nat
  PROVE  (n + 1 - 1) * d = (n - 1) * d + d
  OBVIOUS

\* The invariant survives the decision of a signal, fired or dropped.
LEMMA SignalKeepsInv ==
  ASSUME ThrottleInv, onSignal
  PROVE  ThrottleInv'
  <1> USE DelayAssumption DEF ThrottleInv, NoStamp
  <1>1. stamp \in Nat /\ stamp <= now /\ stamp' = NoStamp /\ now' = now
    BY DEF onSignal, TypeOK, ClockOrder
  <1>2. TypeOK'
    <2>1. CASE Fire(stamp)
      BY <1>1, <2>1 DEF onSignal, Fire, TypeOK
    <2>2. CASE Drop(stamp)
      BY <1>1, <2>2 DEF onSignal, Drop, TypeOK, state
    <2> QED  BY <2>1, <2>2 DEF onSignal
  <1>3. CASE IsDue(stamp) /\ Fire(stamp)
    <2>1. ClockOrder' /\ Unfired'
      BY <1>1, <1>2, <1>3 DEF ClockOrder, Fire, TypeOK, Unfired
    <2>2. Spaced'
      <3>1. CASE hasFired
        <4>1. stamp - previous >= Delay
          BY <1>3, <3>1 DEF IsDue
        <4>2. (dispatched' - 1) * Delay = (dispatched - 1) * Delay + Delay
          BY <1>3, OneMoreDelay DEF Fire, TypeOK
        <4>3. (dispatched - 1) * Delay <= previous - first /\ (dispatched - 1) * Delay \in Int
          BY <3>1 DEF Spaced, TypeOK
        <4>4. previous' = stamp /\ first' = first
          BY <1>3, <3>1 DEF Fire
        <4> HIDE DEF ThrottleInv
        <4>5. previous \in Nat /\ first \in Nat
          BY DEF ThrottleInv, TypeOK
        <4> QED  BY <1>1, <4>1, <4>2, <4>3, <4>4, <4>5 DEF Spaced
      <3>2. CASE ~hasFired
        BY <1>1, <1>3, <3>2 DEF Fire, Spaced, Unfired, TypeOK
      <3> QED  BY <3>1, <3>2
    <2>3. DropJustified'
      BY <1>3 DEF Fire, DropJustified
    <2> QED  BY <1>2, <2>1, <2>2, <2>3
  <1>4. CASE ~IsDue(stamp) /\ Drop(stamp)
    <2>1. hasFired /\ stamp - previous < Delay
      BY <1>1, <1>4 DEF IsDue, TypeOK
    <2>2. previous \in firedAt /\ previous <= stamp
      BY <1>1, <2>1 DEF ClockOrder
    <2>3. DropJustified'
      BY <1>4, <2>1, <2>2 DEF Drop, DropJustified
    <2>4. ClockOrder' /\ Spaced' /\ Unfired'
      BY <1>1, <1>4 DEF Drop, ClockOrder, Spaced, Unfired, state
    <2> QED  BY <1>2, <2>3, <2>4
  <1> QED  BY <1>3, <1>4 DEF onSignal

\* Every other step leaves the decisions alone and lets the clock only advance.
LEMMA OthersKeepInv ==
  ASSUME ThrottleInv,
         NPDispatchScheduleThrottle \/ NPScheduleWorkSignal \/ NPScheduleWorkFree
           \/ monotonicSeconds \/ RunCallback \/ Tick \/ UNCHANGED vars
  PROVE  ThrottleInv'
  <1> USE DEF ThrottleInv
  <1>1. /\ UNCHANGED <<state, history>>
        /\ now' \in Nat /\ now' >= now
        /\ stamp' = stamp \/ stamp' = now
    BY DEF NPDispatchScheduleThrottle, NPScheduleWorkSignal, NPScheduleWorkFree,
      monotonicSeconds, RunCallback, Tick, vars, state, history, TypeOK
  <1>2. TypeOK'
    <2> USE DEF TypeOK, state, history
    <2>1. CASE NPDispatchScheduleThrottle
      BY <2>1 DEF NPDispatchScheduleThrottle, makeScheduleWork
    <2>2. CASE NPScheduleWorkSignal
      BY <2>2 DEF NPScheduleWorkSignal
    <2>3. CASE NPScheduleWorkFree
      BY <2>3 DEF NPScheduleWorkFree
    <2>4. CASE monotonicSeconds
      BY <2>4 DEF monotonicSeconds
    <2>5. CASE RunCallback
      BY <2>5 DEF RunCallback
    <2>6. CASE Tick
      BY <2>6 DEF Tick
    <2>7. CASE UNCHANGED vars
      BY <2>7 DEF vars
    <2> QED  BY <2>1, <2>2, <2>3, <2>4, <2>5, <2>6, <2>7
  <1>3. ClockOrder'
    BY <1>1 DEF ClockOrder, state, history, TypeOK, NoStamp
  <1>4. Spaced' /\ Unfired' /\ DropJustified'
    BY <1>1 DEF Spaced, Unfired, DropJustified, state, history
  <1> QED  BY <1>2, <1>3, <1>4

\* The invariant of the throttle holds in every reachable state.
LEMMA ThrottleInvariant == Spec => []ThrottleInv
  <1>1. Init => ThrottleInv
    <2> SUFFICES ASSUME Init PROVE ThrottleInv
      OBVIOUS
    <2>1. TypeOK
      <3>1. firedAt \subseteq Nat /\ droppedAt \subseteq Nat
        BY DEF Init
      <3> QED  BY <3>1 DEF Init, TypeOK
    <2>2. ClockOrder /\ Spaced /\ Unfired /\ DropJustified
      BY DEF Init, ClockOrder, Spaced, Unfired, DropJustified
    <2> QED  BY <2>1, <2>2 DEF ThrottleInv
  <1>2. ThrottleInv /\ [Next]_vars => ThrottleInv'
    BY SignalKeepsInv, OthersKeepInv DEF Next
  <1> QED  BY <1>1, <1>2, PTL DEF Spec

\* Type correctness of the throttle (schedule.m:81-100).
THEOREM ThrottleTypeCorrect == Spec => []TypeOK
  <1>1. ThrottleInv => TypeOK
    BY DEF ThrottleInv
  <1> QED  BY <1>1, ThrottleInvariant, PTL

\* n dispatches take n - 1 delays (schedule.m:86-93): the callback runs at most
\* once per window.
THEOREM ThrottleRate == Spec => []RateBound
  <1>1. ThrottleInv => RateBound
    <2> SUFFICES ASSUME ThrottleInv, hasFired
                 PROVE  (dispatched - 1) * Delay <= now - first
      BY DEF RateBound
    <2>1. (dispatched - 1) * Delay <= previous - first
      BY DEF ThrottleInv, Spaced
    <2>2. (dispatched - 1) * Delay \in Int /\ previous <= now
      BY DelayAssumption DEF ThrottleInv, TypeOK, ClockOrder
    <2>3. previous \in Nat /\ now \in Nat /\ first \in Nat
      BY DEF ThrottleInv, TypeOK
    <2> QED  BY <2>1, <2>2, <2>3
  <1> QED  BY <1>1, ThrottleInvariant, PTL

\* No signal is dropped without a dispatch less than a delay before it
\* (schedule.m:88).
THEOREM ThrottleDrops == Spec => []DropJustified
  <1>1. ThrottleInv => DropJustified
    BY DEF ThrottleInv
  <1> QED  BY <1>1, ThrottleInvariant, PTL
=============================================================================
