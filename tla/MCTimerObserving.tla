-------------------------- MODULE MCTimerObserving --------------------------
\* Model checking of TimerObserving; the constants are model values.
EXTENDS TimerObserving
=============================================================================
