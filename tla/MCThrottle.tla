----------------------------- MODULE MCThrottle -----------------------------
\* Model checking of Throttle; the constants are numbers given in the .cfg.
EXTENDS Throttle
=============================================================================
