------------------------------ MODULE MCNPTimer ------------------------------
\* Model checking of NPTimer; the threads are model values given in the .cfg.
EXTENDS NPTimer
=============================================================================
