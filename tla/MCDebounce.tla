----------------------------- MODULE MCDebounce -----------------------------
\* Model checking of Debounce; the constants are numbers given in the .cfg.
EXTENDS Debounce
=============================================================================
