----------------------------------- MODULE MCStats -----------------------------------
(* Two threads over three seconds: one can be overtaken between reading    *)
(* the clock and taking the mutex.                                         *)
EXTENDS Stats
=============================================================================
