--------------------------- MODULE MCCommandQueue ---------------------------
(* The TLC instance of CommandQueue.  Threads are model values; they are   *)
(* interchangeable, but liveness is checked, so no symmetry is declared.   *)
EXTENDS CommandQueue
=============================================================================
