--------------------------- MODULE MCDeviceMemory ---------------------------
(* TLC instances of DeviceMemory. *)
EXTENDS DeviceMemory, TLC

(* What the application stores and who calls are interchangeable. *)
Symmetry == Permutations(Values) \cup Permutations(Threads)
=============================================================================
