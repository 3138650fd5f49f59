--------------------------- MODULE MCKernelWrapper --------------------------
(* TLC instances of KernelWrapper. *)
EXTENDS KernelWrapper

(* Two launches of different shape overlap in no dimension's range. *)
MCWorkSizes == {<<2, 2, 1>>, <<1, 3, 1>>}
=============================================================================
