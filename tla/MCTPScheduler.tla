--------------------------- MODULE MCTPScheduler ----------------------------
(* TLC instances of TPScheduler. *)
EXTENDS TPScheduler

(* An empty size (a zero and a negative extent), one item, fewer items than *)
(* units, more than units in two dimensions.                               *)
MCWorkSizes == {<<0, 2, -1>>, <<1, 1, 1>>, <<2, 1, 1>>, <<1, 2, 2>>}
=============================================================================
