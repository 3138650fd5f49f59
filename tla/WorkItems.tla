------------------------------ MODULE WorkItems ------------------------------
(***************************************************************************)
(* The iteration space of TPScheduler::addWork: the work items <<x, y, z>> *)
(* of a global work size <<X, Y, Z>>, and the order of the three nested    *)
(* loops (z outermost, x innermost).  The sizes are C ints off the wire:   *)
(* an extent of zero or less gives a loop without iterations.              *)
(***************************************************************************)
EXTENDS Integers

Triple == Int \X Int \X Int

Box(ws) == (0 .. ws[1] - 1) \X (0 .. ws[2] - 1) \X (0 .. ws[3] - 1)

IsEmpty(ws) == \E d \in 1..3 : ws[d] <= 0

First == <<0, 0, 0>>

IsLast_Early(i, ws) == i[1] + 2 >= ws[1] /\ i[2] + 1 >= ws[2] /\ i[3] + 1 >= ws[3]
IsLast(i, ws) == i[1] + 1 >= ws[1] /\ i[2] + 1 >= ws[2] /\ i[3] + 1 >= ws[3]

(* The loop variables after the body for item i; i is not the last one. *)
Advance(i, ws) ==
  IF i[1] + 1 < ws[1] THEN <<i[1] + 1, i[2], i[3]>>
  ELSE IF i[2] + 1 < ws[2] THEN <<0, i[2] + 1, i[3]>>
  ELSE <<0, 0, i[3] + 1>>

(* i comes before j in the order of the loops. *)
Before(i, j) ==
  \/ i[3] < j[3]
  \/ i[3] = j[3] /\ i[2] < j[2]
  \/ i[3] = j[3] /\ i[2] = j[2] /\ i[1] < j[1]
=============================================================================
