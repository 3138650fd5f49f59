------------------------------ MODULE Exchange ------------------------------
(***************************************************************************)
(* What a connection promises to the worker of a queue and to the device,  *)
(* whatever lies between them: requests reach the device whole, once each  *)
(* and in order, each is answered once, and nothing is asked while an      *)
(* answer is on its way.                                                   *)
(***************************************************************************)
EXTENDS Naturals, Sequences

CONSTANT Messages

VARIABLES
  asked,      \* the requests made so far
  handled,    \* those the device has taken, as it saw them
  answered    \* how many answers the worker has read

vars == <<asked, handled, answered>>

Init == asked = <<>> /\ handled = <<>> /\ answered = 0

Ask ==
  /\ answered = Len(asked)
  /\ \E m \in Messages : asked' = Append(asked, m)
  /\ UNCHANGED <<handled, answered>>

Handle ==
  /\ Len(handled) < Len(asked)
  /\ handled' = Append(handled, asked[Len(handled) + 1])
  /\ UNCHANGED <<asked, answered>>

Answer ==
  /\ answered < Len(handled)
  /\ answered' = answered + 1
  /\ UNCHANGED <<asked, handled>>

Next == Ask \/ Handle \/ Answer

Spec == Init /\ [][Next]_vars
=============================================================================
