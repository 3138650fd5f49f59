---------------------------- MODULE CommandStream ----------------------------
(***************************************************************************)
(* What an in-order OpenCL command queue promises its users: commands are  *)
(* executed one at a time in the order they were accepted, none twice and  *)
(* none ahead of an earlier one, and clFinish returns only when every      *)
(* command accepted before the call has been executed.  Releasing the last *)
(* reference may drop what has not been executed yet.                      *)
(***************************************************************************)
EXTENDS Naturals, Sequences

CONSTANT Threads

VARIABLES
  issued,     \* how many commands were accepted; they are 1, 2, ...
  executed,   \* the commands executed so far, in order
  finishing,  \* the threads inside clFinish
  target      \* what was issued when a thread entered clFinish

vars == <<issued, executed, finishing, target>>

Init ==
  /\ issued = 0
  /\ executed = <<>>
  /\ finishing = {}
  /\ target = [t \in Threads |-> 0]

Accept ==
  /\ issued' = issued + 1
  /\ UNCHANGED <<executed, finishing, target>>

Execute ==
  /\ Len(executed) < issued
  /\ executed' = Append(executed, Len(executed) + 1)
  /\ UNCHANGED <<issued, finishing, target>>

CallFinish(t) ==
  /\ t \notin finishing
  /\ finishing' = finishing \cup {t}
  /\ target' = [target EXCEPT ![t] = issued]
  /\ UNCHANGED <<issued, executed>>

(* A blocking map is accepted and then finishes. *)
AcceptAndFinish(t) ==
  /\ t \notin finishing
  /\ issued' = issued + 1
  /\ finishing' = finishing \cup {t}
  /\ target' = [target EXCEPT ![t] = issued + 1]
  /\ UNCHANGED executed

ReturnFinish_LastDispatched(t) ==
  /\ t \in finishing
  /\ Len(executed) + 1 >= target[t]
  /\ finishing' = finishing \ {t}
  /\ target' = [target EXCEPT ![t] = 0]
  /\ UNCHANGED <<issued, executed>>

ReturnFinish(t) ==
  /\ t \in finishing
  /\ Len(executed) >= target[t]
  /\ finishing' = finishing \ {t}
  /\ target' = [target EXCEPT ![t] = 0]
  /\ UNCHANGED <<issued, executed>>

Next ==
  \/ Accept \/ Execute
  \/ \E t \in Threads : CallFinish(t) \/ AcceptAndFinish(t) \/ ReturnFinish(t)

Spec == Init /\ [][Next]_vars
=============================================================================
