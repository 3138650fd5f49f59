---------------------------- MODULE WorkDispatch ----------------------------
(***************************************************************************)
(* What IScheduler::addWork promises to the control link, whatever the     *)
(* pool of compute units behind it looks like: one launch at a time, the   *)
(* kernel called once for every work item of the global work size, in any  *)
(* order and with any overlap, and no return before every call is over.    *)
(* The only other outcome is that the process ends before the first call,  *)
(* because the kernel image cannot be loaded.                              *)
(***************************************************************************)
EXTENDS WorkItems

CONSTANT WorkSizes          \* the global work sizes a host may set

VARIABLES
  phase,      \* "idle", "active" or "exited"
  globalWS,   \* the global work size of the current or last launch
  calls,      \* calls[i]: how often the kernel was called for work item i
  running     \* the work items whose kernel call has not returned

vars == <<phase, globalWS, calls, running>>

Init ==
  /\ phase = "idle"
  /\ globalWS = <<0, 0, 0>>
  /\ calls = [i \in Box(globalWS) |-> 0]
  /\ running = {}

Begin(ws) ==
  /\ phase = "idle"
  /\ phase' = "active"
  /\ globalWS' = ws
  /\ calls' = [i \in Box(ws) |-> 0]
  /\ UNCHANGED running

Call(i) ==
  /\ phase = "active"
  /\ calls[i] = 0
  /\ calls' = [calls EXCEPT ![i] = 1]
  /\ running' = running \cup {i}
  /\ UNCHANGED <<phase, globalWS>>

Complete(i) ==
  /\ running' = running \ {i}
  /\ UNCHANGED <<phase, globalWS, calls>>

Return ==
  /\ phase = "active"
  /\ running = {}
  /\ \A i \in Box(globalWS) : calls[i] = 1
  /\ phase' = "idle"
  /\ UNCHANGED <<globalWS, calls, running>>

Exit ==
  /\ phase = "active"
  /\ \A i \in Box(globalWS) : calls[i] = 0
  /\ phase' = "exited"
  /\ UNCHANGED <<globalWS, calls, running>>

Next ==
  \/ \E ws \in WorkSizes : Begin(ws)
  \/ \E i \in Box(globalWS) : Call(i)
  \/ \E i \in running : Complete(i)
  \/ Return
  \/ Exit

Spec == Init /\ [][Next]_vars
=============================================================================
