---------------------------- MODULE RemoteDevice ----------------------------
(***************************************************************************)
(* What queue_dispatchCommand promises to the worker of a command queue,   *)
(* whatever packets it takes: every command has its effect on the device's *)
(* memory exactly once, after the dispatch begins and before it ends, and  *)
(* what a read returns is the memory the earlier commands have left.  Only *)
(* a kernel that cannot be built is dropped without an effect.             *)
(*                                                                         *)
(* The memory is one cell: a write sets it to a value of the host's, and a *)
(* kernel run over a global work size leaves the pair of the two in it.    *)
(***************************************************************************)

CONSTANTS Values, Kernels, Sizes

Command ==
  [op : {"write"}, value : Values]
    \cup [op : {"read"}]
    \cup [op : {"run"}, kernel : Kernels, size : Sizes]

NoCommand == [op |-> "none"]

VARIABLES
  memory,     \* what the device's global memory holds
  command,    \* the command being dispatched, or NoCommand
  executed,   \* whether it has had its effect
  ret         \* what the last read returned to the application

vars == <<memory, command, executed, ret>>

Init ==
  /\ memory \in Values
  /\ command = NoCommand
  /\ executed = FALSE
  /\ ret = memory

Begin(c) ==
  /\ command = NoCommand
  /\ command' = c
  /\ UNCHANGED <<memory, executed, ret>>

Execute ==
  /\ command # NoCommand
  /\ ~executed
  /\ executed' = TRUE
  /\ memory' = CASE command.op = "write" -> command.value
                 [] command.op = "run" -> <<command.kernel, command.size>>
                 [] OTHER -> memory
  /\ UNCHANGED <<command, ret>>

Finish ==
  /\ executed
  /\ executed' = FALSE
  /\ command' = NoCommand
  /\ ret' = IF command.op = "read" THEN memory ELSE ret
  /\ UNCHANGED memory

Drop ==
  /\ command.op = "run"
  /\ ~executed
  /\ command' = NoCommand
  /\ UNCHANGED <<memory, executed, ret>>

Next == (\E c \in Command : Begin(c)) \/ Execute \/ Finish \/ Drop

Spec == Init /\ [][Next]_vars
=============================================================================
