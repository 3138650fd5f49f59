---------------------------- MODULE KernelWrapper ----------------------------
(***************************************************************************)
(* The wrapper that src/host/scripts/createwrapper.py generates around a   *)
(* kernel, run by the compute units of TPScheduler.  The wrapper stores    *)
(* its coordinates in global[], a variable of the one kernel.so all units  *)
(* have loaded, and get_global_id reads it back while the kernel runs.     *)
(*                                                                         *)
(* Between CallKernel and ReturnKernel of the scheduler a unit takes six   *)
(* steps: the three stores, then a get_global_id for each dimension (a     *)
(* kernel that asks for its whole position once, in order).  The loads and *)
(* stores of the words are atomic and in program order, which the builds   *)
(* for the device's processors give at least; a weaker memory can only     *)
(* add outcomes.                                                           *)
(***************************************************************************)
EXTENDS TPScheduler

VARIABLES
  global,   \* the wrapper's unsigned int global[]
  step,     \* how many of the six steps each unit has taken
  ids       \* what get_global_id returned to each unit so far

wrapperVars == <<global, step, ids>>
allVars == <<vars, wrapperVars>>

Dim == 1..3

InitWrapper ==
  /\ Init
  /\ global = First
  /\ step = [c \in CU |-> 0]
  /\ ids = [c \in CU |-> First]

(* global[0] = x; global[1] = y; global[2] = z; *)
StoreGlobal_Swapped(c) ==
  /\ cuPc[c] = "kernel"
  /\ step[c] + 1 \in Dim
  /\ global' = [global EXCEPT ![step[c] + 1] = coord[c][<<2, 1, 3>>[step[c] + 1]]]
  /\ step' = [step EXCEPT ![c] = @ + 1]
  /\ UNCHANGED <<vars, ids>>
StoreGlobal(c) ==
  /\ cuPc[c] = "kernel"
  /\ step[c] + 1 \in Dim
  /\ global' = [global EXCEPT ![step[c] + 1] = coord[c][step[c] + 1]]
  /\ step' = [step EXCEPT ![c] = @ + 1]
  /\ UNCHANGED <<vars, ids>>

(* return (dimindex < 2)?global[dimindex]:0; *)
get_global_id(d) == IF d < 3 THEN global[d] ELSE 0

ReadId(c) ==
  /\ cuPc[c] = "kernel"
  /\ step[c] - 2 \in Dim
  /\ ids' = [ids EXCEPT ![c][step[c] - 2] = get_global_id(step[c] - 2)]
  /\ step' = [step EXCEPT ![c] = @ + 1]
  /\ UNCHANGED <<vars, global>>

ReturnWrapper(c) ==
  /\ step[c] = 6
  /\ ReturnKernel(c)
  /\ step' = [step EXCEPT ![c] = 0]
  /\ ids' = [ids EXCEPT ![c] = First]
  /\ UNCHANGED global

(* Loading an image anew initialises its global[] with zeros. *)
SetKernelWrapper ==
  /\ SetKernel
  /\ global' = IF Resident(Head(free_cu_array)) = {} THEN First ELSE global
  /\ UNCHANGED <<step, ids>>

OtherStep ==
  /\ \/ \E k \in Kernels : LoadKernel(k)
     \/ \E ws \in WorkSizes : AddWork(ws)
     \/ SetKernelExit \/ SetKernelDone
     \/ DispatchLock \/ PopFree \/ NoneFree \/ RunKernelCoords \/ RunKernelSignal
     \/ DrainLock \/ DrainWait \/ DrainDone \/ UnsetKernel \/ AddWorkReturn
     \/ \E c \in CU :
          \/ CheckAllocated(c) \/ SpuriousWakeup(c) \/ CallKernel(c)
          \/ ClearAllocated(c) \/ CUDoneLock(c) \/ CUDonePush(c)
  /\ UNCHANGED wrapperVars

NextWrapper ==
  \/ SetKernelWrapper
  \/ OtherStep
  \/ \E c \in CU : StoreGlobal(c) \/ ReadId(c) \/ ReturnWrapper(c)

SpecWrapper == InitWrapper /\ [][NextWrapper]_allVars

-----------------------------------------------------------------------------
(* Properties. *)

AllRead(c) == cuPc[c] = "kernel" /\ step[c] = 6

(* createwrapper.py:32, "get_global_id() returns the current counter value *)
(* for a given dimension": a kernel that has asked for its position knows  *)
(* the coordinates of the work item it was called for.  So says the demo   *)
(* that fills its buffer through get_global_id and expects every element.  *)
IdsOfOwnItem == \A c \in CU : AllRead(c) => ids[c] = coord[c]

(* However the units race, the position read is one of this launch: no     *)
(* word survives from an earlier launch or from the image's zeros, even    *)
(* where it mixes the coordinates of several items.                        *)
IdsInLaunch == \A c \in CU : AllRead(c) => ids[c] \in Box(globalWS)
=============================================================================
