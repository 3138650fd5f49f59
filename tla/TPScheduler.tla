---------------------------- MODULE TPScheduler -----------------------------
(***************************************************************************)
(* The device's thread pool scheduler (src/device/TPScheduler.cpp) and its *)
(* compute units (src/device/ComputeUnit.cpp), in the build the Makefile   *)
(* makes: ENABLE_THREAD_POOL.                                              *)
(*                                                                         *)
(* Two kinds of threads act.  The control thread runs addWork: it gives    *)
(* every compute unit the kernel image, hands out one work item after the  *)
(* other, waits until the pool is whole again and takes the image back.    *)
(* Each compute unit has a thread that sleeps on its condition variable,   *)
(* calls the kernel and puts the unit back into the pool.                  *)
(*                                                                         *)
(* queue_mx is modelled as a lock with an owner, because addWork polls     *)
(* under it; a critical section of a unit's cuState_mx is a single step.   *)
(* The two rotations of the queue in addWork take no lock, as in the code. *)
(***************************************************************************)
EXTENDS WorkItems, Sequences

CONSTANTS
  NumCU,        \* COMPUTE_UNIT_ARRAY_SIZE
  Kernels,      \* the contents kernel.so can have
  Loadable,     \* those of them that dlopen accepts
  None,         \* a null dlHandle; kernel.so before the first upload
  WorkSizes     \* the global work sizes a host may set

ASSUME NumCUAssumption == NumCU \in Nat \ {0}
ASSUME KernelsAssumption == None \notin Kernels /\ Loadable \subseteq Kernels
ASSUME WorkSizesAssumption == WorkSizes \subseteq Triple

CU == 0 .. NumCU - 1        \* the designations

Nobody == -1                \* no owner of queue_mx, no unit in free_cu
Control == -2               \* the thread that runs addWork

VARIABLES
  free_cu_array,    \* the queue of free compute units
  queue_mx,         \* the owner of its mutex
  pc,               \* where the control thread is in addWork
  counter,          \* the loop counter of the two rotations
  globalWS,         \* the argument of addWork, as <<x, y, z>>
  cursor,           \* the loop variables, as <<x, y, z>>
  free_cu,          \* the unit popped for the next work item
  cuPc,             \* where each unit's thread is in cu_thread
  threadAllocated,  \* the flag run_kernel sets and cu_thread clears
  coord,            \* globalX, globalY and globalZ of each unit
  dlHandle,         \* the kernel image each unit holds open
  kernelFile,       \* what kernel.so holds
  calls             \* history: calls of the kernel for each work item

controlVars == <<pc, counter, globalWS, cursor, free_cu>>
unitVars == <<cuPc, threadAllocated, coord>>
vars == <<free_cu_array, queue_mx, controlVars, unitVars,
          dlHandle, kernelFile, calls>>

ControlPc == {"idle", "set", "lock", "pop", "coords", "signal",
              "drain", "size", "unset", "exited"}

UnitPc == {"check", "waiting", "call", "kernel", "clear", "done", "push"}

Init ==
  /\ free_cu_array = [n \in 1..NumCU |-> n - 1]
  /\ queue_mx = Nobody
  /\ pc = "idle"
  /\ counter = 0
  /\ globalWS = <<0, 0, 0>>
  /\ cursor = First
  /\ free_cu = Nobody
  /\ cuPc = [c \in CU |-> "check"]
  /\ threadAllocated = [c \in CU |-> FALSE]
  /\ coord = [c \in CU |-> First]
  /\ dlHandle = [c \in CU |-> None]
  /\ kernelFile = None
  /\ calls = [i \in Box(globalWS) |-> 0]

-----------------------------------------------------------------------------
(* The control thread between launches and in addWork. *)

(* An upload of kernel.so; the control link accepts one between launches. *)
LoadKernel(k) ==
  /\ pc = "idle"
  /\ kernelFile' = k
  /\ UNCHANGED <<free_cu_array, queue_mx, controlVars, unitVars, dlHandle, calls>>

(* handleStartProcessing calls addWork once a kernel is loaded. *)
AddWork(ws) ==
  /\ pc = "idle"
  /\ kernelFile # None
  /\ pc' = "set"
  /\ counter' = 0
  /\ globalWS' = ws
  /\ calls' = [i \in Box(ws) |-> 0]
  /\ UNCHANGED <<free_cu_array, queue_mx, cursor, free_cu, unitVars,
                 dlHandle, kernelFile>>

(* Definitions named X_... before an X are what a plausible slip in the    *)
(* code of X would make of it; they only serve to show which property      *)
(* notices the slip.                                                       *)

(* A rotation: front, pop and push for every unit, without the lock. *)
RotationDone_OneMore == counter = NumCU + 1
RotationDone == counter = NumCU

Rotate == free_cu_array' = Append(Tail(free_cu_array), Head(free_cu_array))

(* The image dlopen returns to unit c once c's own handle is closed: the   *)
(* loader hands out the resident image while any other handle is open.     *)
Resident(c) == {dlHandle[d] : d \in CU \ {c}} \ {None}
DlopenImages(c) == IF Resident(c) = {} THEN {kernelFile} ELSE Resident(c)

StartLoops == IF IsEmpty(globalWS) THEN "drain" ELSE "lock"

SetKernel ==
  /\ pc = "set"
  /\ ~RotationDone
  /\ free_cu_array # <<>>
  /\ \E k \in DlopenImages(Head(free_cu_array)) :
       /\ k \in Loadable
       /\ dlHandle' = [dlHandle EXCEPT ![Head(free_cu_array)] = k]
  /\ Rotate
  /\ counter' = counter + 1
  /\ UNCHANGED <<queue_mx, pc, globalWS, cursor, free_cu, unitVars,
                 kernelFile, calls>>

(* A failing dlopen ends the process. *)
SetKernelExit ==
  /\ pc = "set"
  /\ ~RotationDone
  /\ free_cu_array # <<>>
  /\ \E k \in DlopenImages(Head(free_cu_array)) : k \notin Loadable
  /\ pc' = "exited"
  /\ UNCHANGED <<free_cu_array, queue_mx, counter, globalWS, cursor, free_cu,
                 unitVars, dlHandle, kernelFile, calls>>

SetKernelDone ==
  /\ pc = "set"
  /\ RotationDone
  /\ pc' = StartLoops
  /\ cursor' = First
  /\ UNCHANGED <<free_cu_array, queue_mx, counter, globalWS, free_cu, unitVars,
                 dlHandle, kernelFile, calls>>

Acquire(from, to) ==
  /\ pc = from
  /\ queue_mx = Nobody
  /\ queue_mx' = Control
  /\ pc' = to
  /\ UNCHANGED <<free_cu_array, counter, globalWS, cursor, free_cu, unitVars,
                 dlHandle, kernelFile, calls>>

DispatchLock == Acquire("lock", "pop")

PopFree_Front ==
  /\ pc = "pop"
  /\ free_cu_array # <<>>
  /\ free_cu' = Head(free_cu_array)
  /\ queue_mx' = Nobody
  /\ pc' = "coords"
  /\ UNCHANGED <<free_cu_array, counter, globalWS, cursor, unitVars,
                 dlHandle, kernelFile, calls>>
PopFree ==
  /\ pc = "pop"
  /\ free_cu_array # <<>>
  /\ free_cu' = Head(free_cu_array)
  /\ free_cu_array' = Tail(free_cu_array)
  /\ queue_mx' = Nobody
  /\ pc' = "coords"
  /\ UNCHANGED <<counter, globalWS, cursor, unitVars, dlHandle, kernelFile, calls>>

NoneFree ==
  /\ pc = "pop"
  /\ free_cu_array = <<>>
  /\ queue_mx' = Nobody
  /\ pc' = "lock"
  /\ UNCHANGED <<free_cu_array, counter, globalWS, cursor, free_cu, unitVars,
                 dlHandle, kernelFile, calls>>

(* run_kernel stores the coordinates before it takes cuState_mx ... *)
RunKernelCoords ==
  /\ pc = "coords"
  /\ coord' = [coord EXCEPT ![free_cu] = cursor]
  /\ pc' = "signal"
  /\ UNCHANGED <<free_cu_array, queue_mx, counter, globalWS, cursor, free_cu,
                 cuPc, threadAllocated, dlHandle, kernelFile, calls>>

(* ... under which it sets the flag and signals; addWork's loops go on. *)
Signalled_Nobody(at) == at
Signalled(at) == IF at = "waiting" THEN "check" ELSE at

RunKernelSignal ==
  /\ pc = "signal"
  /\ threadAllocated' = [threadAllocated EXCEPT ![free_cu] = TRUE]
  /\ cuPc' = [cuPc EXCEPT ![free_cu] = Signalled(@)]
  /\ IF IsLast(cursor, globalWS)
       THEN pc' = "drain" /\ UNCHANGED cursor
       ELSE pc' = "lock" /\ cursor' = Advance(cursor, globalWS)
  /\ free_cu' = Nobody
  /\ UNCHANGED <<free_cu_array, queue_mx, counter, globalWS, coord,
                 dlHandle, kernelFile, calls>>

DrainLock == Acquire("drain", "size")

PoolIsWhole_OneMissing == Len(free_cu_array) >= NumCU - 1
PoolIsWhole == Len(free_cu_array) = NumCU

DrainWait ==
  /\ pc = "size"
  /\ ~PoolIsWhole
  /\ queue_mx' = Nobody
  /\ pc' = "drain"
  /\ UNCHANGED <<free_cu_array, counter, globalWS, cursor, free_cu, unitVars,
                 dlHandle, kernelFile, calls>>

DrainDone ==
  /\ pc = "size"
  /\ PoolIsWhole
  /\ queue_mx' = Nobody
  /\ pc' = "unset"
  /\ counter' = 0
  /\ UNCHANGED <<free_cu_array, globalWS, cursor, free_cu, unitVars,
                 dlHandle, kernelFile, calls>>

UnsetKernel_LeftOpen ==
  /\ pc = "unset"
  /\ ~RotationDone
  /\ free_cu_array # <<>>
  /\ Rotate
  /\ counter' = counter + 1
  /\ UNCHANGED <<queue_mx, pc, globalWS, cursor, free_cu, unitVars,
                 dlHandle, kernelFile, calls>>
UnsetKernel ==
  /\ pc = "unset"
  /\ ~RotationDone
  /\ free_cu_array # <<>>
  /\ dlHandle' = [dlHandle EXCEPT ![Head(free_cu_array)] = None]
  /\ Rotate
  /\ counter' = counter + 1
  /\ UNCHANGED <<queue_mx, pc, globalWS, cursor, free_cu, unitVars,
                 kernelFile, calls>>

AddWorkReturn ==
  /\ pc = "unset"
  /\ RotationDone
  /\ pc' = "idle"
  /\ UNCHANGED <<free_cu_array, queue_mx, counter, globalWS, cursor, free_cu,
                 unitVars, dlHandle, kernelFile, calls>>

ControlStep ==
  \/ SetKernel \/ SetKernelExit \/ SetKernelDone
  \/ DispatchLock \/ PopFree \/ NoneFree
  \/ RunKernelCoords \/ RunKernelSignal
  \/ DrainLock \/ DrainWait \/ DrainDone
  \/ UnsetKernel \/ AddWorkReturn

-----------------------------------------------------------------------------
(* The thread of compute unit c. *)

Goto(c, from, to) ==
  /\ pc # "exited"
  /\ cuPc[c] = from
  /\ cuPc' = [cuPc EXCEPT ![c] = to]

(* The test of threadAllocated; cond_wait releases cuState_mx atomically. *)
CheckAllocated(c) ==
  /\ Goto(c, "check", IF threadAllocated[c] THEN "call" ELSE "waiting")
  /\ UNCHANGED <<free_cu_array, queue_mx, controlVars, threadAllocated, coord,
                 dlHandle, kernelFile, calls>>

(* pthread_cond_wait may return although nobody signalled. *)
SpuriousWakeup(c) ==
  /\ Goto(c, "waiting", "check")
  /\ UNCHANGED <<free_cu_array, queue_mx, controlVars, threadAllocated, coord,
                 dlHandle, kernelFile, calls>>

CallKernel(c) ==
  /\ Goto(c, "call", "kernel")
  /\ calls' = [calls EXCEPT ![coord[c]] = @ + 1]
  /\ UNCHANGED <<free_cu_array, queue_mx, controlVars, threadAllocated, coord,
                 dlHandle, kernelFile>>

ReturnKernel(c) ==
  /\ Goto(c, "kernel", "clear")
  /\ UNCHANGED <<free_cu_array, queue_mx, controlVars, threadAllocated, coord,
                 dlHandle, kernelFile, calls>>

(* threadAllocated = false, outside cuState_mx. *)
ClearAllocated_Kept(c) ==
  /\ Goto(c, "clear", "done")
  /\ UNCHANGED <<free_cu_array, queue_mx, controlVars, threadAllocated, coord,
                 dlHandle, kernelFile, calls>>
ClearAllocated(c) ==
  /\ Goto(c, "clear", "done")
  /\ threadAllocated' = [threadAllocated EXCEPT ![c] = FALSE]
  /\ UNCHANGED <<free_cu_array, queue_mx, controlVars, coord,
                 dlHandle, kernelFile, calls>>

CUDoneLock(c) ==
  /\ Goto(c, "done", "push")
  /\ queue_mx = Nobody
  /\ queue_mx' = c
  /\ UNCHANGED <<free_cu_array, controlVars, threadAllocated, coord,
                 dlHandle, kernelFile, calls>>

CUDonePush(c) ==
  /\ Goto(c, "push", "check")
  /\ free_cu_array' = Append(free_cu_array, c)
  /\ queue_mx' = Nobody
  /\ UNCHANGED <<controlVars, threadAllocated, coord, dlHandle, kernelFile, calls>>

UnitStep(c) ==
  \/ CheckAllocated(c) \/ CallKernel(c) \/ ReturnKernel(c)
  \/ ClearAllocated(c) \/ CUDoneLock(c) \/ CUDonePush(c)

Next ==
  \/ \E k \in Kernels : LoadKernel(k)
  \/ \E ws \in WorkSizes : AddWork(ws)
  \/ ControlStep
  \/ \E c \in CU : UnitStep(c) \/ SpuriousWakeup(c)

Spec == Init /\ [][Next]_vars

(* The operating system runs every thread; kernels terminate; a unit that  *)
(* keeps asking for queue_mx, which addWork releases between its polls, is *)
(* granted it some day.  Nothing obliges the host to launch anything, and  *)
(* nothing obliges a condition variable to wake up without a signal.       *)
Fairness ==
  /\ WF_vars(ControlStep)
  /\ \A c \in CU : WF_vars(UnitStep(c)) /\ SF_vars(CUDoneLock(c))

FairSpec == Spec /\ Fairness

-----------------------------------------------------------------------------
(* Properties. *)

(* The type invariant of the scheduler's and the units' fields. *)
TypeOK ==
  /\ free_cu_array \in Seq(CU)
  /\ queue_mx \in CU \cup {Nobody, Control}
  /\ pc \in ControlPc
  /\ counter \in 0 .. NumCU
  /\ globalWS \in Triple
  /\ cursor \in Triple
  /\ free_cu \in CU \cup {Nobody}
  /\ cuPc \in [CU -> UnitPc]
  /\ threadAllocated \in [CU -> BOOLEAN]
  /\ coord \in [CU -> Triple]
  /\ dlHandle \in [CU -> Kernels \cup {None}]
  /\ kernelFile \in Kernels \cup {None}
  /\ calls \in [Box(globalWS) -> Nat]

Queued(c) == \E n \in 1 .. Len(free_cu_array) : free_cu_array[n] = c

(* run_kernel is executing for c. *)
Held(c) == pc \in {"coords", "signal"} /\ free_cu = c

(* c belongs to its own thread: allocated, or on the way back to the pool. *)
Busy(c) == threadAllocated[c] \/ cuPc[c] \in {"call", "kernel", "clear", "done", "push"}

(* The pool never loses and never duplicates a compute unit: each is in    *)
(* exactly one of the free queue (and there once), addWork's hand between  *)
(* pop and signal, and its own thread between the signal and CUDone.       *)
PoolPartition ==
  /\ \A m, n \in 1 .. Len(free_cu_array) :
       free_cu_array[m] = free_cu_array[n] => m = n
  /\ \A c \in CU :
       \/ Queued(c) /\ ~Held(c) /\ ~Busy(c)
       \/ ~Queued(c) /\ Held(c) /\ ~Busy(c)
       \/ ~Queued(c) /\ ~Held(c) /\ Busy(c)

(* The rotations of addWork need no lock: while they (or nothing of        *)
(* addWork) run, no unit's thread is anywhere between its wake-up and the  *)
(* end of CUDone, so none touches the queue or executes the image that     *)
(* set_kernel and unset_kernel replace.                                    *)
RotationAlone ==
  pc \in {"idle", "set", "unset"} =>
    queue_mx = Nobody /\ \A c \in CU : ~Busy(c)

(* Work that run_kernel has handed over is never slept on: a thread inside *)
(* pthread_cond_wait has no allocated work, so no signal can be lost.      *)
NoLostWakeup == \A c \in CU : cuPc[c] = "waiting" => ~threadAllocated[c]

(* run_kernel overwrites a unit's coordinates and flag, without or with    *)
(* the lock, only while the unit's thread does not read or write them.     *)
CoordsUnshared ==
  \A c \in CU : Held(c) => cuPc[c] \in {"check", "waiting"} /\ ~threadAllocated[c]

(* A kernel call executes the image of the kernel.so that was uploaded     *)
(* last, although dlopen hands out the resident image as long as any unit  *)
(* still has it open; between launches no unit has.                        *)
FreshImage ==
  /\ \A c \in CU : cuPc[c] \in {"call", "kernel"} => dlHandle[c] = kernelFile
  /\ pc = "idle" => \A c \in CU : dlHandle[c] = None

(* The scheduler implements the promise of addWork. *)
Phase == CASE pc = "idle" -> "idle" [] pc = "exited" -> "exited" [] OTHER -> "active"
RunningItems == {coord[c] : c \in {d \in CU : cuPc[d] = "kernel"}}
Dispatch == INSTANCE WorkDispatch WITH phase <- Phase, running <- RunningItems

(* Every behaviour of the scheduler is one of WorkDispatch: the kernel is  *)
(* called exactly once for each work item of the launch and addWork        *)
(* returns only after the last call has returned.                          *)
ExactlyOnce == Dispatch!Spec

(* Every addWork comes to its end: the poll for a free unit and the poll   *)
(* for the whole pool both see what they wait for.                         *)
AddWorkReturns == pc = "set" ~> pc \in {"idle", "exited"}

-----------------------------------------------------------------------------
(* The inductive invariant of the proofs. *)

(* queue_mx is owned exactly in the critical sections. *)
LockInv ==
  /\ queue_mx = Control <=> pc \in {"pop", "size"}
  /\ \A c \in CU : queue_mx = c <=> cuPc[c] = "push"

(* The flag is set while the thread works on an item and clear while it    *)
(* sleeps or returns to the pool.                                          *)
UnitInv ==
  \A c \in CU :
    /\ cuPc[c] \in {"call", "kernel", "clear"} => threadAllocated[c]
    /\ cuPc[c] \in {"waiting", "done", "push"} => ~threadAllocated[c]

QueueInv ==
  /\ \A m, n \in 1 .. Len(free_cu_array) :
       free_cu_array[m] = free_cu_array[n] => m = n
  /\ \A c \in CU : Queued(c) => ~Held(c) /\ ~Busy(c)
  /\ \A c \in CU : Held(c) => ~Busy(c)
  /\ \A c \in CU : Queued(c) \/ Held(c) \/ Busy(c)
  /\ pc \in {"coords", "signal"} => free_cu \in CU
  /\ pc \in {"idle", "set", "unset", "exited"} => Len(free_cu_array) = NumCU

(* The images of the units, at each position of a half-done rotation. *)
ImageInv ==
  /\ pc = "idle" => \A c \in CU : dlHandle[c] = None
  /\ pc \notin {"idle", "exited"} => kernelFile # None
  /\ pc = "set" => \A n \in 1 .. Len(free_cu_array) :
       dlHandle[free_cu_array[n]] = IF n > NumCU - counter THEN kernelFile ELSE None
  /\ pc \in {"lock", "pop", "coords", "signal", "drain", "size"} =>
       \A c \in CU : dlHandle[c] = kernelFile
  /\ pc = "unset" => \A n \in 1 .. Len(free_cu_array) :
       dlHandle[free_cu_array[n]] = IF n > NumCU - counter THEN None ELSE kernelFile

(* The loops have passed work item i. *)
HandedOut(i) ==
  /\ pc \in {"lock", "pop", "coords", "signal"} => Before(i, cursor)
  /\ pc \notin {"set", "exited"}

(* c has been given an item whose call has not begun. *)
Pending(c) == threadAllocated[c] /\ cuPc[c] \in {"check", "call"}

(* An item handed out is pending at one unit or has been called once. *)
ItemInv ==
  /\ pc \in {"lock", "pop", "coords", "signal"} => cursor \in Box(globalWS)
  /\ pc = "signal" => coord[free_cu] = cursor
  /\ \A c \in CU : Pending(c) =>
       coord[c] \in Box(globalWS) /\ HandedOut(coord[c]) /\ calls[coord[c]] = 0
  /\ \A c \in CU : cuPc[c] = "kernel" =>
       coord[c] \in Box(globalWS) /\ HandedOut(coord[c]) /\ calls[coord[c]] = 1
  /\ \A c, d \in CU :
       \/ Pending(c) /\ Pending(d)
       \/ cuPc[c] = "kernel" /\ cuPc[d] = "kernel"
       => (coord[c] = coord[d] => c = d)
  /\ \A i \in Box(globalWS) : calls[i] \in {0, 1} /\ (~HandedOut(i) => calls[i] = 0)
  /\ \A i \in Box(globalWS) : HandedOut(i) /\ calls[i] = 0 =>
       \E c \in CU : Pending(c) /\ coord[c] = i

IInv == TypeOK /\ LockInv /\ UnitInv /\ QueueInv /\ ImageInv /\ ItemInv
=============================================================================
