-------------------------- MODULE TPSchedulerProofs --------------------------
(***************************************************************************)
(* Proofs about TPScheduler for any number of compute units, any kernels   *)
(* and any global work sizes.                                              *)
(***************************************************************************)
EXTENDS TPScheduler, FiniteSetTheorems, SequenceTheorems, TLAPS

-----------------------------------------------------------------------------
(* The loops of addWork. *)

LEMMA BoxElement ==
  ASSUME NEW ws \in Triple, NEW i \in Box(ws)
  PROVE  /\ i = <<i[1], i[2], i[3]>>
         /\ i[1] \in 0 .. ws[1] - 1 /\ i[2] \in 0 .. ws[2] - 1 /\ i[3] \in 0 .. ws[3] - 1
         /\ i \in Triple
BY DEF Box, Triple

LEMMA TripleElement ==
  ASSUME NEW i \in Triple
  PROVE  i = <<i[1], i[2], i[3]>> /\ i[1] \in Int /\ i[2] \in Int /\ i[3] \in Int
BY DEF Triple

LEMMA InBox ==
  ASSUME NEW ws \in Triple, NEW x, NEW y, NEW z,
         x \in 0 .. ws[1] - 1, y \in 0 .. ws[2] - 1, z \in 0 .. ws[3] - 1
  PROVE  <<x, y, z>> \in Box(ws)
BY DEF Box

(* The loops start with the least item, or with none. *)
LEMMA LoopStart ==
  ASSUME NEW ws \in Triple
  PROVE  /\ IsEmpty(ws) => Box(ws) = {}
         /\ ~IsEmpty(ws) => First \in Box(ws)
         /\ \A j \in Box(ws) : ~Before(j, First)
<1>1. ws[1] \in Int /\ ws[2] \in Int /\ ws[3] \in Int
  BY TripleElement
<1>2. IsEmpty(ws) => Box(ws) = {}
  <2> SUFFICES ASSUME IsEmpty(ws), NEW j \in Box(ws) PROVE FALSE
    OBVIOUS
  <2>1. j[1] \in 0 .. ws[1] - 1 /\ j[2] \in 0 .. ws[2] - 1 /\ j[3] \in 0 .. ws[3] - 1
    BY BoxElement
  <2> QED BY <2>1, <1>1 DEF IsEmpty
<1>3. ASSUME ~IsEmpty(ws) PROVE First \in Box(ws)
  <2>1. ws[1] > 0 /\ ws[2] > 0 /\ ws[3] > 0
    BY <1>1, <1>3 DEF IsEmpty
  <2> QED BY <2>1, <1>1, InBox DEF First
<1>4. ASSUME NEW j \in Box(ws) PROVE ~Before(j, First)
  BY <1>1, BoxElement DEF Before, First
<1> QED BY <1>2, <1>3, <1>4

(* The item after i is in the space, and the items before it are those     *)
(* before i and i itself: the loops visit every item once, in order.       *)
LEMMA LoopStep ==
  ASSUME NEW ws \in Triple, NEW i \in Box(ws), ~IsLast(i, ws)
  PROVE  /\ Advance(i, ws) \in Box(ws)
         /\ \A j \in Box(ws) : Before(j, Advance(i, ws)) <=> Before(j, i) \/ j = i
<1>1. ws[1] \in Int /\ ws[2] \in Int /\ ws[3] \in Int
  BY TripleElement
<1>2. /\ i[1] \in 0 .. ws[1] - 1 /\ i[2] \in 0 .. ws[2] - 1 /\ i[3] \in 0 .. ws[3] - 1
      /\ i = <<i[1], i[2], i[3]>>
  BY BoxElement
<1> DEFINE a == Advance(i, ws)
<1>3. a[1] \in 0 .. ws[1] - 1 /\ a[2] \in 0 .. ws[2] - 1 /\ a[3] \in 0 .. ws[3] - 1
  BY <1>1, <1>2 DEF Advance, IsLast
<1>4. a = <<a[1], a[2], a[3]>>
  BY DEF Advance
<1>5. a \in Box(ws)
  BY <1>3, <1>4, InBox
<1>6. ASSUME NEW j \in Box(ws) PROVE Before(j, a) <=> Before(j, i) \/ j = i
  <2>1. /\ j[1] \in 0 .. ws[1] - 1 /\ j[2] \in 0 .. ws[2] - 1 /\ j[3] \in 0 .. ws[3] - 1
        /\ j = <<j[1], j[2], j[3]>>
    BY BoxElement
  <2>2. j = i <=> j[1] = i[1] /\ j[2] = i[2] /\ j[3] = i[3]
    BY <2>1, <1>2
  <2> QED BY <2>1, <2>2, <1>1, <1>2 DEF Advance, Before, IsLast
<1> QED BY <1>5, <1>6

(* No item follows the last one. *)
LEMMA LoopEnd ==
  ASSUME NEW ws \in Triple, NEW i \in Box(ws), IsLast(i, ws), NEW j \in Box(ws)
  PROVE  Before(j, i) \/ j = i
<1>1. ws[1] \in Int /\ ws[2] \in Int /\ ws[3] \in Int
  BY TripleElement
<1>2. /\ i[1] \in 0 .. ws[1] - 1 /\ i[2] \in 0 .. ws[2] - 1 /\ i[3] \in 0 .. ws[3] - 1
      /\ i = <<i[1], i[2], i[3]>>
      /\ j[1] \in 0 .. ws[1] - 1 /\ j[2] \in 0 .. ws[2] - 1 /\ j[3] \in 0 .. ws[3] - 1
      /\ j = <<j[1], j[2], j[3]>>
  BY BoxElement
<1>3. j = i <=> j[1] = i[1] /\ j[2] = i[2] /\ j[3] = i[3]
  BY <1>2
<1> QED BY <1>1, <1>2, <1>3 DEF Before, IsLast

-----------------------------------------------------------------------------
(* Types. *)

LEMMA Units == CU \in SUBSET Int /\ Nobody \notin CU /\ Control \notin CU /\ Control # Nobody
BY NumCUAssumption DEF CU, Nobody, Control

LEMMA RotateType ==
  ASSUME free_cu_array \in Seq(CU), free_cu_array # <<>>, Rotate
  PROVE  /\ free_cu_array' \in Seq(CU)
         /\ Len(free_cu_array') = Len(free_cu_array)
         /\ Head(free_cu_array) \in CU
         /\ \A n \in 1 .. Len(free_cu_array) :
              free_cu_array'[n] = IF n < Len(free_cu_array)
                                    THEN free_cu_array[n + 1] ELSE Head(free_cu_array)
<1>1. /\ Head(free_cu_array) = free_cu_array[1]
      /\ Head(free_cu_array) \in CU
      /\ Tail(free_cu_array) \in Seq(CU)
      /\ Len(free_cu_array) \in Nat \ {0}
      /\ Len(Tail(free_cu_array)) = Len(free_cu_array) - 1
      /\ \A n \in 1 .. Len(free_cu_array) - 1 : Tail(free_cu_array)[n] = free_cu_array[n + 1]
  BY HeadTailProperties, LenProperties, EmptySeq
<1> DEFINE t == Tail(free_cu_array)
<1>2. Append(t, Head(free_cu_array)) \in Seq(CU)
  BY <1>1, AppendProperties
<1>3. Len(Append(t, Head(free_cu_array))) = Len(t) + 1
  BY <1>1, AppendProperties
<1>4. \A n \in 1 .. Len(t) : Append(t, Head(free_cu_array))[n] = t[n]
  BY <1>1, AppendProperties
<1>5. Append(t, Head(free_cu_array))[Len(t) + 1] = Head(free_cu_array)
  BY <1>1, AppendProperties
<1> HIDE DEF t
<1>6. free_cu_array' = Append(t, Head(free_cu_array))
  BY DEF Rotate, t
<1>7. Len(t) + 1 = Len(free_cu_array) /\ Len(free_cu_array) \in Nat \ {0}
  BY <1>1 DEF t
<1>8. \A n \in 1 .. Len(t) : t[n] = free_cu_array[n + 1]
  BY <1>1 DEF t
<1>9. free_cu_array' \in Seq(CU) /\ Head(free_cu_array) \in CU
  BY <1>1, <1>2, <1>6
<1>10. Len(free_cu_array') = Len(free_cu_array)
  BY <1>3, <1>6, <1>7
<1>11. ASSUME NEW n \in 1 .. Len(free_cu_array)
       PROVE  free_cu_array'[n] = IF n < Len(free_cu_array)
                                    THEN free_cu_array[n + 1] ELSE Head(free_cu_array)
  <2>1. CASE n < Len(free_cu_array)
    <3>1. n \in 1 .. Len(t)
      BY <2>1, <1>7, LenProperties, <1>1 DEF t
    <3> QED BY <2>1, <3>1, <1>4, <1>6, <1>8
  <2>2. CASE n = Len(free_cu_array)
    BY <2>2, <1>5, <1>6, <1>7
  <2> QED BY <2>1, <2>2, <1>7
<1> QED BY <1>9, <1>10, <1>11

LEMMA TypeInit == Init => TypeOK
<1> SUFFICES ASSUME Init PROVE TypeOK
  OBVIOUS
<1>1. free_cu_array \in Seq(CU)
  <2>1. free_cu_array \in [1 .. NumCU -> CU]
    BY NumCUAssumption DEF Init, CU
  <2> QED BY <2>1, NumCUAssumption, SeqDef
<1>2. First \in Triple /\ <<0, 0, 0>> \in Triple
  BY DEF First, Triple
<1> QED BY <1>1, <1>2, Units, NumCUAssumption
     DEF Init, TypeOK, ControlPc, UnitPc, Nobody

LEMMA TypeStep == TypeOK /\ [Next]_vars => TypeOK'
<1> SUFFICES ASSUME TypeOK, [Next]_vars PROVE TypeOK'
  OBVIOUS
<1> USE Units DEF TypeOK
<1> USE DEF ControlPc, UnitPc
<1>1. ASSUME NEW k \in Kernels, LoadKernel(k) PROVE TypeOK'
  BY <1>1 DEF LoadKernel, controlVars, unitVars
<1>2. ASSUME NEW ws \in WorkSizes, AddWork(ws) PROVE TypeOK'
  BY <1>2, WorkSizesAssumption, NumCUAssumption DEF AddWork, unitVars
<1>3. CASE SetKernel
  <2>1. /\ free_cu_array' \in Seq(CU) /\ Head(free_cu_array) \in CU
    BY <1>3, RotateType DEF SetKernel
  <2>2. PICK k \in DlopenImages(Head(free_cu_array)) :
          dlHandle' = [dlHandle EXCEPT ![Head(free_cu_array)] = k]
    BY <1>3 DEF SetKernel
  <2>3. k \in Kernels \cup {None}
    <3>1. Resident(Head(free_cu_array)) \subseteq Kernels \cup {None}
      BY DEF Resident
    <3> QED BY <2>2, <3>1 DEF DlopenImages
  <2>4. dlHandle' \in [CU -> Kernels \cup {None}]
    BY <2>1, <2>2, <2>3
  <2>5. counter' \in 0 .. NumCU
    BY <1>3, NumCUAssumption DEF SetKernel, RotationDone
  <2> QED BY <1>3, <2>1, <2>4, <2>5 DEF SetKernel, unitVars
<1>4. CASE SetKernelExit
  BY <1>4 DEF SetKernelExit, unitVars
<1>5. CASE SetKernelDone
  <2>1. First \in Triple
    BY DEF First, Triple
  <2> QED BY <1>5, <2>1 DEF SetKernelDone, StartLoops, unitVars
<1>6. CASE DispatchLock
  BY <1>6 DEF DispatchLock, Acquire, unitVars
<1>7. CASE PopFree
  <2>1. Head(free_cu_array) \in CU /\ Tail(free_cu_array) \in Seq(CU)
    BY <1>7, HeadTailProperties DEF PopFree
  <2> QED BY <1>7, <2>1 DEF PopFree, unitVars
<1>8. CASE NoneFree
  BY <1>8 DEF NoneFree, unitVars
<1>9. CASE RunKernelCoords
  BY <1>9 DEF RunKernelCoords
<1>10. CASE RunKernelSignal
  <2>1. cursor' \in Triple
    BY <1>10, TripleElement DEF RunKernelSignal, Advance, Triple
  <2>2. cuPc' \in [CU -> UnitPc]
    BY <1>10 DEF RunKernelSignal, Signalled
  <2>3. pc' \in {"lock", "drain"} /\ threadAllocated' \in [CU -> BOOLEAN] /\ free_cu' = Nobody
    BY <1>10 DEF RunKernelSignal
  <2> QED BY <1>10, <2>1, <2>2, <2>3 DEF RunKernelSignal
<1>11. CASE DrainLock
  BY <1>11 DEF DrainLock, Acquire, unitVars
<1>12. CASE DrainWait
  BY <1>12 DEF DrainWait, unitVars
<1>13. CASE DrainDone
  BY <1>13, NumCUAssumption DEF DrainDone, unitVars
<1>14. CASE UnsetKernel
  <2>1. /\ free_cu_array' \in Seq(CU) /\ Head(free_cu_array) \in CU
    BY <1>14, RotateType DEF UnsetKernel
  <2>2. counter' \in 0 .. NumCU
    BY <1>14, NumCUAssumption DEF UnsetKernel, RotationDone
  <2> QED BY <1>14, <2>1, <2>2 DEF UnsetKernel, unitVars
<1>15. CASE AddWorkReturn
  BY <1>15 DEF AddWorkReturn, unitVars
<1>16. ASSUME NEW c \in CU, UnitStep(c) \/ SpuriousWakeup(c) PROVE TypeOK'
  <2>1. CASE CheckAllocated(c)
    BY <2>1 DEF CheckAllocated, Goto, controlVars
  <2>2. CASE SpuriousWakeup(c)
    BY <2>2 DEF SpuriousWakeup, Goto, controlVars
  <2>3. CASE CallKernel(c)
    <3>1. calls' \in [Box(globalWS) -> Nat]
      <4>1. \A i \in Box(globalWS) : calls[i] + 1 \in Nat
        OBVIOUS
      <4> QED BY <2>3, <4>1 DEF CallKernel
    <3> QED BY <2>3, <3>1 DEF CallKernel, Goto, controlVars
  <2>4. CASE ReturnKernel(c)
    BY <2>4 DEF ReturnKernel, Goto, controlVars
  <2>5. CASE ClearAllocated(c)
    BY <2>5 DEF ClearAllocated, Goto, controlVars
  <2>6. CASE CUDoneLock(c)
    BY <2>6 DEF CUDoneLock, Goto, controlVars
  <2>7. CASE CUDonePush(c)
    BY <2>7, AppendProperties DEF CUDonePush, Goto, controlVars
  <2> QED BY <1>16, <2>1, <2>2, <2>3, <2>4, <2>5, <2>6, <2>7 DEF UnitStep
<1>17. CASE UNCHANGED vars
  BY <1>17 DEF vars, controlVars, unitVars
<1> QED BY <1>1, <1>2, <1>3, <1>4, <1>5, <1>6, <1>7, <1>8, <1>9, <1>10, <1>11,
           <1>12, <1>13, <1>14, <1>15, <1>16, <1>17 DEF Next, ControlStep

(* The typing of the scheduler's state is invariant. *)
THEOREM TypeCorrect == Spec => []TypeOK
BY TypeInit, TypeStep, PTL DEF Spec

-----------------------------------------------------------------------------
(* The queue. *)

(* A free queue of NumCU different units holds every unit. *)
LEMMA FullQueue ==
  ASSUME free_cu_array \in Seq(CU), Len(free_cu_array) = NumCU,
         \A m, n \in 1 .. Len(free_cu_array) :
           free_cu_array[m] = free_cu_array[n] => m = n
  PROVE  \A c \in CU : Queued(c)
<1> DEFINE S == 1 .. NumCU
<1>1. free_cu_array \in [S -> CU]
  BY LenProperties
<1>2. IsFiniteSet(S) /\ Cardinality(S) = NumCU
  BY FS_Interval, NumCUAssumption
<1>3. IsFiniteSet(CU) /\ Cardinality(CU) = NumCU
  BY FS_Interval, NumCUAssumption DEF CU
<1>4. free_cu_array \in Injection(S, CU)
  BY <1>1 DEF Injection, IsInjective
<1>5. free_cu_array \in Surjection(S, CU)
  BY <1>1, <1>2, <1>3, <1>4, FS_Injection
<1> QED BY <1>5 DEF Surjection, Queued

(* While the rotations run, between launches and after exit, every unit's  *)
(* thread sleeps or is about to.                                           *)
LEMMA AllQueued ==
  ASSUME IInv, pc \in {"idle", "set", "unset", "exited"}
  PROVE  \A c \in CU : Queued(c) /\ ~Busy(c)
BY FullQueue DEF IInv, TypeOK, QueueInv

LEMMA LockStep == IInv /\ [Next]_vars => LockInv'
<1> SUFFICES ASSUME IInv, [Next]_vars PROVE LockInv'
  OBVIOUS
<1> USE Units DEF IInv, TypeOK, LockInv, Nobody, Control
<1>1. ASSUME NEW k \in Kernels, LoadKernel(k) PROVE LockInv'
  BY <1>1 DEF LoadKernel, controlVars, unitVars
<1>2. ASSUME NEW ws \in WorkSizes, AddWork(ws) PROVE LockInv'
  BY <1>2 DEF AddWork, unitVars
<1>3. CASE ControlStep
  BY <1>3 DEF ControlStep, SetKernel, SetKernelExit, SetKernelDone, StartLoops, DispatchLock,
     DrainLock, Acquire, PopFree, NoneFree, RunKernelCoords, DrainWait, DrainDone,
     UnsetKernel, AddWorkReturn, unitVars, RunKernelSignal, Signalled
<1>4. ASSUME NEW c \in CU, UnitStep(c) \/ SpuriousWakeup(c) PROVE LockInv'
  BY <1>4 DEF UnitStep, SpuriousWakeup, CheckAllocated, CallKernel, ReturnKernel,
     ClearAllocated, CUDoneLock, CUDonePush, Goto, controlVars
<1>5. CASE UNCHANGED vars
  BY <1>5 DEF vars, controlVars, unitVars
<1> QED BY <1>1, <1>2, <1>3, <1>4, <1>5 DEF Next

LEMMA UnitStepInv == IInv /\ [Next]_vars => UnitInv'
<1> SUFFICES ASSUME IInv, [Next]_vars PROVE UnitInv'
  OBVIOUS
<1> USE DEF IInv, TypeOK, UnitInv
<1>1. CASE UNCHANGED unitVars
  BY <1>1 DEF unitVars
<1>2. CASE RunKernelCoords
  BY <1>2 DEF RunKernelCoords
<1>3. CASE RunKernelSignal
  <2>1. free_cu \in CU /\ ~Busy(free_cu)
    BY <1>3 DEF RunKernelSignal, QueueInv, Held
  <2>2. cuPc[free_cu] \in {"check", "waiting"}
    BY <2>1 DEF Busy, UnitPc
  <2> QED BY <1>3, <2>1, <2>2 DEF RunKernelSignal, Signalled
<1>4. ASSUME NEW c \in CU, UnitStep(c) \/ SpuriousWakeup(c) PROVE UnitInv'
  BY <1>4 DEF UnitStep, SpuriousWakeup, CheckAllocated, CallKernel, ReturnKernel,
     ClearAllocated, CUDoneLock, CUDonePush, Goto
<1>5. [Next]_vars => \/ UNCHANGED unitVars \/ RunKernelCoords \/ RunKernelSignal
                     \/ \E c \in CU : UnitStep(c) \/ SpuriousWakeup(c)
  BY DEF Next, vars, ControlStep, LoadKernel, AddWork, SetKernel, SetKernelExit, SetKernelDone,
     DispatchLock, DrainLock, Acquire, PopFree, NoneFree, DrainWait, DrainDone,
     UnsetKernel, AddWorkReturn
<1> QED BY <1>1, <1>2, <1>3, <1>4, <1>5

(* A rotation by one keeps the units in the queue and their number. *)
LEMMA RotateQueue ==
  ASSUME free_cu_array \in Seq(CU), free_cu_array # <<>>, Rotate,
         \A m, n \in 1 .. Len(free_cu_array) :
           free_cu_array[m] = free_cu_array[n] => m = n
  PROVE  /\ \A m, n \in 1 .. Len(free_cu_array') :
              free_cu_array'[m] = free_cu_array'[n] => m = n
         /\ \A c \in CU : Queued(c)' <=> Queued(c)
<1> DEFINE L == Len(free_cu_array)
<1> DEFINE from(n) == IF n < L THEN n + 1 ELSE 1
<1>1. L \in Nat \ {0} /\ Len(free_cu_array') = L
  BY RotateType, LenProperties, EmptySeq
<1>2. \A n \in 1 .. L : from(n) \in 1 .. L /\ free_cu_array'[n] = free_cu_array[from(n)]
  <2>1. Head(free_cu_array) = free_cu_array[1]
    BY HeadTailProperties
  <2> QED BY <1>1, <2>1, RotateType
<1>3. \A m, n \in 1 .. L : from(m) = from(n) => m = n
  BY <1>1
<1>4. \A n \in 1 .. L : \E m \in 1 .. L : from(m) = n
  <2> TAKE n \in 1 .. L
  <2>1. CASE n = 1
    <3> WITNESS L \in 1 .. L
    <3> QED BY <1>1, <2>1
  <2>2. CASE n # 1
    <3>1. n - 1 \in 1 .. L
      BY <1>1, <2>2
    <3> WITNESS n - 1 \in 1 .. L
    <3> QED BY <1>1, <2>2
  <2> QED BY <2>1, <2>2
<1> HIDE DEF from, L
<1>5. \A m, n \in 1 .. L : free_cu_array'[m] = free_cu_array'[n] => m = n
  BY <1>2, <1>3 DEF L
<1>6. ASSUME NEW c \in CU PROVE Queued(c)' <=> Queued(c)
  BY <1>1, <1>2, <1>4 DEF Queued, L
<1> QED BY <1>1, <1>5, <1>6

LEMMA QueueStep == IInv /\ [Next]_vars => QueueInv'
<1> SUFFICES ASSUME IInv, [Next]_vars PROVE QueueInv'
  OBVIOUS
<1> USE DEF IInv, TypeOK, QueueInv
<1>1. ASSUME NEW k \in Kernels, LoadKernel(k) PROVE QueueInv'
  BY <1>1 DEF LoadKernel, controlVars, unitVars, Queued, Held, Busy
<1>2. ASSUME NEW ws \in WorkSizes, AddWork(ws) PROVE QueueInv'
  BY <1>2 DEF AddWork, unitVars, Queued, Held, Busy
<1>3. CASE SetKernel \/ UnsetKernel
  <2>1. Rotate /\ free_cu_array # <<>> /\ pc \in {"set", "unset"}
        /\ UNCHANGED <<pc, free_cu, unitVars>>
    BY <1>3 DEF SetKernel, UnsetKernel
  <2>2. Len(free_cu_array') = Len(free_cu_array)
    BY <2>1, RotateType
  <2>3. \A c \in CU : (Held(c)' <=> Held(c)) /\ (Busy(c)' <=> Busy(c))
    BY <2>1 DEF Held, Busy, unitVars
  <2>4. /\ \A m, n \in 1 .. Len(free_cu_array') :
             free_cu_array'[m] = free_cu_array'[n] => m = n
        /\ \A c \in CU : Queued(c)' <=> Queued(c)
    BY <2>1, RotateQueue
  <2> QED BY <2>1, <2>2, <2>3, <2>4
<1>4. CASE SetKernelExit \/ SetKernelDone \/ DispatchLock \/ DrainLock \/ NoneFree
           \/ DrainWait \/ AddWorkReturn
  BY <1>4 DEF SetKernelExit, SetKernelDone, StartLoops, DispatchLock, DrainLock, Acquire,
     NoneFree, DrainWait, AddWorkReturn, unitVars, Queued, Held, Busy
<1>5. CASE DrainDone
  BY <1>5 DEF DrainDone, PoolIsWhole, unitVars, Queued, Held, Busy
<1>6. CASE PopFree
  <2>1. /\ Head(free_cu_array) = free_cu_array[1]
        /\ Head(free_cu_array) \in CU
        /\ Len(free_cu_array) \in Nat \ {0}
        /\ Len(free_cu_array') = Len(free_cu_array) - 1
        /\ \A n \in 1 .. Len(free_cu_array) - 1 : free_cu_array'[n] = free_cu_array[n + 1]
    BY <1>6, HeadTailProperties, LenProperties, EmptySeq DEF PopFree
  <2>2. \A c \in CU : Queued(c)' <=> Queued(c) /\ c # free_cu'
    <3> SUFFICES ASSUME NEW c \in CU PROVE Queued(c)' <=> Queued(c) /\ c # free_cu'
      OBVIOUS
    <3>1. free_cu' = free_cu_array[1]
      BY <1>6, <2>1 DEF PopFree
    <3>2. ASSUME Queued(c)' PROVE Queued(c) /\ c # free_cu'
      <4>1. PICK n \in 1 .. Len(free_cu_array') : free_cu_array'[n] = c
        BY <3>2 DEF Queued
      <4>2. n + 1 \in 1 .. Len(free_cu_array) /\ free_cu_array[n + 1] = c /\ n + 1 # 1
        BY <4>1, <2>1
      <4>3. 1 \in 1 .. Len(free_cu_array)
        BY <2>1
      <4> QED BY <4>2, <4>3, <3>1 DEF Queued
    <3>3. ASSUME Queued(c), c # free_cu' PROVE Queued(c)'
      <4>1. PICK n \in 1 .. Len(free_cu_array) : free_cu_array[n] = c
        BY <3>3 DEF Queued
      <4>2. n - 1 \in 1 .. Len(free_cu_array') /\ free_cu_array'[n - 1] = c
        BY <4>1, <3>1, <3>3, <2>1
      <4> QED BY <4>2 DEF Queued
    <3> QED BY <3>2, <3>3
  <2>3. Queued(free_cu')
    <3>1. free_cu' = free_cu_array[1] /\ 1 \in 1 .. Len(free_cu_array)
      BY <1>6, <2>1 DEF PopFree
    <3> QED BY <3>1 DEF Queued
  <2>4. \A m, n \in 1 .. Len(free_cu_array') : free_cu_array'[m] = free_cu_array'[n] => m = n
    <3> SUFFICES ASSUME NEW m \in 1 .. Len(free_cu_array'), NEW n \in 1 .. Len(free_cu_array'),
                        free_cu_array'[m] = free_cu_array'[n]
                 PROVE  m = n
      OBVIOUS
    <3>1. m + 1 \in 1 .. Len(free_cu_array) /\ n + 1 \in 1 .. Len(free_cu_array)
      BY <2>1
    <3>2. free_cu_array[m + 1] = free_cu_array[n + 1]
      BY <2>1
    <3>3. m + 1 = n + 1
      BY <3>1, <3>2
    <3> QED BY <3>3, <2>1
  <2>5. /\ \A c \in CU : (Busy(c)' <=> Busy(c)) /\ (Held(c)' <=> c = free_cu') /\ ~Held(c)
        /\ free_cu' \in CU /\ pc' = "coords"
    BY <1>6, <2>1 DEF PopFree, Busy, Held, unitVars
  <2> QED BY <2>2, <2>3, <2>4, <2>5
<1>7. CASE RunKernelCoords
  BY <1>7 DEF RunKernelCoords, Queued, Held, Busy
<1>8. CASE RunKernelSignal
  <2>1. free_cu \in CU /\ Held(free_cu) /\ ~Busy(free_cu) /\ ~Queued(free_cu)
    BY <1>8 DEF RunKernelSignal, Held
  <2>2. cuPc[free_cu] \in {"check", "waiting"}
    BY <2>1 DEF Busy, UnitPc
  <2>3. \A c \in CU : (Queued(c)' <=> Queued(c)) /\ ~Held(c)'
    BY <1>8 DEF RunKernelSignal, Queued, Held
  <2>4. \A c \in CU : Busy(c)' <=> Busy(c) \/ c = free_cu
    BY <1>8, <2>1, <2>2 DEF RunKernelSignal, Signalled, Busy
  <2>5. pc' \in {"lock", "drain"} /\ UNCHANGED free_cu_array
    BY <1>8 DEF RunKernelSignal
  <2>6. \A c \in CU : Held(c) <=> c = free_cu
    BY <1>8, <2>1 DEF RunKernelSignal, Held
  <2> QED BY <2>1, <2>3, <2>4, <2>5, <2>6
<1>9. ASSUME NEW c \in CU, UnitStep(c) \/ SpuriousWakeup(c) PROVE QueueInv'
  <2>1. CASE CheckAllocated(c) \/ SpuriousWakeup(c) \/ CallKernel(c) \/ ReturnKernel(c)
             \/ ClearAllocated(c) \/ CUDoneLock(c)
    <3>1. UNCHANGED <<free_cu_array, pc, free_cu>>
      BY <2>1 DEF CheckAllocated, SpuriousWakeup, CallKernel, ReturnKernel, ClearAllocated,
         CUDoneLock, controlVars
    <3>2. \A d \in CU : Busy(d)' <=> Busy(d)
      BY <2>1 DEF CheckAllocated, SpuriousWakeup, CallKernel, ReturnKernel, ClearAllocated,
         CUDoneLock, Goto, Busy, UnitInv
    <3>3. \A d \in CU : (Queued(d)' <=> Queued(d)) /\ (Held(d)' <=> Held(d))
      BY <3>1 DEF Queued, Held
    <3> QED BY <3>1, <3>2, <3>3
  <2>2. CASE CUDonePush(c)
    <3>1. cuPc[c] = "push" /\ ~threadAllocated[c] /\ Busy(c) /\ ~Queued(c) /\ ~Held(c)
      BY <2>2 DEF CUDonePush, Goto, UnitInv, Busy
    <3>2. /\ Len(free_cu_array) \in Nat
          /\ Len(free_cu_array') = Len(free_cu_array) + 1
          /\ \A n \in 1 .. Len(free_cu_array) : free_cu_array'[n] = free_cu_array[n]
          /\ free_cu_array'[Len(free_cu_array) + 1] = c
      BY <2>2, AppendProperties, LenProperties DEF CUDonePush
    <3>3. UNCHANGED <<pc, free_cu, threadAllocated>> /\ cuPc' = [cuPc EXCEPT ![c] = "check"]
      BY <2>2 DEF CUDonePush, Goto, controlVars
    <3>4. \A d \in CU : (Busy(d)' <=> Busy(d) /\ d # c) /\ (Held(d)' <=> Held(d))
      BY <3>1, <3>3 DEF Busy, Held
    <3>5. \A d \in CU : Queued(d)' <=> Queued(d) \/ d = c
      <4> SUFFICES ASSUME NEW d \in CU PROVE Queued(d)' <=> Queued(d) \/ d = c
        OBVIOUS
      <4>1. ASSUME Queued(d)' PROVE Queued(d) \/ d = c
        BY <4>1, <3>2 DEF Queued
      <4>2. ASSUME Queued(d) PROVE Queued(d)'
        BY <4>2, <3>2 DEF Queued
      <4>3. Queued(c)'
        BY <3>2 DEF Queued
      <4> QED BY <4>1, <4>2, <4>3
    <3>6. \A m, n \in 1 .. Len(free_cu_array') : free_cu_array'[m] = free_cu_array'[n] => m = n
      BY <3>1, <3>2 DEF Queued
    <3>7. pc \notin {"idle", "set", "unset", "exited"}
      BY <3>1, FullQueue
    <3> QED BY <3>1, <3>3, <3>4, <3>5, <3>6, <3>7
  <2> QED BY <1>9, <2>1, <2>2 DEF UnitStep
<1>10. CASE UNCHANGED vars
  BY <1>10 DEF vars, controlVars, unitVars, Queued, Held, Busy
<1> QED BY <1>1, <1>2, <1>3, <1>4, <1>5, <1>6, <1>7, <1>8, <1>9, <1>10 DEF Next, ControlStep

-----------------------------------------------------------------------------
(* The kernel images. *)

(* What dlopen can return while the rotation of set_kernel is under way. *)
LEMMA DlopenFresh ==
  ASSUME IInv, pc = "set", NEW c \in CU, NEW k \in DlopenImages(c)
  PROVE  k = kernelFile
<1>1. \A d \in CU : dlHandle[d] \in {kernelFile, None}
  BY AllQueued DEF IInv, ImageInv, Queued
<1>2. Resident(c) \subseteq {kernelFile}
  BY <1>1 DEF Resident
<1> QED BY <1>2 DEF DlopenImages

(* A rotation by one that gives the unit it moves the image new keeps the  *)
(* last counter positions at new and the others at old.                    *)
LEMMA RotateImages ==
  ASSUME IInv, NEW new, NEW old, free_cu_array # <<>>, Rotate,
         Len(free_cu_array) = NumCU, ~RotationDone,
         \A n \in 1 .. Len(free_cu_array) :
           dlHandle[free_cu_array[n]] = IF n > NumCU - counter THEN new ELSE old,
         dlHandle' = [dlHandle EXCEPT ![Head(free_cu_array)] = new],
         counter' = counter + 1
  PROVE  \A n \in 1 .. Len(free_cu_array') :
           dlHandle'[free_cu_array'[n]] = IF n > NumCU - counter' THEN new ELSE old
<1> USE DEF IInv, TypeOK
<1>1. /\ Len(free_cu_array') = NumCU /\ Head(free_cu_array) \in CU
      /\ \A n \in 1 .. NumCU : free_cu_array'[n] =
            IF n < NumCU THEN free_cu_array[n + 1] ELSE Head(free_cu_array)
  BY RotateType
<1>2. Head(free_cu_array) = free_cu_array[1] /\ NumCU \in Nat \ {0}
  BY HeadTailProperties, NumCUAssumption
<1>3. counter \in 0 .. NumCU - 1
  BY NumCUAssumption DEF RotationDone
<1> SUFFICES ASSUME NEW n \in 1 .. NumCU
             PROVE  dlHandle'[free_cu_array'[n]] = IF n > NumCU - counter' THEN new ELSE old
  BY <1>1
<1>4. CASE n = NumCU
  <2>1. dlHandle'[free_cu_array'[n]] = new
    BY <1>1, <1>4
  <2> QED BY <2>1, <1>2, <1>3, <1>4
<1>5. CASE n < NumCU
  <2>1. n + 1 \in 1 .. NumCU /\ 1 \in 1 .. NumCU /\ n + 1 # 1
    BY <1>5, <1>2
  <2>2. free_cu_array[n + 1] # Head(free_cu_array) /\ free_cu_array[n + 1] \in CU
    BY <2>1, <1>2 DEF QueueInv
  <2>3. dlHandle'[free_cu_array'[n]] = dlHandle[free_cu_array[n + 1]]
    BY <1>1, <1>5, <2>2
  <2>4. dlHandle[free_cu_array[n + 1]] = IF n + 1 > NumCU - counter THEN new ELSE old
    BY <2>1
  <2> QED BY <2>3, <2>4, <1>2, <1>3
<1> QED BY <1>4, <1>5, <1>2

LEMMA ImageStep == IInv /\ [Next]_vars => ImageInv'
<1> SUFFICES ASSUME IInv, [Next]_vars PROVE ImageInv'
  OBVIOUS
<1>0. TypeOK /\ ImageInv /\ QueueInv
  BY DEF IInv
<1>1. ASSUME NEW k \in Kernels, LoadKernel(k) PROVE ImageInv'
  BY <1>0, <1>1 DEF LoadKernel, controlVars, ImageInv
<1>2. ASSUME NEW ws \in WorkSizes, AddWork(ws) PROVE ImageInv'
  <2>1. \A c \in CU : dlHandle[c] = None
    BY <1>0, <1>2 DEF AddWork, ImageInv
  <2>2. \A n \in 1 .. Len(free_cu_array) : dlHandle[free_cu_array[n]] = None
    BY <1>0, <2>1 DEF TypeOK
  <2>3. \A n \in 1 .. Len(free_cu_array) : ~(n > NumCU - 0)
    BY <1>0, <1>2, NumCUAssumption DEF AddWork, QueueInv
  <2>4. UNCHANGED <<free_cu_array, dlHandle, kernelFile>> /\ pc' = "set" /\ counter' = 0
        /\ kernelFile # None
    BY <1>2 DEF AddWork
  <2> QED BY <2>2, <2>3, <2>4 DEF ImageInv
<1>3. CASE SetKernel
  <2>1. pc = "set" /\ free_cu_array # <<>> /\ Rotate /\ ~RotationDone /\ counter' = counter + 1
        /\ UNCHANGED <<pc, kernelFile>> /\ Len(free_cu_array) = NumCU
    BY <1>0, <1>3 DEF SetKernel, QueueInv
  <2>2. Head(free_cu_array) \in CU
    BY <1>0, <2>1, RotateType DEF TypeOK
  <2>3. dlHandle' = [dlHandle EXCEPT ![Head(free_cu_array)] = kernelFile]
    BY <1>3, <2>1, <2>2, DlopenFresh DEF SetKernel
  <2>4. \A n \in 1 .. Len(free_cu_array) :
          dlHandle[free_cu_array[n]] = IF n > NumCU - counter THEN kernelFile ELSE None
    BY <1>0, <2>1 DEF ImageInv
  <2>5. \A n \in 1 .. Len(free_cu_array') :
          dlHandle'[free_cu_array'[n]] = IF n > NumCU - counter' THEN kernelFile ELSE None
    BY <2>1, <2>3, <2>4, RotateImages
  <2> QED BY <1>0, <2>1, <2>5 DEF ImageInv
<1>4. CASE SetKernelExit
  BY <1>4 DEF SetKernelExit, ImageInv
<1>5. CASE SetKernelDone
  <2>1. pc = "set" /\ counter = NumCU /\ pc' \in {"lock", "drain"}
        /\ UNCHANGED <<dlHandle, kernelFile>>
    BY <1>5 DEF SetKernelDone, RotationDone, StartLoops
  <2>2. \A n \in 1 .. Len(free_cu_array) : dlHandle[free_cu_array[n]] = kernelFile
    BY <1>0, <2>1, NumCUAssumption DEF ImageInv, QueueInv
  <2>3. \A c \in CU : dlHandle[c] = kernelFile
    BY <2>1, <2>2, AllQueued DEF Queued
  <2> QED BY <1>0, <2>1, <2>3 DEF ImageInv
<1>6. CASE DispatchLock \/ DrainLock \/ PopFree \/ NoneFree \/ RunKernelCoords
           \/ RunKernelSignal \/ DrainWait
  BY <1>0, <1>6 DEF DispatchLock, DrainLock, Acquire, PopFree, NoneFree, RunKernelCoords,
     RunKernelSignal, DrainWait, ImageInv
<1>7. CASE DrainDone
  <2>1. pc = "size" /\ pc' = "unset" /\ counter' = 0 /\ Len(free_cu_array) = NumCU
        /\ UNCHANGED <<free_cu_array, dlHandle, kernelFile>>
    BY <1>7 DEF DrainDone, PoolIsWhole
  <2>2. \A n \in 1 .. Len(free_cu_array) : dlHandle[free_cu_array[n]] = kernelFile
    BY <1>0, <2>1 DEF ImageInv, TypeOK
  <2> QED BY <1>0, <2>1, <2>2, NumCUAssumption DEF ImageInv
<1>8. CASE UnsetKernel
  <2>1. pc = "unset" /\ free_cu_array # <<>> /\ Rotate /\ ~RotationDone /\ counter' = counter + 1
        /\ UNCHANGED <<pc, kernelFile>> /\ Len(free_cu_array) = NumCU
        /\ dlHandle' = [dlHandle EXCEPT ![Head(free_cu_array)] = None]
    BY <1>0, <1>8 DEF UnsetKernel, QueueInv
  <2>2. \A n \in 1 .. Len(free_cu_array) :
          dlHandle[free_cu_array[n]] = IF n > NumCU - counter THEN None ELSE kernelFile
    BY <1>0, <2>1 DEF ImageInv
  <2>3. \A n \in 1 .. Len(free_cu_array') :
          dlHandle'[free_cu_array'[n]] = IF n > NumCU - counter' THEN None ELSE kernelFile
    BY <2>1, <2>2, RotateImages
  <2> QED BY <1>0, <2>1, <2>3 DEF ImageInv
<1>9. CASE AddWorkReturn
  <2>1. pc = "unset" /\ counter = NumCU /\ pc' = "idle" /\ UNCHANGED dlHandle
    BY <1>9 DEF AddWorkReturn, RotationDone
  <2>2. \A n \in 1 .. Len(free_cu_array) : dlHandle[free_cu_array[n]] = None
    BY <1>0, <2>1, NumCUAssumption DEF ImageInv, QueueInv
  <2>3. \A c \in CU : dlHandle[c] = None
    BY <2>1, <2>2, AllQueued DEF Queued
  <2> QED BY <2>1, <2>3 DEF ImageInv
<1>10. ASSUME NEW c \in CU, UnitStep(c) \/ SpuriousWakeup(c) PROVE ImageInv'
  <2>1. UNCHANGED <<pc, counter, dlHandle, kernelFile>>
    BY <1>10 DEF UnitStep, SpuriousWakeup, CheckAllocated, CallKernel, ReturnKernel,
       ClearAllocated, CUDoneLock, CUDonePush, controlVars
  <2>2. pc \in {"idle", "set", "unset", "exited"} => UNCHANGED free_cu_array
    <3> SUFFICES ASSUME pc \in {"idle", "set", "unset", "exited"} PROVE UNCHANGED free_cu_array
      OBVIOUS
    <3>1. cuPc[c] # "push"
      BY AllQueued DEF Busy
    <3> QED BY <1>10, <3>1 DEF UnitStep, SpuriousWakeup, CheckAllocated, CallKernel, ReturnKernel,
       ClearAllocated, CUDoneLock, CUDonePush, Goto
  <2> QED BY <1>0, <2>1, <2>2 DEF ImageInv
<1>11. CASE UNCHANGED vars
  BY <1>0, <1>11 DEF vars, controlVars, ImageInv
<1> QED BY <1>1, <1>2, <1>3, <1>4, <1>5, <1>6, <1>7, <1>8, <1>9, <1>10, <1>11
     DEF Next, ControlStep

-----------------------------------------------------------------------------
(* The work items. *)

(* A step that changes no unit's part in the work, no count, and hands out *)
(* no item keeps ItemInv.                                                  *)
LEMMA ItemFrame ==
  ASSUME IInv, UNCHANGED <<calls, globalWS>>,
         \A c \in CU : Pending(c)' <=> Pending(c),
         \A c \in CU : cuPc'[c] = "kernel" <=> cuPc[c] = "kernel",
         \A c \in CU : Pending(c) \/ cuPc[c] = "kernel" => coord'[c] = coord[c],
         \A i \in Box(globalWS) : HandedOut(i)' <=> HandedOut(i),
         pc' \in {"lock", "pop", "coords", "signal"} => cursor' \in Box(globalWS),
         pc' = "signal" => coord'[free_cu'] = cursor'
  PROVE  ItemInv'
BY DEF IInv, ItemInv

(* Before is irreflexive. *)
LEMMA NotBeforeSelf == ASSUME NEW i \in Triple PROVE ~Before(i, i)
BY TripleElement DEF Before

LEMMA ItemStep == IInv /\ [Next]_vars => ItemInv'
<1> SUFFICES ASSUME IInv, [Next]_vars PROVE ItemInv'
  OBVIOUS
<1>0. TypeOK /\ UnitInv /\ ItemInv
  BY DEF IInv
<1>1. ASSUME NEW k \in Kernels, LoadKernel(k) PROVE ItemInv'
  BY <1>0, <1>1, ItemFrame DEF LoadKernel, controlVars, unitVars, Pending, HandedOut, ItemInv
<1>2. ASSUME NEW ws \in WorkSizes, AddWork(ws) PROVE ItemInv'
  <2>1. pc = "idle" /\ pc' = "set" /\ globalWS' = ws /\ calls' = [i \in Box(ws) |-> 0]
        /\ UNCHANGED <<cuPc, threadAllocated, coord>>
    BY <1>2 DEF AddWork, unitVars
  <2>2. \A c \in CU : ~Pending(c)' /\ cuPc'[c] # "kernel"
    BY <2>1, AllQueued DEF Pending, Busy
  <2>3. \A i \in Box(globalWS') : calls'[i] = 0 /\ ~HandedOut(i)'
    BY <2>1 DEF HandedOut
  <2> QED BY <2>1, <2>2, <2>3 DEF ItemInv
<1>3. CASE SetKernelDone
  <2>1. pc = "set" /\ UNCHANGED <<globalWS, calls, cuPc, threadAllocated>> /\ cursor' = First
        /\ pc' = IF IsEmpty(globalWS) THEN "drain" ELSE "lock"
    BY <1>3 DEF SetKernelDone, StartLoops, unitVars
  <2>2. \A c \in CU : ~Pending(c)' /\ cuPc'[c] # "kernel"
    BY <2>1, AllQueued DEF Pending, Busy
  <2>3. \A i \in Box(globalWS) : calls[i] = 0
    BY <1>0, <2>1 DEF ItemInv, HandedOut
  <2>4. CASE IsEmpty(globalWS)
    <3>1. Box(globalWS) = {}
      BY <1>0, <2>4, LoopStart DEF TypeOK
    <3> QED BY <2>1, <2>2, <2>4, <3>1 DEF ItemInv
  <2>5. CASE ~IsEmpty(globalWS)
    <3>1. First \in Box(globalWS) /\ \A i \in Box(globalWS) : ~Before(i, First)
      BY <1>0, <2>5, LoopStart DEF TypeOK
    <3>2. \A i \in Box(globalWS) : ~HandedOut(i)'
      BY <2>1, <2>5, <3>1 DEF HandedOut
    <3>3. pc' = "lock"
      BY <2>1, <2>5
    <3> QED BY <2>1, <2>2, <2>3, <3>1, <3>2, <3>3 DEF ItemInv
  <2> QED BY <2>4, <2>5
<1>4. CASE SetKernel \/ SetKernelExit \/ DispatchLock \/ DrainLock \/ PopFree \/ NoneFree
           \/ DrainWait \/ DrainDone \/ UnsetKernel \/ AddWorkReturn
  BY <1>0, <1>4, ItemFrame DEF SetKernel, SetKernelExit, DispatchLock, DrainLock, Acquire, PopFree,
     NoneFree, DrainWait, DrainDone, UnsetKernel, AddWorkReturn, unitVars, Pending, HandedOut, ItemInv
<1>5. CASE RunKernelCoords
  <2>1. pc = "coords" /\ pc' = "signal" /\ coord' = [coord EXCEPT ![free_cu] = cursor]
        /\ UNCHANGED <<calls, globalWS, cursor, free_cu, cuPc, threadAllocated>>
    BY <1>5 DEF RunKernelCoords
  <2>2. free_cu \in CU /\ ~Busy(free_cu)
    BY <2>1 DEF IInv, QueueInv, Held
  <2>3. ~Pending(free_cu) /\ cuPc[free_cu] # "kernel"
    BY <2>2 DEF Busy, Pending
  <2>4. \A c \in CU : Pending(c) \/ cuPc[c] = "kernel" => coord'[c] = coord[c]
    BY <1>0, <2>1, <2>3 DEF TypeOK
  <2>5. coord'[free_cu] = cursor
    BY <1>0, <2>1, <2>2 DEF TypeOK
  <2>6. cursor \in Box(globalWS)
    BY <1>0, <2>1 DEF ItemInv
  <2> QED BY <2>1, <2>4, <2>5, <2>6, ItemFrame DEF Pending, HandedOut
<1>6. CASE RunKernelSignal
  <2>1. pc = "signal" /\ UNCHANGED <<calls, globalWS, coord>>
        /\ threadAllocated' = [threadAllocated EXCEPT ![free_cu] = TRUE]
        /\ cuPc' = [cuPc EXCEPT ![free_cu] = Signalled(@)]
    BY <1>6 DEF RunKernelSignal
  <2>2. PICK u \in CU : u = free_cu /\ ~Busy(u)
    BY <2>1 DEF IInv, QueueInv, Held
  <2>3. /\ ~Pending(u) /\ cuPc[u] # "kernel"
        /\ Pending(u)' /\ cuPc'[u] # "kernel"
    BY <1>0, <2>1, <2>2 DEF Busy, Pending, TypeOK, UnitPc, Signalled
  <2>4. \A c \in CU \ {u} : (Pending(c)' <=> Pending(c)) /\ cuPc'[c] = cuPc[c]
    BY <1>0, <2>1, <2>2 DEF TypeOK, Pending
  <2>5. cursor \in Box(globalWS) /\ coord[u] = cursor /\ ~HandedOut(cursor)
    BY <1>0, <2>1, <2>2, NotBeforeSelf DEF ItemInv, HandedOut, TypeOK
  <2>6. \A i \in Box(globalWS) : HandedOut(i)' <=> HandedOut(i) \/ i = cursor
    <3>1. CASE IsLast(cursor, globalWS)
      <4>1. pc' = "drain"
        BY <1>6, <3>1 DEF RunKernelSignal
      <4>2. \A i \in Box(globalWS) : Before(i, cursor) \/ i = cursor
        BY <1>0, <2>5, <3>1, LoopEnd DEF TypeOK
      <4> QED BY <2>1, <4>1, <4>2 DEF HandedOut
    <3>2. CASE ~IsLast(cursor, globalWS)
      <4>1. pc' = "lock" /\ cursor' = Advance(cursor, globalWS)
        BY <1>6, <3>2 DEF RunKernelSignal
      <4>2. \A i \in Box(globalWS) :
              Before(i, Advance(cursor, globalWS)) <=> Before(i, cursor) \/ i = cursor
        BY <1>0, <2>5, <3>2, LoopStep DEF TypeOK
      <4> QED BY <2>1, <4>1, <4>2 DEF HandedOut
    <3> QED BY <3>1, <3>2
  <2>7. pc' \in {"lock", "drain"} /\ (pc' = "lock" => cursor' \in Box(globalWS))
    BY <1>0, <1>6, <2>5, LoopStep DEF RunKernelSignal, TypeOK
  <2>8. \A c \in CU : Pending(c)' =>
          coord[c] \in Box(globalWS) /\ HandedOut(coord[c])' /\ calls[coord[c]] = 0
    BY <1>0, <2>1, <2>3, <2>4, <2>5, <2>6 DEF ItemInv
  <2>9. \A c \in CU : cuPc'[c] = "kernel" =>
          coord[c] \in Box(globalWS) /\ HandedOut(coord[c])' /\ calls[coord[c]] = 1
    BY <1>0, <2>1, <2>3, <2>4, <2>6 DEF ItemInv
  <2>10. \A c, d \in CU :
           \/ Pending(c)' /\ Pending(d)'
           \/ cuPc'[c] = "kernel" /\ cuPc'[d] = "kernel"
           => (coord[c] = coord[d] => c = d)
    BY <1>0, <2>3, <2>4, <2>5 DEF ItemInv
  <2>11. \A i \in Box(globalWS) : calls[i] \in {0, 1} /\ (~HandedOut(i)' => calls[i] = 0)
    BY <1>0, <2>6 DEF ItemInv
  <2>12. \A i \in Box(globalWS) : HandedOut(i)' /\ calls[i] = 0 =>
           \E c \in CU : Pending(c)' /\ coord[c] = i
    <3> SUFFICES ASSUME NEW i \in Box(globalWS), HandedOut(i)', calls[i] = 0
                 PROVE  \E c \in CU : Pending(c)' /\ coord[c] = i
      OBVIOUS
    <3>1. CASE i = cursor
      BY <2>2, <2>3, <2>5, <3>1
    <3>2. CASE i # cursor
      <4>1. PICK c \in CU : Pending(c) /\ coord[c] = i
        BY <1>0, <2>6, <3>2 DEF ItemInv
      <4> QED BY <4>1, <2>3, <2>4
    <3> QED BY <3>1, <3>2
  <2> QED BY <2>1, <2>7, <2>8, <2>9, <2>10, <2>11, <2>12 DEF ItemInv
<1>7. ASSUME NEW c \in CU, UnitStep(c) \/ SpuriousWakeup(c) PROVE ItemInv'
  <2>1. UNCHANGED <<pc, cursor, globalWS, coord, free_cu>>
    BY <1>7 DEF UnitStep, SpuriousWakeup, CheckAllocated, CallKernel, ReturnKernel,
       ClearAllocated, CUDoneLock, CUDonePush, controlVars
  <2>2. \A i : HandedOut(i)' <=> HandedOut(i)
    BY <2>1 DEF HandedOut
  <2>3. CASE CheckAllocated(c) \/ SpuriousWakeup(c) \/ ClearAllocated(c) \/ CUDoneLock(c)
             \/ CUDonePush(c)
    <3>1. /\ \A d \in CU : Pending(d)' <=> Pending(d)
          /\ \A d \in CU : cuPc'[d] = "kernel" <=> cuPc[d] = "kernel"
          /\ UNCHANGED calls
      BY <1>0, <2>3 DEF CheckAllocated, SpuriousWakeup, ClearAllocated, CUDoneLock, CUDonePush,
         Goto, Pending, UnitInv, TypeOK
    <3> QED BY <1>0, <2>1, <2>2, <3>1, ItemFrame DEF ItemInv
  <2>4. CASE CallKernel(c)
    <3>1. cuPc[c] = "call" /\ cuPc' = [cuPc EXCEPT ![c] = "kernel"] /\ UNCHANGED threadAllocated
          /\ calls' = [calls EXCEPT ![coord[c]] = @ + 1]
      BY <2>4 DEF CallKernel, Goto
    <3>2. Pending(c)
      BY <1>0, <3>1 DEF UnitInv, Pending
    <3>3. coord[c] \in Box(globalWS) /\ HandedOut(coord[c]) /\ calls[coord[c]] = 0
      BY <1>0, <3>2 DEF ItemInv
    <3>4. \A i \in Box(globalWS) : calls'[i] = IF i = coord[c] THEN 1 ELSE calls[i]
      BY <1>0, <3>1, <3>3 DEF TypeOK
    <3>5. ~Pending(c)' /\ cuPc'[c] = "kernel"
      BY <1>0, <3>1 DEF Pending, TypeOK
    <3>6. \A d \in CU \ {c} : (Pending(d)' <=> Pending(d)) /\ cuPc'[d] = cuPc[d]
      BY <1>0, <3>1 DEF Pending, TypeOK
    <3>7. \A d \in CU \ {c} : Pending(d) \/ cuPc[d] = "kernel" => coord[d] # coord[c]
      BY <1>0, <3>2, <3>3 DEF ItemInv
    <3>8. \A d \in CU : Pending(d)' =>
            coord[d] \in Box(globalWS) /\ HandedOut(coord[d])' /\ calls'[coord[d]] = 0
      BY <1>0, <2>1, <2>2, <3>4, <3>5, <3>6, <3>7 DEF ItemInv
    <3>9. \A d \in CU : cuPc'[d] = "kernel" =>
            coord[d] \in Box(globalWS) /\ HandedOut(coord[d])' /\ calls'[coord[d]] = 1
      BY <1>0, <2>1, <2>2, <3>3, <3>4, <3>6, <3>7 DEF ItemInv
    <3>10. \A d, e \in CU :
             \/ Pending(d)' /\ Pending(e)'
             \/ cuPc'[d] = "kernel" /\ cuPc'[e] = "kernel"
             => (coord[d] = coord[e] => d = e)
      BY <1>0, <3>5, <3>6, <3>7 DEF ItemInv
    <3>11. \A i \in Box(globalWS) : calls'[i] \in {0, 1} /\ (~HandedOut(i)' => calls'[i] = 0)
      BY <1>0, <2>2, <3>3, <3>4 DEF ItemInv
    <3>12. \A i \in Box(globalWS) : HandedOut(i)' /\ calls'[i] = 0 =>
             \E d \in CU : Pending(d)' /\ coord[d] = i
      <4> SUFFICES ASSUME NEW i \in Box(globalWS), HandedOut(i)', calls'[i] = 0
                   PROVE  \E d \in CU : Pending(d)' /\ coord[d] = i
        OBVIOUS
      <4>1. i # coord[c] /\ calls[i] = 0 /\ HandedOut(i)
        BY <2>2, <3>4
      <4>2. PICK d \in CU : Pending(d) /\ coord[d] = i
        BY <1>0, <4>1 DEF ItemInv
      <4> QED BY <4>1, <4>2, <3>6
    <3> QED BY <1>0, <2>1, <3>8, <3>9, <3>10, <3>11, <3>12 DEF ItemInv
  <2>5. CASE ReturnKernel(c)
    <3>1. cuPc[c] = "kernel" /\ cuPc' = [cuPc EXCEPT ![c] = "clear"]
          /\ UNCHANGED <<threadAllocated, calls>>
      BY <2>5 DEF ReturnKernel, Goto
    <3>2. \A d \in CU : Pending(d)' <=> Pending(d)
      BY <1>0, <3>1 DEF Pending, TypeOK
    <3>3. \A d \in CU : cuPc'[d] = "kernel" => cuPc[d] = "kernel"
      BY <1>0, <3>1 DEF TypeOK
    <3> QED BY <1>0, <2>1, <2>2, <3>1, <3>2, <3>3 DEF ItemInv
  <2> QED BY <1>7, <2>3, <2>4, <2>5 DEF UnitStep
<1>8. CASE UNCHANGED vars
  BY <1>0, <1>8, ItemFrame DEF vars, controlVars, unitVars, Pending, HandedOut, ItemInv
<1> QED BY <1>1, <1>2, <1>3, <1>4, <1>5, <1>6, <1>7, <1>8 DEF Next, ControlStep

-----------------------------------------------------------------------------
(* The invariants. *)

LEMMA InitInv == Init => IInv
<1> SUFFICES ASSUME Init PROVE IInv
  OBVIOUS
<1>1. TypeOK
  BY TypeInit
<1>2. LockInv /\ UnitInv
  BY Units DEF Init, LockInv, UnitInv
<1>3. \A n \in 1 .. NumCU : free_cu_array[n] = n - 1
  BY DEF Init
<1>4. Len(free_cu_array) = NumCU
  BY NumCUAssumption DEF Init
<1>5. \A c \in CU : Queued(c) /\ ~Held(c) /\ ~Busy(c)
  <2> TAKE c \in CU
  <2>1. c + 1 \in 1 .. NumCU /\ (c + 1) - 1 = c
    BY NumCUAssumption DEF CU
  <2>2. Queued(c)
    BY <2>1, <1>3, <1>4 DEF Queued
  <2> QED BY <2>2 DEF Init, Held, Busy
<1>6. QueueInv
  BY <1>3, <1>4, <1>5, NumCUAssumption DEF Init, QueueInv
<1>7. ImageInv
  BY DEF Init, ImageInv
<1>8. Box(globalWS) = {}
  BY <1>1, LoopStart DEF Init, TypeOK, IsEmpty
<1>9. ItemInv
  BY <1>5, <1>8 DEF Init, ItemInv, Pending, Busy
<1> QED BY <1>1, <1>2, <1>6, <1>7, <1>9 DEF IInv

(* The conjunction of typing, lock ownership, pool, images and items is    *)
(* inductive, hence holds in every reachable state.                        *)
THEOREM Invariance == Spec => []IInv
<1>1. IInv /\ [Next]_vars => IInv'
  BY TypeStep, LockStep, UnitStepInv, QueueStep, ImageStep, ItemStep DEF IInv
<1> QED BY InitInv, <1>1, PTL DEF Spec

(* No compute unit is ever lost, duplicated, or in two hands at once. *)
THEOREM PoolIsPartitioned == Spec => []PoolPartition
<1>1. IInv => PoolPartition
  BY DEF IInv, QueueInv, PoolPartition
<1> QED BY <1>1, Invariance, PTL

(* The unlocked rotations of addWork race with no compute unit. *)
THEOREM RotationsAreAlone == Spec => []RotationAlone
<1>1. IInv => RotationAlone
  <2> SUFFICES ASSUME IInv, pc \in {"idle", "set", "unset"}
               PROVE  queue_mx = Nobody /\ \A c \in CU : ~Busy(c)
    BY DEF RotationAlone
  <2>1. \A c \in CU : ~Busy(c)
    BY AllQueued
  <2>2. queue_mx # Control
    BY DEF IInv, LockInv
  <2>3. \A c \in CU : queue_mx # c
    BY <2>1 DEF IInv, LockInv, Busy
  <2> QED BY <2>1, <2>2, <2>3 DEF IInv, TypeOK
<1> QED BY <1>1, Invariance, PTL

(* No work is handed to a sleeping thread without waking it. *)
THEOREM WakeupsAreNotLost == Spec => []NoLostWakeup
<1>1. IInv => NoLostWakeup
  BY DEF IInv, UnitInv, NoLostWakeup
<1> QED BY <1>1, Invariance, PTL

(* c's thread works on an item, or is on its way back to the pool. *)
Working(c) ==
  \/ cuPc[c] \in {"call", "kernel", "clear", "done", "push"}
  \/ cuPc[c] = "check" /\ threadAllocated[c]

(* What addWork waits for where a poll of the pool makes it poll again. *)
PollsWait ==
  /\ pc = "pop" /\ free_cu_array = <<>> => \A c \in CU : Working(c)
  /\ pc = "size" /\ ~PoolIsWhole => \E c \in CU : Working(c)

LEMMA UpToCardinality ==
  ASSUME NEW n \in Nat
  PROVE  IsFiniteSet(1 .. n) /\ Cardinality(1 .. n) = n
<1>1. /\ IsFiniteSet(1 .. n)
      /\ Cardinality(1 .. n) = IF 1 > n THEN 0 ELSE n - 1 + 1
  BY FS_Interval
<1>2. (IF 1 > n THEN 0 ELSE n - 1 + 1) = n
  OBVIOUS
<1> QED BY <1>1, <1>2

LEMMA NotWholePool ==
  ASSUME IInv, ~PoolIsWhole
  PROVE  \E c \in CU : ~Queued(c)
<1> SUFFICES ASSUME \A c \in CU : Queued(c) PROVE FALSE
  OBVIOUS
<1> DEFINE S == 1 .. Len(free_cu_array)
<1>1. Len(free_cu_array) \in Nat /\ free_cu_array \in [S -> CU]
  BY LenProperties DEF IInv, TypeOK
<1>2. IsFiniteSet(S) /\ Cardinality(S) = Len(free_cu_array)
  BY <1>1, UpToCardinality
<1>3. Cardinality(CU) = NumCU
  <2>1. /\ NumCU - 1 \in Int
        /\ Cardinality(CU) = IF 0 > NumCU - 1 THEN 0 ELSE NumCU - 1 - 0 + 1
    BY FS_Interval, NumCUAssumption DEF CU
  <2>2. (IF 0 > NumCU - 1 THEN 0 ELSE NumCU - 1 - 0 + 1) = NumCU
    BY NumCUAssumption
  <2> QED BY <2>1, <2>2
<1>4. free_cu_array \in Injection(S, CU)
  BY <1>1 DEF Injection, IsInjective, IInv, QueueInv
<1>5. free_cu_array \in Surjection(S, CU)
  BY <1>1 DEF Surjection, Queued
<1> HIDE DEF S
<1>6. Cardinality(CU) = Cardinality(S)
  BY <1>2, <1>4, <1>5, FS_Surjection
<1> QED BY <1>2, <1>3, <1>6 DEF PoolIsWhole

(* addWork's two polls never wait for a sleeping thread: when it finds no  *)
(* free unit every unit's thread is working, and when it finds units       *)
(* missing from the pool at the end of a launch one at least is.           *)
THEOREM PollsWaitForWork == Spec => []PollsWait
<1>1. ASSUME IInv, NEW c \in CU, pc \in {"pop", "size"}, ~Queued(c) PROVE Working(c)
  <2>1. Busy(c)
    BY <1>1 DEF IInv, QueueInv, Held
  <2>2. cuPc[c] \in UnitPc /\ (cuPc[c] = "waiting" => ~threadAllocated[c])
    BY <1>1 DEF IInv, TypeOK, UnitInv
  <2> QED BY <2>1, <2>2 DEF Busy, Working, UnitPc
<1>2. ASSUME IInv, pc = "pop", free_cu_array = <<>>, NEW c \in CU PROVE Working(c)
  <2>1. ~Queued(c)
    BY <1>2 DEF Queued
  <2> QED BY <1>1, <1>2, <2>1
<1>3. ASSUME IInv, pc = "size", ~PoolIsWhole PROVE \E c \in CU : Working(c)
  BY <1>1, <1>3, NotWholePool
<1>4. IInv => PollsWait
  BY <1>2, <1>3 DEF PollsWait
<1> QED BY <1>4, Invariance, PTL

(* run_kernel never writes a unit's fields under its running thread. *)
THEOREM CoordsAreUnshared == Spec => []CoordsUnshared
<1>1. IInv => CoordsUnshared
  <2> SUFFICES ASSUME IInv, NEW c \in CU, Held(c)
               PROVE  cuPc[c] \in {"check", "waiting"} /\ ~threadAllocated[c]
    BY DEF CoordsUnshared
  <2>1. ~Busy(c)
    BY DEF IInv, QueueInv
  <2> QED BY <2>1 DEF IInv, TypeOK, Busy, UnitPc
<1> QED BY <1>1, Invariance, PTL

(* Every kernel call executes the image uploaded last. *)
THEOREM ImagesAreFresh == Spec => []FreshImage
<1>1. IInv => FreshImage
  <2> SUFFICES ASSUME IInv PROVE FreshImage
    OBVIOUS
  <2>1. ASSUME NEW c \in CU, cuPc[c] \in {"call", "kernel"} PROVE dlHandle[c] = kernelFile
    <3>1. Busy(c)
      BY <2>1 DEF Busy
    <3>2. pc \in {"lock", "pop", "coords", "signal", "drain", "size"}
      BY <3>1, AllQueued DEF IInv, TypeOK, ControlPc
    <3> QED BY <3>2 DEF IInv, ImageInv
  <2> QED BY <2>1 DEF FreshImage, IInv, ImageInv
<1> QED BY <1>1, Invariance, PTL

-----------------------------------------------------------------------------
(* The refinement. *)

LEMMA SameBox == \A ws : Dispatch!Box(ws) = Box(ws)
BY DEF Dispatch!Box, Box

LEMMA PhaseOf ==
  /\ Phase = "idle" <=> pc = "idle"
  /\ Phase = "exited" <=> pc = "exited"
  /\ Phase = "active" <=> pc \notin {"idle", "exited"}
  /\ Phase' = "idle" <=> pc' = "idle"
  /\ Phase' = "exited" <=> pc' = "exited"
  /\ Phase' = "active" <=> pc' \notin {"idle", "exited"}
BY DEF Phase

LEMMA RefinedInit == Init => Dispatch!Init
BY SameBox DEF Init, Dispatch!Init, Phase, RunningItems

(* What the stuttering steps of the refinement have in common. *)
LEMMA Stutter ==
  ASSUME IInv, UNCHANGED <<globalWS, calls>>,
         Phase' = Phase,
         \A c \in CU : cuPc'[c] = "kernel" <=> cuPc[c] = "kernel",
         \A c \in CU : cuPc[c] = "kernel" => coord'[c] = coord[c]
  PROVE  UNCHANGED Dispatch!vars
<1>1. RunningItems' = RunningItems
  BY DEF RunningItems
<1> QED BY <1>1 DEF Dispatch!vars

LEMMA RefinedStep == IInv /\ [Next]_vars => [Dispatch!Next]_(Dispatch!vars)
<1> SUFFICES ASSUME IInv, [Next]_vars PROVE Dispatch!Next \/ UNCHANGED Dispatch!vars
  OBVIOUS
<1>0. TypeOK /\ UnitInv /\ ItemInv
  BY DEF IInv
<1>1. ASSUME NEW k \in Kernels, LoadKernel(k) PROVE UNCHANGED Dispatch!vars
  BY <1>1, Stutter DEF LoadKernel, controlVars, unitVars, Phase
<1>2. ASSUME NEW ws \in WorkSizes, AddWork(ws) PROVE Dispatch!Next
  <2>1. Phase = "idle" /\ Phase' = "active"
    BY <1>2, PhaseOf DEF AddWork
  <2>2. RunningItems' = RunningItems
    BY <1>2 DEF AddWork, unitVars, RunningItems
  <2>3. Dispatch!Begin(ws)
    BY <1>2, <2>1, <2>2, SameBox DEF AddWork, Dispatch!Begin
  <2> QED BY <2>3 DEF Dispatch!Next
<1>3. CASE SetKernelExit
  <2>1. Phase = "active" /\ Phase' = "exited"
    BY <1>3, PhaseOf DEF SetKernelExit
  <2>2. \A i \in Box(globalWS) : calls[i] = 0
    BY <1>0, <1>3 DEF SetKernelExit, ItemInv, HandedOut
  <2>3. RunningItems' = RunningItems
    BY <1>3 DEF SetKernelExit, unitVars, RunningItems
  <2>4. Dispatch!Exit
    BY <1>3, <2>1, <2>2, <2>3, SameBox DEF SetKernelExit, Dispatch!Exit
  <2> QED BY <2>4 DEF Dispatch!Next
<1>4. CASE AddWorkReturn
  <2>1. Phase = "active" /\ Phase' = "idle"
    BY <1>4, PhaseOf DEF AddWorkReturn
  <2>2. \A c \in CU : ~Pending(c) /\ cuPc[c] # "kernel"
    BY <1>4, AllQueued DEF AddWorkReturn, Pending, Busy
  <2>3. \A i \in Box(globalWS) : calls[i] = 1
    BY <1>0, <1>4, <2>2 DEF AddWorkReturn, ItemInv, HandedOut
  <2>4. RunningItems = {} /\ RunningItems' = {}
    BY <1>4, <2>2 DEF AddWorkReturn, unitVars, RunningItems
  <2>5. Dispatch!Return
    BY <1>4, <2>1, <2>3, <2>4, SameBox DEF AddWorkReturn, Dispatch!Return
  <2> QED BY <2>5 DEF Dispatch!Next
<1>5. CASE SetKernel \/ SetKernelDone \/ DispatchLock \/ DrainLock \/ PopFree \/ NoneFree
           \/ DrainWait \/ DrainDone \/ UnsetKernel
  <2>1. UNCHANGED <<globalWS, calls, cuPc, coord>>
    BY <1>5 DEF SetKernel, SetKernelDone, DispatchLock, DrainLock, Acquire, PopFree, NoneFree,
       DrainWait, DrainDone, UnsetKernel, unitVars
  <2>2. pc \notin {"idle", "exited"} /\ pc' \notin {"idle", "exited"}
    BY <1>5 DEF SetKernel, SetKernelDone, StartLoops, DispatchLock, DrainLock, Acquire, PopFree,
       NoneFree, DrainWait, DrainDone, UnsetKernel
  <2>3. Phase' = Phase
    BY <2>2, PhaseOf
  <2> QED BY <2>1, <2>3, Stutter
<1>6. CASE RunKernelCoords
  <2>1. Held(free_cu) /\ free_cu \in CU
    BY <1>6 DEF RunKernelCoords, Held, IInv, QueueInv
  <2>2. cuPc[free_cu] # "kernel"
    BY <2>1 DEF IInv, QueueInv, Busy
  <2>3. Phase' = Phase
    BY <1>6, PhaseOf DEF RunKernelCoords
  <2> QED BY <1>0, <1>6, <2>2, <2>3, Stutter DEF RunKernelCoords, TypeOK
<1>7. CASE RunKernelSignal
  <2>1. \A c \in CU : cuPc'[c] = "kernel" <=> cuPc[c] = "kernel"
    BY <1>0, <1>7 DEF RunKernelSignal, Signalled, TypeOK
  <2>2. Phase' = Phase
    BY <1>7, PhaseOf DEF RunKernelSignal
  <2> QED BY <1>7, <2>1, <2>2, Stutter DEF RunKernelSignal
<1>8. ASSUME NEW c \in CU, UnitStep(c) \/ SpuriousWakeup(c)
      PROVE  Dispatch!Next \/ UNCHANGED Dispatch!vars
  <2>1. UNCHANGED <<pc, globalWS, coord>> /\ Phase' = Phase
    BY <1>8 DEF UnitStep, SpuriousWakeup, CheckAllocated, CallKernel, ReturnKernel,
       ClearAllocated, CUDoneLock, CUDonePush, controlVars, Phase
  <2>2. CASE CheckAllocated(c) \/ SpuriousWakeup(c) \/ ClearAllocated(c) \/ CUDoneLock(c)
             \/ CUDonePush(c)
    <3>1. UNCHANGED calls /\ \A d \in CU : cuPc'[d] = "kernel" <=> cuPc[d] = "kernel"
      BY <1>0, <2>2 DEF CheckAllocated, SpuriousWakeup, ClearAllocated, CUDoneLock, CUDonePush,
         Goto, TypeOK
    <3> QED BY <2>1, <3>1, Stutter
  <2>3. CASE CallKernel(c)
    <3>1. cuPc[c] = "call" /\ cuPc' = [cuPc EXCEPT ![c] = "kernel"]
          /\ calls' = [calls EXCEPT ![coord[c]] = @ + 1]
      BY <2>3 DEF CallKernel, Goto
    <3>2. Pending(c) /\ Busy(c)
      BY <1>0, <3>1 DEF UnitInv, Pending, Busy
    <3>3. coord[c] \in Box(globalWS) /\ calls[coord[c]] = 0
      BY <1>0, <3>2 DEF ItemInv
    <3>4. Phase = "active"
      BY <3>2, AllQueued, PhaseOf
    <3>5. calls' = [calls EXCEPT ![coord[c]] = 1]
      BY <3>1, <3>3
    <3>6. RunningItems' = RunningItems \cup {coord[c]}
      <4>1. {d \in CU : cuPc'[d] = "kernel"} = {d \in CU : cuPc[d] = "kernel"} \cup {c}
        BY <1>0, <3>1 DEF TypeOK
      <4> QED BY <2>1, <4>1 DEF RunningItems
    <3>7. Dispatch!Call(coord[c])
      BY <2>1, <3>3, <3>4, <3>5, <3>6 DEF Dispatch!Call
    <3> QED BY <3>3, <3>7, SameBox DEF Dispatch!Next
  <2>4. CASE ReturnKernel(c)
    <3>1. cuPc[c] = "kernel" /\ cuPc' = [cuPc EXCEPT ![c] = "clear"] /\ UNCHANGED calls
      BY <2>4 DEF ReturnKernel, Goto
    <3>2. {d \in CU : cuPc'[d] = "kernel"} = {d \in CU : cuPc[d] = "kernel"} \ {c}
      BY <1>0, <3>1 DEF TypeOK
    <3>3. \A d \in CU \ {c} : cuPc[d] = "kernel" => coord[d] # coord[c]
      BY <1>0, <3>1 DEF ItemInv
    <3>4. RunningItems' = RunningItems \ {coord[c]} /\ coord[c] \in RunningItems
      BY <2>1, <3>1, <3>2, <3>3 DEF RunningItems
    <3>5. Dispatch!Complete(coord[c])
      BY <2>1, <3>1, <3>4 DEF Dispatch!Complete
    <3> QED BY <3>4, <3>5 DEF Dispatch!Next
  <2> QED BY <1>8, <2>2, <2>3, <2>4 DEF UnitStep
<1>9. CASE UNCHANGED vars
  BY <1>9, Stutter DEF vars, controlVars, unitVars, Phase
<1> QED BY <1>1, <1>2, <1>3, <1>4, <1>5, <1>6, <1>7, <1>8, <1>9 DEF Next, ControlStep

(* addWork calls the kernel once for every work item, and returns when all *)
(* of these calls have returned, for any pool and any global work size.    *)
THEOREM WorkIsDoneExactlyOnce == Spec => ExactlyOnce
BY RefinedInit, RefinedStep, Invariance, PTL DEF Spec, ExactlyOnce, Dispatch!Spec
=============================================================================
