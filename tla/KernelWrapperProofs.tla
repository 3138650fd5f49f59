------------------------- MODULE KernelWrapperProofs ------------------------
(***************************************************************************)
(* Proofs about KernelWrapper: for any number of compute units and any     *)
(* work sizes, the units that race for the one global[] read positions of  *)
(* their own launch, and where they do not race their own position.  The   *)
(* scheduler's invariant carries the argument: a unit runs a kernel only   *)
(* in a launch, with coordinates of its box, which nobody else touches.    *)
(***************************************************************************)
EXTENDS KernelWrapper, TPSchedulerProofs

-----------------------------------------------------------------------------
(* What the scheduler's invariant says of units in a kernel. *)

InKernel(c) == cuPc[c] = "kernel"
Extent(d) == 0 .. globalWS[d] - 1

(* The wrapper of a unit has begun only in a kernel; a word some running   *)
(* unit has stored, and every word read, is a coordinate of this launch.   *)
WrapperInv ==
  /\ global \in Triple /\ ids \in [CU -> Triple] /\ step \in [CU -> 0 .. 6]
  /\ \A c \in CU : ~InKernel(c) => step[c] = 0
  /\ \A c \in CU, d \in Dim : InKernel(c) /\ step[c] >= d => global[d] \in Extent(d)
  /\ \A c \in CU, d \in Dim : InKernel(c) /\ step[c] >= d + 3 => ids[c][d] \in Extent(d)

LEMMA KernelsInLaunch ==
  ASSUME IInv, NEW c \in CU, InKernel(c)
  PROVE  /\ pc \notin {"idle", "set", "unset"}
         /\ coord[c] \in Triple /\ globalWS \in Triple
         /\ \A d \in Dim : coord[c][d] \in Extent(d) /\ 0 \in Extent(d)
<1>1. coord[c] \in Box(globalWS) /\ globalWS \in Triple
  BY DEF IInv, TypeOK, ItemInv, InKernel
<1>2. Busy(c)
  BY DEF Busy, InKernel
<1>3. pc \notin {"idle", "set", "unset"}
  BY <1>2, AllQueued
<1>4. /\ coord[c][1] \in 0 .. globalWS[1] - 1 /\ coord[c][2] \in 0 .. globalWS[2] - 1
      /\ coord[c][3] \in 0 .. globalWS[3] - 1 /\ coord[c] \in Triple
  BY <1>1, BoxElement
<1>5. globalWS[1] \in Int /\ globalWS[2] \in Int /\ globalWS[3] \in Int
  BY <1>1, TripleElement
<1>6. \A d \in Dim : d = 1 \/ d = 2 \/ d = 3
  BY DEF Dim
<1> QED BY <1>1, <1>3, <1>4, <1>5, <1>6 DEF Extent

LEMMA TripleUpdate ==
  ASSUME NEW t \in Triple, NEW d \in Dim, NEW x \in Int
  PROVE  /\ [t EXCEPT ![d] = x] \in Triple
         /\ [t EXCEPT ![d] = x][d] = x
         /\ \A e \in Dim : e # d => [t EXCEPT ![d] = x][e] = t[e]
<1>1. t = <<t[1], t[2], t[3]>> /\ t[1] \in Int /\ t[2] \in Int /\ t[3] \in Int
  BY TripleElement
<1> QED BY <1>1 DEF Triple, Dim

-----------------------------------------------------------------------------
(* The wrapper adds to the scheduler, and takes nothing away. *)

LEMMA WrapperStep == NextWrapper => Next \/ UNCHANGED vars
<1>1. SetKernelWrapper => Next
  BY DEF SetKernelWrapper, Next, ControlStep
<1>2. OtherStep => Next
  BY DEF OtherStep, Next, ControlStep, UnitStep
<1>3. ASSUME NEW c \in CU PROVE StoreGlobal(c) \/ ReadId(c) => UNCHANGED vars
  BY DEF StoreGlobal, ReadId
<1>4. ASSUME NEW c \in CU PROVE ReturnWrapper(c) => Next
  BY DEF ReturnWrapper, Next, UnitStep
<1> QED BY <1>1, <1>2, <1>3, <1>4 DEF NextWrapper

(* The scheduler's invariant holds of the units with the wrapper. *)
LEMMA SchedulerInvariance == SpecWrapper => []IInv
<1>1. InitWrapper => Init
  BY DEF InitWrapper
<1>2. [NextWrapper]_allVars => [Next]_vars
  BY WrapperStep DEF allVars
<1>3. SpecWrapper => Spec
  BY <1>1, <1>2, PTL DEF SpecWrapper, Spec
<1> QED BY <1>3, Invariance, PTL

-----------------------------------------------------------------------------
(* The steps. *)

LEMMA WrapperInit == InitWrapper => WrapperInv
<1> SUFFICES ASSUME InitWrapper PROVE WrapperInv
  OBVIOUS
<1>1. First \in Triple
  BY DEF First, Triple
<1>2. \A c \in CU : ~InKernel(c)
  BY DEF InitWrapper, Init, InKernel
<1> QED BY <1>1, <1>2 DEF InitWrapper, WrapperInv

(* The scheduler's own steps keep a running kernel running, and change the *)
(* work size only while none runs.                                         *)
LEMMA KernelsKept ==
  ASSUME IInv, SetKernelWrapper \/ OtherStep, NEW c \in CU, InKernel(c)
  PROVE  InKernel(c)' /\ globalWS' = globalWS
<1>1. pc \notin {"idle", "set", "unset"}
  BY KernelsInLaunch
<1>2. cuPc \in [CU -> UnitPc] /\ cuPc[c] = "kernel"
  BY DEF IInv, TypeOK, InKernel
<1>3. ASSUME NEW d \in CU, NEW from, NEW to, Goto(d, from, to), from # "kernel"
      PROVE  InKernel(c)'
  BY <1>2, <1>3 DEF Goto, InKernel
<1>4. OtherStep
  BY <1>1 DEF SetKernelWrapper, SetKernel
<1>5. CASE \/ \E k \in Kernels : LoadKernel(k)
           \/ \E ws \in WorkSizes : AddWork(ws)
           \/ SetKernelExit \/ SetKernelDone \/ UnsetKernel \/ AddWorkReturn
  BY <1>1, <1>5 DEF LoadKernel, AddWork, SetKernelExit, SetKernelDone, UnsetKernel,
                    AddWorkReturn
<1>6. CASE DispatchLock \/ PopFree \/ NoneFree \/ RunKernelCoords
           \/ DrainLock \/ DrainWait \/ DrainDone
  BY <1>2, <1>6 DEF DispatchLock, PopFree, NoneFree, RunKernelCoords, DrainLock, DrainWait,
                    DrainDone, Acquire, unitVars, InKernel
<1>7. CASE RunKernelSignal
  <2>1. cuPc' = [cuPc EXCEPT ![free_cu] = Signalled(@)] /\ globalWS' = globalWS
    BY <1>7 DEF RunKernelSignal
  <2> QED BY <2>1, <1>2 DEF Signalled, InKernel
<1>8. CASE \E d \in CU : \/ CheckAllocated(d) \/ SpuriousWakeup(d) \/ CallKernel(d)
                         \/ ClearAllocated(d) \/ CUDoneLock(d) \/ CUDonePush(d)
  <2> PICK d \in CU : \/ CheckAllocated(d) \/ SpuriousWakeup(d) \/ CallKernel(d)
                      \/ ClearAllocated(d) \/ CUDoneLock(d) \/ CUDonePush(d)
    BY <1>8
  <2>1. globalWS' = globalWS
    BY DEF CheckAllocated, SpuriousWakeup, CallKernel, ClearAllocated, CUDoneLock,
           CUDonePush, controlVars
  <2>2. InKernel(c)'
    <3>1. CASE CheckAllocated(d)
      BY <3>1, <1>3 DEF CheckAllocated
    <3>2. CASE SpuriousWakeup(d)
      BY <3>2, <1>3 DEF SpuriousWakeup
    <3>3. CASE CallKernel(d)
      BY <3>3, <1>3 DEF CallKernel
    <3>4. CASE ClearAllocated(d)
      BY <3>4, <1>3 DEF ClearAllocated
    <3>5. CASE CUDoneLock(d)
      BY <3>5, <1>3 DEF CUDoneLock
    <3>6. CASE CUDonePush(d)
      BY <3>6, <1>3 DEF CUDonePush
    <3> QED BY <3>1, <3>2, <3>3, <3>4, <3>5, <3>6
  <2> QED BY <2>1, <2>2
<1> QED BY <1>4, <1>5, <1>6, <1>7, <1>8 DEF OtherStep

LEMMA WrapperSchedulerStep ==
  IInv /\ WrapperInv /\ (SetKernelWrapper \/ OtherStep) => WrapperInv'
<1> SUFFICES ASSUME IInv, WrapperInv, SetKernelWrapper \/ OtherStep
             PROVE  WrapperInv'
  OBVIOUS
<1>1. step' = step /\ ids' = ids
  BY DEF SetKernelWrapper, OtherStep, wrapperVars
<1>2. First \in Triple
  BY DEF First, Triple
<1>3. global' \in Triple
  BY <1>2 DEF SetKernelWrapper, OtherStep, wrapperVars, WrapperInv
<1>4. ASSUME NEW c \in CU, InKernel(c) PROVE global' = global
  <2>1. pc # "set"
    BY <1>4, KernelsInLaunch
  <2> QED BY <2>1 DEF SetKernelWrapper, SetKernel, OtherStep, wrapperVars
<1>5. ASSUME NEW c \in CU, ~InKernel(c)' PROVE step'[c] = 0
  BY <1>1, <1>5, KernelsKept DEF WrapperInv
<1>6. ASSUME NEW c \in CU, NEW d \in Dim, InKernel(c)', step'[c] >= d
      PROVE  /\ global'[d] \in Extent(d)'
             /\ step'[c] >= d + 3 => ids'[c][d] \in Extent(d)'
  <2>1. InKernel(c)
    BY <1>1, <1>6 DEF WrapperInv, Dim
  <2>2. globalWS' = globalWS /\ global' = global
    BY <2>1, <1>4, KernelsKept
  <2> QED BY <1>1, <1>6, <2>1, <2>2 DEF WrapperInv, Extent
<1>7. ASSUME NEW c \in CU, NEW d \in Dim, step'[c] >= d + 3 PROVE step'[c] >= d
  BY <1>1, <1>7 DEF WrapperInv, Dim
<1> QED BY <1>1, <1>3, <1>5, <1>6, <1>7 DEF WrapperInv

(* A store puts a coordinate of the launch into one word. *)
LEMMA StoreStep ==
  ASSUME IInv, WrapperInv, NEW c \in CU, StoreGlobal(c)
  PROVE  WrapperInv'
<1> DEFINE w == step[c] + 1
<1>1. /\ w \in Dim /\ InKernel(c)
      /\ global' = [global EXCEPT ![w] = coord[c][w]]
      /\ step' = [step EXCEPT ![c] = w] /\ ids' = ids
      /\ cuPc' = cuPc /\ globalWS' = globalWS
  BY DEF StoreGlobal, vars, unitVars, controlVars, InKernel
<1>2. coord[c][w] \in Extent(w)
  BY <1>1, KernelsInLaunch
<1>3. coord[c][w] \in Int
  BY <1>2 DEF Extent
<1>4. /\ global' \in Triple /\ global'[w] = coord[c][w]
      /\ \A e \in Dim : e # w => global'[e] = global[e]
  <2>1. global \in Triple
    BY DEF WrapperInv
  <2> DEFINE g == [global EXCEPT ![w] = coord[c][w]]
  <2>2. w \in Dim /\ coord[c][w] \in Int
    BY <1>1, <1>3
  <2>3. g \in Triple /\ g[w] = coord[c][w] /\ \A e \in Dim : e # w => g[e] = global[e]
    <3> HIDE DEF w
    <3> QED BY <2>1, <2>2, TripleUpdate
  <2>4. global' = g
    BY <1>1
  <2> HIDE DEF g
  <2> QED BY <2>3, <2>4
<1>5. /\ step' \in [CU -> 0 .. 6] /\ step'[c] = w
      /\ \A b \in CU : b # c => step'[b] = step[b]
  BY <1>1 DEF WrapperInv, Dim
<1>6. \A b \in CU : InKernel(b)' <=> InKernel(b)
  BY <1>1 DEF InKernel
<1>7. \A d \in Dim : Extent(d)' = Extent(d)
  BY <1>1 DEF Extent
<1>8. ASSUME NEW b \in CU, NEW d \in Dim, InKernel(b)', step'[b] >= d
      PROVE  global'[d] \in Extent(d)'
  <2>1. CASE d = w
    BY <2>1, <1>2, <1>4, <1>7
  <2>2. CASE d # w
    <3>1. step[b] >= d
      BY <2>2, <1>1, <1>5, <1>8 DEF Dim, WrapperInv
    <3> QED BY <3>1, <2>2, <1>4, <1>6, <1>7, <1>8 DEF WrapperInv
  <2> QED BY <2>1, <2>2
<1>9. ASSUME NEW b \in CU, NEW d \in Dim, InKernel(b)', step'[b] >= d + 3
      PROVE  ids'[b][d] \in Extent(d)'
  <2>1. b # c
    BY <1>1, <1>5, <1>9 DEF Dim
  <2> QED BY <2>1, <1>1, <1>5, <1>6, <1>7, <1>9 DEF WrapperInv
<1>10. \A b \in CU : ~InKernel(b)' => step'[b] = 0
  BY <1>1, <1>5, <1>6 DEF WrapperInv
<1> QED BY <1>1, <1>4, <1>5, <1>8, <1>9, <1>10 DEF WrapperInv

(* get_global_id answers with a word of the launch, or with 0. *)
LEMMA ReadStep ==
  ASSUME IInv, WrapperInv, NEW c \in CU, ReadId(c)
  PROVE  WrapperInv'
<1> DEFINE w == step[c] - 2
           x == get_global_id(w)
<1>1. /\ w \in Dim /\ InKernel(c)
      /\ ids' = [ids EXCEPT ![c][w] = x]
      /\ step' = [step EXCEPT ![c] = @ + 1] /\ global' = global
      /\ cuPc' = cuPc /\ globalWS' = globalWS
  BY DEF ReadId, vars, unitVars, controlVars, InKernel
<1>2. step[c] \in 0 .. 6
  BY DEF WrapperInv
<1>3. x \in Extent(w)
  <2>1. CASE w < 3
    <3>1. step[c] >= w
      BY <1>2
    <3> QED BY <3>1, <2>1, <1>1 DEF get_global_id, WrapperInv
  <2>2. CASE ~(w < 3)
    BY <2>2, <1>1, KernelsInLaunch DEF get_global_id
  <2> QED BY <2>1, <2>2
<1>4. x \in Int
  BY <1>3 DEF Extent
<1> HIDE DEF x
<1>5. /\ ids' = [ids EXCEPT ![c] = [ids[c] EXCEPT ![w] = x]]
      /\ ids[c] \in Triple
  BY <1>1 DEF WrapperInv
<1>6. /\ [ids[c] EXCEPT ![w] = x] \in Triple /\ [ids[c] EXCEPT ![w] = x][w] = x
      /\ \A e \in Dim : e # w => [ids[c] EXCEPT ![w] = x][e] = ids[c][e]
  BY <1>1, <1>4, <1>5, TripleUpdate
<1>7. /\ ids' \in [CU -> Triple]
      /\ ids'[c][w] = x /\ \A e \in Dim : e # w => ids'[c][e] = ids[c][e]
      /\ \A b \in CU : b # c => ids'[b] = ids[b]
  BY <1>5, <1>6 DEF WrapperInv
<1>8. /\ step' \in [CU -> 0 .. 6] /\ step'[c] = w + 3
      /\ \A b \in CU : b # c => step'[b] = step[b]
  BY <1>1, <1>2 DEF WrapperInv, Dim
<1>9. \A b \in CU : InKernel(b)' <=> InKernel(b)
  BY <1>1 DEF InKernel
<1>10. \A d \in Dim : Extent(d)' = Extent(d)
  BY <1>1 DEF Extent
<1>11. ASSUME NEW b \in CU, NEW d \in Dim, InKernel(b)', step'[b] >= d
       PROVE  global'[d] \in Extent(d)'
  <2>1. step[b] >= d
    BY <1>1, <1>2, <1>8, <1>11 DEF Dim
  <2> QED BY <2>1, <1>1, <1>9, <1>10, <1>11 DEF WrapperInv
<1>12. ASSUME NEW b \in CU, NEW d \in Dim, InKernel(b)', step'[b] >= d + 3
       PROVE  ids'[b][d] \in Extent(d)'
  <2>1. CASE b = c /\ d = w
    BY <2>1, <1>3, <1>7, <1>10
  <2>2. CASE ~(b = c /\ d = w)
    <3>1. ids'[b][d] = ids[b][d]
      BY <2>2, <1>7
    <3>2. step[b] >= d + 3
      BY <2>2, <1>1, <1>2, <1>8, <1>12 DEF Dim
    <3> QED BY <3>1, <3>2, <1>9, <1>10, <1>12 DEF WrapperInv
  <2> QED BY <2>1, <2>2
<1>13. \A b \in CU : ~InKernel(b)' => step'[b] = 0
  BY <1>1, <1>8, <1>9 DEF WrapperInv
<1> QED BY <1>1, <1>7, <1>8, <1>11, <1>12, <1>13 DEF WrapperInv

(* A kernel that returns leaves the words behind, for nobody. *)
LEMMA ReturnStep ==
  ASSUME IInv, WrapperInv, NEW c \in CU, ReturnWrapper(c)
  PROVE  WrapperInv'
<1>1. /\ cuPc' = [cuPc EXCEPT ![c] = "clear"]
      /\ step' = [step EXCEPT ![c] = 0] /\ ids' = [ids EXCEPT ![c] = First]
      /\ global' = global /\ globalWS' = globalWS
  BY DEF ReturnWrapper, ReturnKernel, Goto, controlVars
<1>2. cuPc \in [CU -> UnitPc] /\ First \in Triple
  <2>1. First \in Triple
    BY DEF First, Triple
  <2> QED BY <2>1 DEF IInv, TypeOK
<1>3. /\ step' \in [CU -> 0 .. 6] /\ ids' \in [CU -> Triple] /\ step'[c] = 0
      /\ \A b \in CU : b # c => step'[b] = step[b] /\ ids'[b] = ids[b]
  BY <1>1, <1>2 DEF WrapperInv
<1>4. ~InKernel(c)' /\ \A b \in CU : b # c => (InKernel(b)' <=> InKernel(b))
  BY <1>1, <1>2 DEF InKernel
<1>5. \A d \in Dim : Extent(d)' = Extent(d)
  BY <1>1 DEF Extent
<1> QED BY <1>1, <1>3, <1>4, <1>5 DEF WrapperInv

LEMMA WrapperNext == IInv /\ WrapperInv /\ [NextWrapper]_allVars => WrapperInv'
<1> SUFFICES ASSUME IInv, WrapperInv, [NextWrapper]_allVars PROVE WrapperInv'
  OBVIOUS
<1>1. CASE SetKernelWrapper \/ OtherStep
  BY <1>1, WrapperSchedulerStep
<1>2. CASE \E c \in CU : StoreGlobal(c) \/ ReadId(c) \/ ReturnWrapper(c)
  BY <1>2, StoreStep, ReadStep, ReturnStep
<1>3. CASE UNCHANGED allVars
  <2>1. /\ global' = global /\ step' = step /\ ids' = ids
        /\ cuPc' = cuPc /\ globalWS' = globalWS
    BY <1>3 DEF allVars, wrapperVars, vars, unitVars, controlVars
  <2> QED BY <2>1 DEF WrapperInv, InKernel, Extent
<1> QED BY <1>1, <1>2, <1>3 DEF NextWrapper

-----------------------------------------------------------------------------
(* The result. *)

LEMMA PositionInBox ==
  IInv /\ WrapperInv => IdsInLaunch
<1> SUFFICES ASSUME IInv, WrapperInv, NEW c \in CU, AllRead(c)
             PROVE  ids[c] \in Box(globalWS)
  BY DEF IdsInLaunch
<1>1. InKernel(c) /\ step[c] = 6
  BY DEF AllRead, InKernel
<1>2. 1 \in Dim /\ 2 \in Dim /\ 3 \in Dim
  BY DEF Dim
<1>3. ids[c][1] \in Extent(1) /\ ids[c][2] \in Extent(2) /\ ids[c][3] \in Extent(3)
  BY <1>1, <1>2 DEF WrapperInv
<1>4. ids[c] = <<ids[c][1], ids[c][2], ids[c][3]>> /\ globalWS \in Triple
  BY TripleElement DEF WrapperInv, IInv, TypeOK
<1> QED BY <1>3, <1>4, InBox DEF Extent

(* Whatever the order in which the units store and read the words of       *)
(* global[], a kernel that asks for its whole position is told one of its  *)
(* own launch, for any number of units and any work sizes.                 *)
THEOREM IdsAreInLaunch == SpecWrapper => []IdsInLaunch
<1>1. InitWrapper => WrapperInv
  BY WrapperInit
<1>2. IInv /\ WrapperInv /\ [NextWrapper]_allVars => WrapperInv'
  BY WrapperNext
<1>3. IInv /\ WrapperInv => IdsInLaunch
  BY PositionInBox
<1> QED BY <1>1, <1>2, <1>3, SchedulerInvariance, PTL DEF SpecWrapper

-----------------------------------------------------------------------------
(* The race for global[] is all that can go wrong.                         *)

OneKernelAtATime == \A b, c \in CU : InKernel(b) /\ InKernel(c) => b = c

(* What a lone kernel has stored and read are its own coordinates. *)
OwnInv ==
  /\ globalWS[3] <= 1
  /\ \A c \in CU, d \in Dim : InKernel(c) /\ step[c] >= d => global[d] = coord[c][d]
  /\ \A c \in CU, d \in Dim : InKernel(c) /\ step[c] >= d + 3 => ids[c][d] = coord[c][d]

(* Launches of one or two dimensions: get_global_id(2) is right only there. *)
FlatSizes == \A ws \in WorkSizes : ws[3] <= 1

(* Nobody touches the coordinates of a running kernel. *)
LEMMA CoordinatesKept ==
  ASSUME IInv, SetKernelWrapper \/ OtherStep, NEW c \in CU, InKernel(c)
  PROVE  coord'[c] = coord[c]
<1>1. CASE RunKernelCoords
  <2>1. coord' = [coord EXCEPT ![free_cu] = cursor] /\ Held(free_cu) /\ free_cu \in CU
    BY <1>1 DEF RunKernelCoords, Held, IInv, TypeOK, QueueInv
  <2>2. free_cu # c
    BY <2>1 DEF IInv, QueueInv, Busy, InKernel
  <2> QED BY <2>1, <2>2 DEF IInv, TypeOK
<1>2. CASE \/ \E k \in Kernels : LoadKernel(k)
           \/ \E ws \in WorkSizes : AddWork(ws)
           \/ SetKernelWrapper \/ SetKernelExit \/ SetKernelDone \/ UnsetKernel
           \/ AddWorkReturn \/ RunKernelSignal
  BY <1>2 DEF LoadKernel, AddWork, SetKernelWrapper, SetKernel, SetKernelExit, SetKernelDone,
              UnsetKernel, AddWorkReturn, RunKernelSignal, unitVars
<1>3. CASE DispatchLock \/ PopFree \/ NoneFree \/ DrainLock \/ DrainWait \/ DrainDone
  BY <1>3 DEF DispatchLock, PopFree, NoneFree, DrainLock, DrainWait, DrainDone, Acquire, unitVars
<1>4. CASE \E d \in CU : \/ CheckAllocated(d) \/ SpuriousWakeup(d) \/ CallKernel(d)
                         \/ ClearAllocated(d) \/ CUDoneLock(d) \/ CUDonePush(d)
  BY <1>4 DEF CheckAllocated, SpuriousWakeup, CallKernel, ClearAllocated, CUDoneLock, CUDonePush,
              unitVars
<1> QED BY <1>1, <1>2, <1>3, <1>4 DEF OtherStep

(* Launches are one item deep, as all of the work sizes are. *)
LEMMA DepthKept ==
  ASSUME FlatSizes, globalWS[3] <= 1, NextWrapper
  PROVE  globalWS'[3] <= 1
<1>1. ASSUME NEW ws \in WorkSizes, AddWork(ws) PROVE globalWS'[3] <= 1
  BY <1>1 DEF AddWork, FlatSizes
<1>2. CASE \/ \E k \in Kernels : LoadKernel(k)
           \/ SetKernelWrapper \/ SetKernelExit \/ SetKernelDone \/ UnsetKernel
           \/ AddWorkReturn \/ RunKernelSignal \/ RunKernelCoords
  BY <1>2 DEF LoadKernel, SetKernelWrapper, SetKernel, SetKernelExit, SetKernelDone,
              UnsetKernel, AddWorkReturn, RunKernelSignal, RunKernelCoords, controlVars
<1>3. CASE DispatchLock \/ PopFree \/ NoneFree \/ DrainLock \/ DrainWait \/ DrainDone
  BY <1>3 DEF DispatchLock, PopFree, NoneFree, DrainLock, DrainWait, DrainDone, Acquire
<1>4. CASE \E d \in CU : \/ CheckAllocated(d) \/ SpuriousWakeup(d) \/ CallKernel(d)
                         \/ ClearAllocated(d) \/ CUDoneLock(d) \/ CUDonePush(d)
  BY <1>4 DEF CheckAllocated, SpuriousWakeup, CallKernel, ClearAllocated, CUDoneLock, CUDonePush,
              controlVars
<1>5. CASE \E c \in CU : StoreGlobal(c) \/ ReadId(c) \/ ReturnWrapper(c)
  BY <1>5 DEF StoreGlobal, ReadId, ReturnWrapper, ReturnKernel, vars, controlVars
<1> QED BY <1>1, <1>2, <1>3, <1>4, <1>5 DEF NextWrapper, OtherStep

LEMMA OwnSchedulerStep ==
  ASSUME IInv, WrapperInv, OwnInv, FlatSizes, SetKernelWrapper \/ OtherStep
  PROVE  OwnInv'
<1>1. step' = step /\ ids' = ids
  BY DEF SetKernelWrapper, OtherStep, wrapperVars
<1>2. ASSUME NEW c \in CU, InKernel(c) PROVE global' = global
  <2>1. pc # "set"
    BY <1>2, KernelsInLaunch
  <2> QED BY <2>1 DEF SetKernelWrapper, SetKernel, OtherStep, wrapperVars
<1>3. ASSUME NEW c \in CU, NEW d \in Dim, InKernel(c)', step'[c] >= d
      PROVE  InKernel(c) /\ global' = global /\ coord'[c] = coord[c]
  <2>1. InKernel(c)
    BY <1>1, <1>3 DEF WrapperInv, Dim
  <2> QED BY <2>1, <1>2, CoordinatesKept
<1>4. ASSUME NEW c \in CU, NEW d \in Dim, step'[c] >= d + 3 PROVE step'[c] >= d
  BY <1>1, <1>4 DEF WrapperInv, Dim
<1>5. globalWS'[3] <= 1
  BY DepthKept DEF OwnInv, NextWrapper
<1> QED BY <1>1, <1>3, <1>4, <1>5 DEF OwnInv

(* A store of the one kernel that runs. *)
LEMMA OwnStoreStep ==
  ASSUME IInv, WrapperInv, OwnInv, OneKernelAtATime, NEW c \in CU, StoreGlobal(c)
  PROVE  OwnInv'
<1> DEFINE w == step[c] + 1
<1>1. /\ w \in Dim /\ InKernel(c)
      /\ global' = [global EXCEPT ![w] = coord[c][w]]
      /\ step' = [step EXCEPT ![c] = w] /\ ids' = ids
      /\ cuPc' = cuPc /\ coord' = coord /\ globalWS' = globalWS
  BY DEF StoreGlobal, vars, unitVars, controlVars, InKernel
<1>2. step[c] \in 0 .. 6 /\ step'[c] = w
  BY <1>1 DEF WrapperInv
<1>3. coord[c][w] \in Int /\ global \in Triple
  BY <1>1, KernelsInLaunch DEF Extent, WrapperInv
<1>4. global'[w] = coord[c][w] /\ \A d \in Dim : d # w => global'[d] = global[d]
  <2> HIDE DEF w
  <2> QED BY <1>1, <1>3, TripleUpdate
<1>5. ASSUME NEW b \in CU, InKernel(b)' PROVE b = c
  BY <1>1, <1>5 DEF OneKernelAtATime, InKernel
<1>6. ASSUME NEW d \in Dim, step'[c] >= d PROVE global'[d] = coord'[c][d]
  <2>1. CASE d = w
    BY <2>1, <1>1, <1>4
  <2>2. CASE d # w
    <3>1. step[c] >= d
      BY <2>2, <1>2, <1>6 DEF Dim
    <3> QED BY <3>1, <2>2, <1>1, <1>4 DEF OwnInv
  <2> QED BY <2>1, <2>2
<1>7. \A d \in Dim : ~(step'[c] >= d + 3)
  BY <1>1, <1>2 DEF Dim
<1> QED BY <1>1, <1>5, <1>6, <1>7 DEF OwnInv

(* It reads what it has stored, or 0 where it could be nothing else. *)
LEMMA OwnReadStep ==
  ASSUME IInv, WrapperInv, OwnInv, OneKernelAtATime, NEW c \in CU, ReadId(c)
  PROVE  OwnInv'
<1> DEFINE w == step[c] - 2
           x == get_global_id(w)
<1>1. /\ w \in Dim /\ InKernel(c)
      /\ ids' = [ids EXCEPT ![c][w] = x]
      /\ step' = [step EXCEPT ![c] = @ + 1] /\ global' = global
      /\ cuPc' = cuPc /\ coord' = coord /\ globalWS' = globalWS
  BY DEF ReadId, vars, unitVars, controlVars, InKernel
<1>2. step[c] \in 0 .. 6 /\ step'[c] = w + 3
  BY <1>1 DEF WrapperInv, Dim
<1>3. x = coord[c][w]
  <2>1. CASE w < 3
    <3>1. step[c] >= w
      BY <1>2
    <3> QED BY <3>1, <2>1, <1>1 DEF get_global_id, OwnInv
  <2>2. CASE ~(w < 3)
    <3>1. w = 3 /\ x = 0
      BY <2>2, <1>1 DEF Dim, get_global_id
    <3>2. coord[c][3] \in 0 .. globalWS[3] - 1 /\ globalWS[3] \in Int /\ globalWS[3] <= 1
      BY <3>1, <1>1, KernelsInLaunch, TripleElement DEF Extent, OwnInv
    <3> QED BY <3>1, <3>2
  <2> QED BY <2>1, <2>2
<1>4. x \in Int
  BY <1>1, <1>3, KernelsInLaunch DEF Extent
<1> HIDE DEF x
<1>5. ids[c] \in Triple /\ ids' = [ids EXCEPT ![c] = [ids[c] EXCEPT ![w] = x]]
  BY <1>1 DEF WrapperInv
<1>6. ids'[c][w] = x /\ \A d \in Dim : d # w => ids'[c][d] = ids[c][d]
  <2>1. /\ [ids[c] EXCEPT ![w] = x] \in Triple /\ [ids[c] EXCEPT ![w] = x][w] = x
        /\ \A d \in Dim : d # w => [ids[c] EXCEPT ![w] = x][d] = ids[c][d]
    <3> HIDE DEF w
    <3> QED BY <1>1, <1>4, <1>5, TripleUpdate
  <2>2. ids'[c] = [ids[c] EXCEPT ![w] = x]
    BY <1>5 DEF WrapperInv
  <2> QED BY <2>1, <2>2
<1>7. ASSUME NEW b \in CU, InKernel(b)' PROVE b = c
  BY <1>1, <1>7 DEF OneKernelAtATime, InKernel
<1>8. ASSUME NEW d \in Dim, step'[c] >= d PROVE global'[d] = coord'[c][d]
  <2>1. step[c] >= d
    BY <1>1, <1>2, <1>8 DEF Dim
  <2> QED BY <2>1, <1>1 DEF OwnInv
<1>9. ASSUME NEW d \in Dim, step'[c] >= d + 3 PROVE ids'[c][d] = coord'[c][d]
  <2>1. CASE d = w
    BY <2>1, <1>1, <1>3, <1>6
  <2>2. CASE d # w
    <3>1. step[c] >= d + 3
      BY <2>2, <1>1, <1>2, <1>9 DEF Dim
    <3> QED BY <3>1, <2>2, <1>1, <1>6 DEF OwnInv
  <2> QED BY <2>1, <2>2
<1> QED BY <1>1, <1>7, <1>8, <1>9 DEF OwnInv

LEMMA OwnReturnStep ==
  ASSUME IInv, WrapperInv, OwnInv, OneKernelAtATime, NEW c \in CU, ReturnWrapper(c)
  PROVE  OwnInv'
<1>1. cuPc' = [cuPc EXCEPT ![c] = "clear"] /\ globalWS' = globalWS /\ cuPc[c] = "kernel"
  BY DEF ReturnWrapper, ReturnKernel, Goto, controlVars
<1>2. cuPc \in [CU -> UnitPc]
  BY DEF IInv, TypeOK
<1>3. \A b \in CU : ~InKernel(b)'
  BY <1>1, <1>2 DEF OneKernelAtATime, InKernel
<1> QED BY <1>1, <1>3 DEF OwnInv

(* As long as no two kernels run at once, for as many units as there are,  *)
(* each is told its own position; only the third coordinate of a launch    *)
(* that has one would be wrong, as get_global_id answers 0 for it.  So     *)
(* what KernelWrapper_race finds has no other cause than the race.         *)
THEOREM OwnItemWithoutRace ==
  ASSUME FlatSizes
  PROVE  SpecWrapper /\ []OneKernelAtATime => []IdsOfOwnItem
<1>1. InitWrapper => WrapperInv /\ OwnInv
  <2>1. InitWrapper => OwnInv
    BY DEF InitWrapper, Init, InKernel, OwnInv
  <2> QED BY <2>1, WrapperInit
<1>2. IInv /\ WrapperInv /\ OwnInv /\ OneKernelAtATime /\ [NextWrapper]_allVars
        => WrapperInv' /\ OwnInv'
  <2> SUFFICES ASSUME IInv, WrapperInv, OwnInv, OneKernelAtATime, [NextWrapper]_allVars
               PROVE  OwnInv'
    BY WrapperNext
  <2>1. CASE SetKernelWrapper \/ OtherStep
    BY <2>1, OwnSchedulerStep
  <2>2. CASE \E c \in CU : StoreGlobal(c) \/ ReadId(c) \/ ReturnWrapper(c)
    BY <2>2, OwnStoreStep, OwnReadStep, OwnReturnStep
  <2>3. CASE UNCHANGED allVars
    BY <2>3 DEF allVars, wrapperVars, vars, unitVars, controlVars, OwnInv, InKernel
  <2> QED BY <2>1, <2>2, <2>3 DEF NextWrapper
<1>3. WrapperInv /\ IInv /\ OwnInv => IdsOfOwnItem
  <2> SUFFICES ASSUME WrapperInv, IInv, OwnInv, NEW c \in CU, AllRead(c)
               PROVE  ids[c] = coord[c]
    BY DEF IdsOfOwnItem
  <2>1. /\ InKernel(c) /\ step[c] = 6 /\ 1 \in Dim /\ 2 \in Dim /\ 3 \in Dim
        /\ ids[c] \in Triple /\ coord[c] \in Triple
    BY KernelsInLaunch DEF AllRead, InKernel, Dim, WrapperInv
  <2>2. ids[c][1] = coord[c][1] /\ ids[c][2] = coord[c][2] /\ ids[c][3] = coord[c][3]
    BY <2>1 DEF OwnInv
  <2> QED BY <2>1, <2>2, TripleElement
<1> QED BY <1>1, <1>2, <1>3, SchedulerInvariance, PTL DEF SpecWrapper

(* In particular a device with one compute unit is right.                  *)
THEOREM OwnItemOnOneUnit ==
  ASSUME FlatSizes, NumCU = 1
  PROVE  SpecWrapper => []IdsOfOwnItem
<1>1. OneKernelAtATime
  BY DEF OneKernelAtATime, CU
<1>2. []OneKernelAtATime
  BY <1>1, PTL
<1> QED BY <1>2, OwnItemWithoutRace, PTL
=============================================================================
