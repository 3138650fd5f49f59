------------------------- MODULE CommandQueueProofs --------------------------
(***************************************************************************)
(* Proofs about CommandQueue, for any set of application threads, any      *)
(* number of commands and references, allocations that fail or not, and    *)
(* whatever malloc does with the blocks of freed commands.                 *)
(***************************************************************************)
EXTENDS CommandQueue, SequenceTheorems, TLAPS

LEMMA TypeInit == Init => TypeOK
<1> SUFFICES ASSUME Init PROVE TypeOK
  OBVIOUS
<1>1. queue \in Seq(Cmd) /\ executed \in Seq(Cmd)
  BY EmptySeq DEF Init
<1>2. status \in [Cmd -> Status] /\ workerPc \in WorkerPc
  BY DEF Init, Status, WorkerPc
<1>3. /\ currentEvent = NULL /\ qpos = NULL /\ freed = FALSE /\ queue_mutex = Nobody
      /\ issued = 0 /\ now = 0 /\ refcount = 1
  BY DEF Init
<1>4. refcount \in 0 .. MaxRefs /\ issued \in 0 .. MaxCmds /\ 0 \in 0 .. MaxCmds
  BY <1>3, BoundsAssumption
<1>5. pc \in [Threads -> {"out", "finish", "join"}] /\ target \in [Threads -> 0 .. MaxCmds]
  BY <1>4 DEF Init
<1>6. keepsNext \in BOOLEAN /\ dangled \in BOOLEAN /\ staleNext \in [Cmd -> Cmd \cup {NULL}]
  BY DEF Init
<1> QED BY <1>1, <1>2, <1>3, <1>4, <1>5, <1>6 DEF TypeOK

LEMMA UnlinkSeq ==
  ASSUME NEW S, queue \in Seq(S), NEW n \in S, Linked(n)
  PROVE  Unlink(n) \in Seq(S) /\ Len(Unlink(n)) = Len(queue) - 1
<1>1. Len(queue) \in Nat /\ \A m \in 1 .. Len(queue) : queue[m] \in S
  BY LenProperties, ElementOfSeq
<1>2. Len(queue) - 1 \in Nat
  BY <1>1 DEF Linked
<1> DEFINE at == CHOOSE m \in 1 .. Len(queue) : queue[m] = n
<1>3. at \in 1 .. Len(queue)
  BY DEF Linked
<1> HIDE DEF at
<1> DEFINE u == [m \in 1 .. Len(queue) - 1 |-> IF m < at THEN queue[m] ELSE queue[m + 1]]
<1>4. u \in [1 .. Len(queue) - 1 -> S]
  BY <1>1, <1>3
<1>5. u \in Seq(S) /\ Len(u) = Len(queue) - 1
  BY <1>2, <1>4, SeqDef
<1> QED BY <1>5 DEF Unlink, at

LEMMA SuccessorType ==
  ASSUME TypeOK, NEW n
  PROVE  Successor(n) \in Cmd \cup {NULL}
<1>1. CASE \E m \in 1 .. Len(queue) - 1 : queue[m] = n
  <2> DEFINE at == CHOOSE m \in 1 .. Len(queue) - 1 : queue[m] = n
  <2>1. at \in 1 .. Len(queue) - 1
    BY <1>1
  <2>2. 1 + at \in 1 .. Len(queue)
    BY <2>1, LenProperties DEF TypeOK
  <2>3. queue[1 + at] \in Cmd
    BY <2>2, ElementOfSeq DEF TypeOK
  <2> QED BY <1>1, <2>3 DEF Successor
<1>2. CASE ~\E m \in 1 .. Len(queue) - 1 : queue[m] = n
  BY <1>2 DEF Successor
<1> QED BY <1>1, <1>2

(* What an enqueue function that gets a command from queue_add changes.    *)
LEMMA EnqueueFacts ==
  ASSUME IInv, NEW t \in Threads, NEW k \in Kinds, Enqueue(t, k) \/ EnqueueNoPayload(t, k)
  PROVE  /\ issued < MaxCmds /\ issued + 1 \in Cmd /\ issued' = issued + 1
         /\ queue' = Append(queue, issued + 1) /\ pc[t] = "out"
         /\ UNCHANGED <<workerPc, qpos, now, executed, queue_mutex, refcount, freed>>
         /\ UNCHANGED <<keepsNext, dangled>>
         /\ \E b \in {NULL} \cup Free, st \in {"queued", "ghost"} :
              /\ st = "ghost" => AllocMayFail
              /\ currentEvent' = Scheduled(issued + 1, b)
              /\ staleNext' = Taken(b, issued + 1)
              /\ status' = [m \in Cmd |-> IF m = issued + 1 THEN st
                                         ELSE IF m = b THEN "reused" ELSE status[m]]
<1>1. issued + 1 \in Cmd /\ issued < MaxCmds
  BY BoundsAssumption DEF Enqueue, EnqueueNoPayload, IInv, TypeOK, Cmd
<1>2. PICK st \in {"queued", "ghost"} : Link(issued + 1, st) /\ (st = "ghost" => AllocMayFail)
  BY DEF Enqueue, EnqueueNoPayload, StatusSet
<1>3. /\ pc[t] = "out"
      /\ UNCHANGED <<workerPc, qpos, now, executed, queue_mutex, refcount, freed>>
  BY DEF Enqueue, EnqueueNoPayload, InUse, workerVars
<1> QED BY <1>1, <1>2, <1>3 DEF Link, Appended

LEMMA TypeStep == IInv /\ [Next]_vars => TypeOK'
<1> SUFFICES ASSUME IInv, [Next]_vars PROVE TypeOK'
  OBVIOUS
<1> USE BoundsAssumption, ThreadsAssumption DEF TypeOK, IInv
<1>1. ASSUME NEW t \in Threads, NEW k \in Kinds, Enqueue(t, k) \/ EnqueueNoPayload(t, k)
      PROVE  TypeOK'
  <2>0. PICK b \in {NULL} \cup Free, st \in {"queued", "ghost"} :
          /\ currentEvent' = Scheduled(issued + 1, b)
          /\ staleNext' = Taken(b, issued + 1)
          /\ status' = [m \in Cmd |-> IF m = issued + 1 THEN st
                                     ELSE IF m = b THEN "reused" ELSE status[m]]
    BY <1>1, EnqueueFacts
  <2>1. issued + 1 \in Cmd /\ issued' = issued + 1 /\ queue' = Append(queue, issued + 1)
    BY <1>1, EnqueueFacts
  <2>2. queue' \in Seq(Cmd)
    BY <2>1, AppendProperties
  <2>3. currentEvent' \in Cmd \cup {NULL, Wild}
    BY <2>0, <2>1 DEF Scheduled
  <2>4. status' \in [Cmd -> Status]
    BY <2>0 DEF Status
  <2>5. pc' \in [Threads -> {"out", "finish", "join"}] /\ target' \in [Threads -> 0 .. MaxCmds]
    <3>1. CASE UNCHANGED threadVars
      BY <3>1 DEF threadVars
    <3>2. CASE ~UNCHANGED threadVars
      <4>1. issued + 1 \in 0 .. MaxCmds
        BY <2>1 DEF Cmd
      <4>2. pc' = [pc EXCEPT ![t] = "finish"] /\ target' = [target EXCEPT ![t] = issued + 1]
        BY <1>1, <3>2 DEF Enqueue, EnqueueNoPayload
      <4> QED BY <4>1, <4>2
    <3> QED BY <3>1, <3>2
  <2>6. issued' \in 0 .. MaxCmds
    BY <2>1 DEF Cmd
  <2>7. staleNext' \in [Cmd -> Cmd \cup {NULL}]
    <3>1. b # NULL => b \in Cmd
      BY DEF Free
    <3> QED BY <2>0, <2>1, <3>1 DEF Taken
  <2>8. /\ UNCHANGED <<workerPc, qpos, now, executed, queue_mutex, refcount, freed>>
        /\ UNCHANGED <<keepsNext, dangled>>
    BY <1>1, EnqueueFacts
  <2> QED BY <2>2, <2>3, <2>4, <2>5, <2>6, <2>7, <2>8
<1>2. ASSUME NEW t \in Threads,
             CallFinish(t) \/ FinishDone(t) \/ Retain(t) \/ Release(t) \/ ReleaseJoined(t)
      PROVE  TypeOK'
  <2> USE DEF heapVars
  <2>1. CASE CallFinish(t)
    BY <2>1 DEF CallFinish, listVars, workerVars
  <2>2. CASE FinishDone(t)
    BY <2>2 DEF FinishDone, listVars, workerVars
  <2>3. CASE Retain(t)
    BY <2>3 DEF Retain, listVars, workerVars, threadVars
  <2>4. CASE Release(t)
    <3>1. refcount' \in 0 .. MaxRefs
      BY <2>4 DEF Release, InUse
    <3>2. pc' \in [Threads -> {"out", "finish", "join"}]
      BY <2>4 DEF Release
    <3> QED BY <2>4, <3>1, <3>2 DEF Release, listVars, workerVars
  <2>5. CASE ReleaseJoined(t)
    BY <2>5 DEF ReleaseJoined, listVars, workerVars
  <2> QED BY <1>2, <2>1, <2>2, <2>3, <2>4, <2>5
<1>3. ASSUME NEW t \in Threads, NEW k \in Kinds, EnqueueNoCommand(t, k) PROVE TypeOK'
  <2>1. queue_mutex' \in Threads \cup {"worker", Nobody}
    BY <1>3 DEF EnqueueNoCommand, OwnerAfter
  <2> QED BY <1>3, <2>1 DEF EnqueueNoCommand, listVars, heapVars, workerVars, threadVars
<1>4. CASE WorkerTest \/ WorkerLock \/ DispatchNothing \/ PurgeEnd
  BY <1>4 DEF WorkerTest, WorkerLock, DispatchNothing, PurgeEnd, WorkerGoto, WorkerPc,
     listVars, heapVars, threadVars
<1>5. CASE Dispatch
  <2>1. currentEvent \in Cmd
    BY <1>5, ElementOfSeq DEF Dispatch, Linked
  <2>2. executed' \in Seq(Cmd)
    BY <1>5, <2>1, AppendProperties DEF Dispatch
  <2>3. currentEvent' \in Cmd \cup {NULL}
    BY <1>5, SuccessorType DEF Dispatch
  <2>4. status' \in [Cmd -> Status] /\ workerPc' \in WorkerPc
    BY <1>5, <2>1 DEF Dispatch, WorkerGoto, Status, WorkerPc
  <2> QED BY <1>5, <2>2, <2>3, <2>4 DEF Dispatch, threadVars, heapVars
<1>6. CASE DispatchFreed \/ DispatchAgain \/ DispatchWild
  <2>1. currentEvent \in Cmd \/ executed' = executed
    BY <1>6 DEF DispatchWild, DispatchFreed, DispatchAgain, Free
  <2>2. executed' = executed \/ executed' = Append(executed, currentEvent)
    BY <1>6 DEF DispatchFreed, DispatchAgain, DispatchWild
  <2>3. executed' \in Seq(Cmd)
    <3>1. currentEvent \in Cmd => Append(executed, currentEvent) \in Seq(Cmd)
      BY AppendProperties
    <3> QED BY <2>1, <2>2, <3>1
  <2>4. currentEvent' \in Cmd \cup {NULL, Wild}
    BY <1>6 DEF DispatchFreed, DispatchAgain, DispatchWild, Free
  <2>5. workerPc' \in WorkerPc
    BY <1>6 DEF DispatchFreed, DispatchAgain, DispatchWild, WorkerGoto, WorkerPc
  <2>6. /\ UNCHANGED <<queue, status, issued, qpos, now, queue_mutex, refcount, freed>>
        /\ UNCHANGED threadVars /\ UNCHANGED heapVars
    BY <1>6 DEF DispatchFreed, DispatchAgain, DispatchWild
  <2> QED BY <2>3, <2>4, <2>5, <2>6 DEF threadVars, heapVars
<1>7. CASE ReadClock
  <2>1. Len(executed) \in Nat
    BY LenProperties
  <2>2. queue # <<>> => Head(queue) \in Cmd
    BY HeadTailProperties
  <2> QED BY <1>7, <2>1, <2>2 DEF ReadClock, WorkerGoto, WorkerPc, listVars, heapVars, threadVars
<1>8. CASE PurgeKeep
  <2>1. qpos' \in Cmd \cup {NULL}
    BY <1>8, SuccessorType DEF PurgeKeep
  <2> QED BY <1>8, <2>1 DEF PurgeKeep, listVars, heapVars, threadVars
<1>9. CASE PurgeFree
  <2>1. qpos \in Cmd
    BY <1>9 DEF PurgeFree, AtComplete
  <2>2. PICK p \in NextOfFreed(qpos) :
          /\ staleNext' = [staleNext EXCEPT ![qpos] = p]
          /\ workerPc' \in {"purge", "crashed"}
          /\ qpos' \in {IF Linked(p) THEN p ELSE NULL, NULL}
    BY <1>9 DEF PurgeFree
  <2>3. p \in Cmd \cup {NULL} /\ (Linked(p) => p \in Cmd)
    <3>1. p \in Cmd \cup {NULL}
      BY SuccessorType DEF NextOfFreed, Free
    <3>2. Linked(p) => p \in Cmd
      BY ElementOfSeq DEF Linked
    <3> QED BY <3>1, <3>2
  <2>4. staleNext' \in [Cmd -> Cmd \cup {NULL}]
    BY <2>1, <2>2, <2>3
  <2>5. qpos' \in Cmd \cup {NULL} /\ workerPc' \in WorkerPc
    BY <2>2, <2>3 DEF WorkerPc
  <2>6. Linked(qpos)
    BY <1>9, <2>1 DEF PurgeFree, AtComplete, PurgeInv, ListInv, NULL
  <2>7. queue' \in Seq(Cmd)
    BY <1>9, <2>1, <2>6, UnlinkSeq DEF PurgeFree
  <2>8. status' \in [Cmd -> Status]
    BY <1>9, <2>1 DEF PurgeFree, Status
  <2>9. /\ UNCHANGED <<currentEvent, issued, now, executed, keepsNext, queue_mutex, refcount, freed>>
        /\ UNCHANGED threadVars /\ dangled' \in BOOLEAN
    BY <1>9 DEF PurgeFree
  <2> QED BY <2>4, <2>5, <2>7, <2>8, <2>9 DEF threadVars
<1>10. CASE UNCHANGED vars
  BY <1>10 DEF vars, listVars, heapVars, workerVars, threadVars
<1> QED BY <1>1, <1>2, <1>3, <1>4, <1>5, <1>6, <1>7, <1>8, <1>9, <1>10
        DEF Next, WorkerStep, ThreadStep

-----------------------------------------------------------------------------
(* The list. *)

LEMMA ListFacts ==
  ASSUME IInv
  PROVE  /\ Len(queue) \in Nat /\ Len(executed) \in Nat /\ now \in Nat
         /\ MaxCmds \in Nat /\ issued \in 0 .. MaxCmds
         /\ \A m \in 1 .. Len(queue) : queue[m] \in Cmd
         /\ \A i, j \in 1 .. Len(queue) : i < j => queue[i] < queue[j]
         /\ \A n \in Cmd : Linked(n) <=> status[n] \in InList
BY LenProperties, ElementOfSeq, BoundsAssumption DEF IInv, TypeOK, ListInv

LEMMA LinkedIsCreated ==
  ASSUME IInv, NEW n \in Cmd, Linked(n)
  PROVE  n <= issued
<1>1. status[n] # "none"
  BY ListFacts DEF InList
<1> QED BY <1>1, ListFacts DEF IInv, ListInv, Cmd

(* Until currentEvent dangles, a command that was not dispatched is in the *)
(* list.                                                                   *)
LEMMA PendingIsLinked ==
  ASSUME IInv, ~dangled, NEW n \in Len(executed) + 1 .. issued
  PROVE  n \in Cmd /\ status[n] \in Pending /\ Linked(n)
<1>1. n \in Cmd /\ n \in 1 .. issued /\ ~(n <= Len(executed))
  BY ListFacts DEF Cmd
<1>2. status[n] \in Pending
  BY <1>1 DEF IInv, ProgressInv
<1> QED BY <1>1, <1>2, ListFacts DEF InList, Pending

(* `next' leads to the least command of the list that is greater.          *)
LEMMA SuccessorFacts ==
  ASSUME IInv, NEW n \in Cmd, Linked(n)
  PROVE  \/ Successor(n) = NULL /\ \A j \in Cmd : Linked(j) => j <= n
         \/ /\ Successor(n) \in Cmd /\ Linked(Successor(n)) /\ Successor(n) > n
            /\ \A j \in Cmd : Linked(j) /\ j > n => Successor(n) <= j
<1>0. n \in Nat /\ Cmd \subseteq Nat
  BY DEF Cmd
<1>1. PICK at \in 1 .. Len(queue) : queue[at] = n
  BY DEF Linked
<1>2. ASSUME NEW m \in 1 .. Len(queue), queue[m] = n PROVE m = at
  <2>1. ~(m < at) /\ ~(at < m)
    BY <1>0, <1>1, <1>2, ListFacts
  <2> QED BY <2>1, ListFacts
<1>3. CASE at = Len(queue)
  <2>1. ~\E m \in 1 .. Len(queue) - 1 : queue[m] = n
    BY <1>2, <1>3, ListFacts
  <2>2. ASSUME NEW j \in Cmd, Linked(j) PROVE j <= n
    <3>1. PICK m \in 1 .. Len(queue) : queue[m] = j
      BY <2>2 DEF Linked
    <3>2. m = at \/ m < at
      BY <1>3, <3>1, ListFacts
    <3> QED BY <1>0, <1>1, <3>1, <3>2, ListFacts
  <2> QED BY <2>1, <2>2 DEF Successor
<1>4. CASE at # Len(queue)
  <2>1. at \in 1 .. Len(queue) - 1 /\ at + 1 \in 1 .. Len(queue)
    BY <1>1, <1>4, ListFacts
  <2>2. Successor(n) = queue[at + 1]
    <3> DEFINE x == CHOOSE m \in 1 .. Len(queue) - 1 : queue[m] = n
    <3>1. x \in 1 .. Len(queue) - 1 /\ queue[x] = n
      BY <1>1, <2>1
    <3>2. Successor(n) = queue[1 + x]
      <4>1. \E m \in 1 .. Len(queue) - 1 : queue[m] = n
        BY <1>1, <2>1
      <4> QED BY <4>1 DEF Successor
    <3> HIDE DEF x
    <3>3. x = at
      BY <1>2, <3>1, ListFacts
    <3>4. 1 + x = at + 1
      BY <3>3, <2>1
    <3> QED BY <3>2, <3>4
  <2>3. queue[at + 1] \in Cmd /\ queue[at + 1] > n /\ Linked(queue[at + 1])
    <3>1. queue[at] < queue[at + 1]
      BY <1>1, <2>1, ListFacts
    <3> QED BY <1>0, <1>1, <2>1, <3>1, ListFacts DEF Linked
  <2>4. ASSUME NEW j \in Cmd, Linked(j), j > n PROVE queue[at + 1] <= j
    <3>1. PICK m \in 1 .. Len(queue) : queue[m] = j
      BY <2>4 DEF Linked
    <3>2. ~(m < at) /\ m # at
      BY <1>0, <1>1, <2>4, <3>1, ListFacts
    <3>3. m = at + 1 \/ at + 1 < m
      BY <1>1, <3>1, <3>2, ListFacts
    <3>4. CASE m = at + 1
      BY <1>0, <2>3, <3>1, <3>4
    <3>5. CASE at + 1 < m
      <4>1. queue[at + 1] < queue[m]
        BY <2>1, <3>1, <3>5, ListFacts
      <4>2. queue[at + 1] \in Nat /\ j \in Nat
        BY <1>0, <2>3
      <4> QED BY <3>1, <4>1, <4>2
    <3> QED BY <3>3, <3>4, <3>5
  <2> QED BY <2>2, <2>3, <2>4
<1> QED BY <1>3, <1>4

(* queue_remove takes one command out and keeps the others in order.       *)
LEMMA UnlinkFacts ==
  ASSUME IInv, NEW n \in Cmd, Linked(n), queue' = Unlink(n)
  PROVE  /\ \A i, j \in 1 .. Len(queue') : i < j => queue'[i] < queue'[j]
         /\ \A j \in Cmd : Linked(j)' <=> Linked(j) /\ j # n
<1>0. n \in Nat /\ Cmd \subseteq Nat
  BY DEF Cmd
<1> DEFINE at == CHOOSE m \in 1 .. Len(queue) : queue[m] = n
<1>1. at \in 1 .. Len(queue) /\ queue[at] = n
  BY DEF Linked
<1>2. queue' = [m \in 1 .. Len(queue) - 1 |-> IF m < at THEN queue[m] ELSE queue[m + 1]]
  BY DEF Unlink
<1> HIDE DEF at
<1>3. Len(queue') = Len(queue) - 1
  BY <1>1, <1>2, ListFacts
<1>4. \A m \in 1 .. Len(queue) - 1 :
        /\ m < at => queue'[m] = queue[m] /\ m \in 1 .. Len(queue)
        /\ ~(m < at) => queue'[m] = queue[m + 1] /\ m + 1 \in 1 .. Len(queue)
  BY <1>1, <1>2, ListFacts
<1>5. ASSUME NEW i \in 1 .. Len(queue'), NEW j \in 1 .. Len(queue'), i < j
      PROVE  queue'[i] < queue'[j]
  <2> DEFINE p == IF i < at THEN i ELSE i + 1
             q == IF j < at THEN j ELSE j + 1
  <2>1. p \in 1 .. Len(queue) /\ q \in 1 .. Len(queue) /\ p < q
    BY <1>1, <1>3, <1>5, ListFacts
  <2>2. queue'[i] = queue[p] /\ queue'[j] = queue[q]
    BY <1>3, <1>4
  <2> HIDE DEF p, q
  <2> QED BY <2>1, <2>2, ListFacts
<1>6. ASSUME NEW j \in Cmd, Linked(j)' PROVE Linked(j) /\ j # n
  <2>1. PICK m \in 1 .. Len(queue) - 1 : queue'[m] = j
    BY <1>3, <1>6 DEF Linked
  <2> DEFINE p == IF m < at THEN m ELSE m + 1
  <2>2. p \in 1 .. Len(queue) /\ p # at /\ queue[p] = j
    BY <1>1, <1>4, <2>1, ListFacts
  <2> HIDE DEF p
  <2>3. p < at \/ at < p
    BY <1>1, <2>2, ListFacts
  <2>4. j # n
    BY <1>0, <1>1, <2>2, <2>3, ListFacts
  <2> QED BY <2>2, <2>4 DEF Linked
<1>7. ASSUME NEW j \in Cmd, Linked(j), j # n PROVE Linked(j)'
  <2>1. PICK p \in 1 .. Len(queue) : queue[p] = j
    BY <1>7 DEF Linked
  <2>2. p # at
    BY <1>1, <1>7, <2>1
  <2> DEFINE m == IF p < at THEN p ELSE p - 1
  <2>3. m \in 1 .. Len(queue) - 1 /\ queue'[m] = j
    <3>1. CASE p < at
      BY <1>1, <1>4, <2>1, <3>1, ListFacts
    <3>2. CASE p > at
      <4>1. p - 1 \in 1 .. Len(queue) - 1 /\ ~(p - 1 < at) /\ p - 1 + 1 = p
        BY <1>1, <2>1, <3>2, ListFacts
      <4> QED BY <1>4, <2>1, <3>2, <4>1, <1>1
    <3> QED BY <1>1, <2>1, <2>2, <3>1, <3>2
  <2> HIDE DEF m
  <2> QED BY <1>3, <2>3 DEF Linked
<1> QED BY <1>5, <1>6, <1>7

LEMMA HeadFacts ==
  ASSUME IInv, queue # <<>>
  PROVE  /\ Head(queue) \in Cmd /\ Linked(Head(queue))
         /\ \A j \in Cmd : Linked(j) => Head(queue) <= j
<1>1. Head(queue) = queue[1] /\ 1 \in 1 .. Len(queue)
  BY HeadTailProperties, EmptySeq, LenProperties DEF IInv, TypeOK
<1>2. ASSUME NEW j \in Cmd, Linked(j) PROVE Head(queue) <= j
  <2>1. PICK m \in 1 .. Len(queue) : queue[m] = j
    BY <1>2 DEF Linked
  <2>2. m = 1 \/ 1 < m
    BY <2>1, ListFacts
  <2>3. Cmd \subseteq Nat
    BY DEF Cmd
  <2>4. CASE m = 1
    BY <1>1, <2>1, <2>3, <2>4
  <2>5. CASE 1 < m
    <3>1. queue[1] < queue[m] /\ queue[1] \in Cmd
      BY <1>1, <2>1, <2>5, ListFacts
    <3>2. queue[1] \in Nat /\ j \in Nat
      BY <2>3, <3>1
    <3> QED BY <1>1, <2>1, <3>1, <3>2
  <2> QED BY <2>2, <2>4, <2>5
<1> QED BY <1>1, <1>2, ListFacts DEF Linked

(* The block that the purge goes to from the one it freed, if it goes on.  *)
LEMMA PurgeFreeFacts ==
  ASSUME IInv, PurgeFree
  PROVE  /\ UNCHANGED <<currentEvent, issued, now, executed, target>> /\ qpos \in Cmd
         /\ status[qpos] \in {"complete", "ghost"} /\ Linked(qpos)
         /\ queue' = Unlink(qpos) /\ status' = [status EXCEPT ![qpos] = "freed"]
         /\ dangled' = (dangled \/ qpos = currentEvent)
         /\ workerPc' \in {"purge", "crashed"}
         /\ qpos' # NULL => qpos' = Successor(qpos)
<1>1. /\ UNCHANGED <<currentEvent, issued, now, executed, target>> /\ qpos \in Cmd
      /\ status[qpos] \in {"complete", "ghost"}
      /\ queue' = Unlink(qpos) /\ status' = [status EXCEPT ![qpos] = "freed"]
      /\ dangled' = (dangled \/ qpos = currentEvent)
  BY DEF PurgeFree, AtComplete, threadVars, IInv, TypeOK
<1>2. PICK p \in NextOfFreed(qpos) :
        /\ workerPc' \in {"purge", "crashed"}
        /\ qpos' \in {IF Linked(p) THEN p ELSE NULL, NULL}
  BY DEF PurgeFree
<1>3. Linked(p) => p \in Cmd /\ p # NULL /\ p \notin Free
  <2>1. Linked(p) => p \in Cmd
    BY ListFacts DEF Linked
  <2>2. p \in Cmd => p # NULL
    BY DEF Cmd, NULL
  <2>3. Linked(p) /\ p \in Cmd => p \notin Free
    BY ListFacts DEF Free, InList
  <2> QED BY <2>1, <2>2, <2>3
<1>4. Linked(p) => p = Successor(qpos)
  BY <1>3 DEF NextOfFreed
<1> QED BY <1>1, <1>2, <1>4, ListFacts DEF InList

LEMMA ListInvStep ==
  IInv /\ [Next]_vars => /\ (ListInv /\ PurgeInv)'
                         /\ (\A t \in Threads : target[t] <= issued)'
                         /\ (dangled => AllocMayFail)'
<1> SUFFICES ASSUME IInv, [Next]_vars
             PROVE  /\ (ListInv /\ PurgeInv)'
                    /\ \A t \in Threads : target'[t] <= issued'
                    /\ dangled' => AllocMayFail
  OBVIOUS
<1>0. /\ TypeOK /\ ListInv /\ PurgeInv /\ (dangled => AllocMayFail)
      /\ \A t \in Threads : target[t] <= issued
  BY DEF IInv
<1>a. /\ Len(queue) \in Nat /\ Len(executed) \in Nat /\ now \in Nat
      /\ MaxCmds \in Nat /\ issued \in 0 .. MaxCmds
  BY ListFacts
<1>b. Cmd \subseteq Nat \ {0} /\ \A n \in Nat \ {0} : n <= MaxCmds => n \in Cmd
  BY DEF Cmd
<1>1. ASSUME NEW t \in Threads, NEW k \in Kinds, Enqueue(t, k) \/ EnqueueNoPayload(t, k)
      PROVE  /\ (ListInv /\ PurgeInv)'
             /\ \A u \in Threads : target'[u] <= issued'
             /\ dangled' => AllocMayFail
  <2>1. /\ issued < MaxCmds /\ issued + 1 \in Cmd /\ issued' = issued + 1
        /\ queue' = Append(queue, issued + 1)
        /\ UNCHANGED <<workerPc, qpos, now, executed, dangled>>
    BY <1>1, EnqueueFacts
  <2>2. PICK b \in {NULL} \cup Free, st \in {"queued", "ghost"} :
          status' = [m \in Cmd |-> IF m = issued + 1 THEN st
                                     ELSE IF m = b THEN "reused" ELSE status[m]]
    BY <1>1, EnqueueFacts
  <2>3. /\ Len(queue') = Len(queue) + 1
        /\ \A m \in 1 .. Len(queue) : queue'[m] = queue[m]
        /\ queue'[Len(queue) + 1] = issued + 1
    BY <1>0, <2>1, AppendProperties DEF TypeOK
  <2>4. \A m \in 1 .. Len(queue) : queue[m] \in Nat /\ queue[m] <= issued
    <3> SUFFICES ASSUME NEW m \in 1 .. Len(queue) PROVE queue[m] \in Nat /\ queue[m] <= issued
      OBVIOUS
    <3>1. queue[m] \in Cmd /\ Linked(queue[m])
      BY ListFacts DEF Linked
    <3> QED BY <1>b, <3>1, LinkedIsCreated
  <2>5. \A n \in Cmd : Linked(n)' <=> Linked(n) \/ n = issued + 1
    <3>1. \A n \in Cmd : Linked(n)' => Linked(n) \/ n = issued + 1
      BY <1>a, <2>3 DEF Linked
    <3>2. \A n \in Cmd : Linked(n) => Linked(n)'
      BY <1>a, <2>3 DEF Linked
    <3>3. \A n \in Cmd : n = issued + 1 => Linked(n)'
      <4>1. Len(queue) + 1 \in 1 .. Len(queue')
        BY <1>a, <2>3
      <4> QED BY <2>3, <4>1 DEF Linked
    <3> QED BY <3>1, <3>2, <3>3
  <2>6. b # NULL => b \in Cmd /\ status[b] = "freed" /\ b <= issued
    <3> SUFFICES ASSUME b # NULL PROVE b \in Cmd /\ status[b] = "freed" /\ b <= issued
      OBVIOUS
    <3>1. b \in Cmd /\ status[b] = "freed"
      BY DEF Free
    <3>2. ~(b > issued)
      BY <1>0, <3>1 DEF ListInv
    <3> QED BY <1>a, <1>b, <3>1, <3>2
  <2>7. \A n \in Cmd : status'[n] \in InList <=> status[n] \in InList \/ n = issued + 1
    <3>1. \A n \in Cmd : n # issued + 1 /\ n # b => status'[n] = status[n]
      BY <2>2
    <3>2. b # NULL => status'[b] \notin InList /\ status[b] \notin InList /\ b # issued + 1
      BY <1>a, <1>b, <2>2, <2>6 DEF InList
    <3>3. status'[issued + 1] \in InList
      BY <2>1, <2>2 DEF InList
    <3>4. \A n \in Cmd : n # NULL
      BY <1>b DEF NULL
    <3> QED BY <3>1, <3>2, <3>3, <3>4
  <2>8. ListInv'
    <3>1. ASSUME NEW i \in 1 .. Len(queue'), NEW j \in 1 .. Len(queue'), i < j
          PROVE  queue'[i] < queue'[j]
      <4>1. i \in 1 .. Len(queue)
        BY <1>a, <2>3, <3>1
      <4>2. CASE j = Len(queue) + 1
        BY <1>a, <2>3, <2>4, <4>1, <4>2
      <4>3. CASE j \in 1 .. Len(queue)
        BY <2>3, <3>1, <4>1, <4>3, ListFacts
      <4> QED BY <1>a, <2>3, <4>2, <4>3
    <3>2. \A n \in Cmd : Linked(n)' <=> status'[n] \in InList
      BY <2>5, <2>7, ListFacts
    <3>3. ASSUME NEW n \in Cmd PROVE status'[n] = "none" <=> n > issued + 1
      <4>1. CASE n = issued + 1
        BY <1>a, <2>2, <4>1
      <4>2. CASE n # issued + 1 /\ n = b
        BY <1>a, <1>b, <2>2, <2>6, <4>2 DEF NULL
      <4>3. CASE n # issued + 1 /\ n # b
        <5>1. status'[n] = status[n] /\ (n > issued <=> n > issued + 1)
          BY <1>a, <1>b, <2>2, <4>3
        <5> QED BY <1>0, <5>1 DEF ListInv
      <4> QED BY <4>1, <4>2, <4>3
    <3> QED BY <2>1, <3>1, <3>2, <3>3 DEF ListInv
  <2>9. PurgeInv'
    <3> SUFFICES ASSUME qpos # NULL PROVE status'[qpos] \in InList
      BY <1>0, <2>1 DEF PurgeInv
    <3>1. qpos \in Cmd /\ status[qpos] \in InList
      BY <1>0 DEF PurgeInv, TypeOK
    <3> QED BY <2>7, <3>1
  <2>10. \A u \in Threads : target'[u] <= issued'
    <3>1. \A u \in Threads : target'[u] = target[u] \/ target'[u] = issued + 1
      BY <1>0, <1>1 DEF Enqueue, EnqueueNoPayload, threadVars, TypeOK
    <3> QED BY <1>0, <1>a, <2>1, <3>1 DEF TypeOK
  <2> QED BY <1>0, <2>1, <2>8, <2>9, <2>10
<1>2. ASSUME NEW t \in Threads,
             \/ \E k \in Kinds : EnqueueNoCommand(t, k)
             \/ CallFinish(t) \/ FinishDone(t) \/ Retain(t) \/ Release(t) \/ ReleaseJoined(t)
      PROVE  /\ (ListInv /\ PurgeInv)'
             /\ \A u \in Threads : target'[u] <= issued'
             /\ dangled' => AllocMayFail
  <2>1. UNCHANGED <<listVars, workerVars, heapVars>>
    BY <1>2 DEF EnqueueNoCommand, CallFinish, FinishDone, Retain, Release, ReleaseJoined
  <2>2. ListInv' /\ PurgeInv' /\ (dangled' => AllocMayFail)
    BY <1>0, <2>1 DEF listVars, workerVars, heapVars, Linked, ListInv, PurgeInv
  <2>3. \A u \in Threads : target'[u] \in {target[u], issued, 0}
    BY <1>0, <1>2 DEF EnqueueNoCommand, CallFinish, FinishDone, Retain, Release, ReleaseJoined,
       threadVars, TypeOK
  <2> QED BY <1>0, <1>a, <2>1, <2>2, <2>3 DEF listVars
<1>3. CASE \/ WorkerTest \/ WorkerLock \/ DispatchFreed \/ DispatchAgain \/ DispatchWild
           \/ DispatchNothing \/ PurgeEnd
  <2>1. /\ UNCHANGED <<queue, status, issued, target, dangled>>
        /\ qpos' = NULL \/ (qpos' = qpos /\ workerPc \in {"test", "lock", "dispatch"})
    BY <1>3 DEF WorkerTest, WorkerLock, DispatchFreed, DispatchAgain, DispatchWild,
       DispatchNothing, PurgeEnd, WorkerGoto, threadVars, listVars, heapVars
  <2>2. ListInv'
    BY <1>0, <2>1 DEF Linked, ListInv
  <2>3. qpos' = NULL
    BY <1>0, <2>1 DEF PurgeInv
  <2> QED BY <1>0, <2>1, <2>2, <2>3 DEF PurgeInv
<1>4. CASE Dispatch
  <2>1. /\ Linked(currentEvent) /\ status' = [status EXCEPT ![currentEvent] = "complete"]
        /\ UNCHANGED <<queue, issued, qpos, target, dangled>>
        /\ workerPc = "dispatch"
    BY <1>4 DEF Dispatch, WorkerGoto, threadVars, heapVars
  <2>2. currentEvent \in Cmd /\ status[currentEvent] \in InList
    <3>1. currentEvent \in Cmd
      BY <2>1, ListFacts DEF Linked
    <3> QED BY <2>1, <3>1, ListFacts
  <2>3. \A n \in Cmd : status'[n] = IF n = currentEvent THEN "complete" ELSE status[n]
    BY <1>0, <2>1, <2>2 DEF TypeOK
  <2>4. ListInv'
    <3>1. \A n \in Cmd : Linked(n)' <=> Linked(n)
      BY <2>1 DEF Linked
    <3>2. \A n \in Cmd : /\ status'[n] \in InList <=> status[n] \in InList
                         /\ status'[n] = "none" <=> status[n] = "none"
      BY <2>2, <2>3 DEF InList
    <3> QED BY <1>0, <2>1, <3>1, <3>2 DEF ListInv
  <2>5. qpos' = NULL
    BY <1>0, <2>1 DEF PurgeInv
  <2> QED BY <1>0, <2>1, <2>4, <2>5 DEF PurgeInv
<1>5. CASE ReadClock
  <2>1. /\ UNCHANGED <<queue, status, issued, target, dangled>>
        /\ qpos' = IF queue = <<>> THEN NULL ELSE Head(queue)
        /\ workerPc' = "purge"
    BY <1>5 DEF ReadClock, WorkerGoto, threadVars, listVars, heapVars
  <2>2. ListInv'
    BY <1>0, <2>1 DEF Linked, ListInv
  <2>3. qpos' # NULL => status[qpos'] \in InList
    BY <2>1, HeadFacts, ListFacts
  <2> QED BY <1>0, <2>1, <2>2, <2>3 DEF PurgeInv
<1>6. CASE PurgeKeep
  <2>1. /\ UNCHANGED <<queue, status, issued, target, dangled, workerPc>> /\ qpos \in Cmd
        /\ qpos # NULL /\ qpos' = Successor(qpos) /\ workerPc = "purge"
    BY <1>0, <1>6 DEF PurgeKeep, AtComplete, threadVars, listVars, heapVars, TypeOK
  <2>2. Linked(qpos)
    BY <1>0, <2>1, ListFacts DEF PurgeInv
  <2>3. qpos' # NULL => status[qpos'] \in InList
    BY <2>1, <2>2, SuccessorFacts, ListFacts
  <2>4. ListInv'
    BY <1>0, <2>1 DEF Linked, ListInv
  <2> QED BY <1>0, <2>1, <2>3, <2>4 DEF PurgeInv
<1>7. CASE PurgeFree
  <2>1. /\ UNCHANGED <<issued, target>> /\ qpos \in Cmd /\ Linked(qpos)
        /\ queue' = Unlink(qpos) /\ status' = [status EXCEPT ![qpos] = "freed"]
        /\ status[qpos] \in {"complete", "ghost"}
        /\ workerPc' \in {"purge", "crashed"}
        /\ qpos' # NULL => qpos' = Successor(qpos)
        /\ dangled' = (dangled \/ qpos = currentEvent)
    BY <1>7, PurgeFreeFacts
  <2>2. \A n \in Cmd : status'[n] = IF n = qpos THEN "freed" ELSE status[n]
    BY <1>0, <2>1 DEF TypeOK
  <2>3. ListInv'
    <3>1. \A n \in Cmd : Linked(n)' <=> Linked(n) /\ n # qpos
      BY <2>1, UnlinkFacts
    <3>2. \A n \in Cmd : /\ status'[n] \in InList <=> status[n] \in InList /\ n # qpos
                         /\ status'[n] = "none" <=> status[n] = "none"
      BY <2>1, <2>2 DEF InList
    <3>3. \A i, j \in 1 .. Len(queue') : i < j => queue'[i] < queue'[j]
      BY <2>1, UnlinkFacts
    <3>4. \A n \in Cmd : status'[n] = "none" <=> n > issued'
      BY <1>0, <2>1, <3>2 DEF ListInv
    <3> QED BY <3>1, <3>2, <3>3, <3>4, ListFacts DEF ListInv
  <2>4. PurgeInv'
    <3> SUFFICES ASSUME qpos' # NULL PROVE status'[qpos'] \in InList
      BY <2>1 DEF PurgeInv
    <3>1. qpos' \in Cmd /\ Linked(qpos') /\ qpos' > qpos
      BY <2>1, SuccessorFacts
    <3> QED BY <1>b, <2>1, <2>2, <3>1, ListFacts
  <2>5. dangled' => AllocMayFail
    <3> SUFFICES ASSUME ~dangled, qpos = currentEvent PROVE AllocMayFail
      BY <1>0, <2>1
    <3>1. currentEvent = Len(executed) + 1 /\ Len(executed) < issued
      BY <1>a, <1>b, <2>1 DEF IInv, ProgressInv, NULL
    <3>2. status[qpos] \in Pending
      BY <1>a, <3>1, PendingIsLinked
    <3> QED BY <2>1, <3>2 DEF Pending
  <2> QED BY <1>0, <2>1, <2>3, <2>4, <2>5
<1>8. CASE UNCHANGED vars
  BY <1>0, <1>8 DEF vars, listVars, workerVars, heapVars, threadVars, Linked, ListInv, PurgeInv
<1> QED BY <1>1, <1>2, <1>3, <1>4, <1>5, <1>6, <1>7, <1>8 DEF Next, WorkerStep, ThreadStep

(* Until currentEvent dangles it is the next command to dispatch, and the  *)
(* purge does not get past it.                                             *)
LEMMA ProgressStep ==
  ASSUME IInv, [Next]_vars, ~dangled'
  PROVE  ~dangled /\ ProgressInv' /\ PurgeBehind'
<1>d. ~dangled
  BY DEF Next, WorkerStep, ThreadStep, WorkerTest, WorkerLock, Dispatch, DispatchFreed,
     DispatchAgain, DispatchWild, DispatchNothing, ReadClock, PurgeKeep, PurgeFree, PurgeEnd,
     Enqueue, EnqueueNoPayload, EnqueueNoCommand, Link, CallFinish, FinishDone, Retain, Release,
     ReleaseJoined, heapVars, vars
<1> SUFFICES ProgressInv' /\ PurgeBehind'
  BY <1>d
<1>0. TypeOK /\ ListInv /\ PurgeInv /\ ProgressInv /\ PurgeBehind
  BY <1>d DEF IInv
<1>a. /\ Len(queue) \in Nat /\ Len(executed) \in Nat /\ now \in Nat
      /\ MaxCmds \in Nat /\ issued \in 0 .. MaxCmds
  BY ListFacts
<1>b. Cmd \subseteq Nat \ {0} /\ \A n \in Nat \ {0} : n <= MaxCmds => n \in Cmd
  BY DEF Cmd
<1>c. Len(executed) < issued => /\ Len(executed) + 1 \in Cmd /\ Linked(Len(executed) + 1)
                                /\ status[Len(executed) + 1] \in Pending
                                /\ currentEvent = Len(executed) + 1
  <2> SUFFICES ASSUME Len(executed) < issued
               PROVE  /\ Len(executed) + 1 \in Cmd /\ Linked(Len(executed) + 1)
                      /\ status[Len(executed) + 1] \in Pending
                      /\ currentEvent = Len(executed) + 1
    OBVIOUS
  <2>1. Len(executed) + 1 \in Len(executed) + 1 .. issued
    BY <1>a
  <2> QED BY <1>0, <1>a, <1>d, <2>1, PendingIsLinked DEF ProgressInv
<1>1. ASSUME NEW t \in Threads, NEW k \in Kinds, Enqueue(t, k) \/ EnqueueNoPayload(t, k)
      PROVE  ProgressInv' /\ PurgeBehind'
  <2>1. /\ issued < MaxCmds /\ issued + 1 \in Cmd /\ issued' = issued + 1
        /\ UNCHANGED <<qpos, now, executed>>
    BY <1>1, EnqueueFacts
  <2>2. PICK b \in {NULL} \cup Free, st \in {"queued", "ghost"} :
          /\ st = "ghost" => AllocMayFail
          /\ currentEvent' = Scheduled(issued + 1, b)
          /\ status' = [m \in Cmd |-> IF m = issued + 1 THEN st
                                     ELSE IF m = b THEN "reused" ELSE status[m]]
    BY <1>1, EnqueueFacts
  <2>3. b # NULL => b \in Cmd /\ status[b] = "freed" /\ b <= Len(executed)
    <3> SUFFICES ASSUME b # NULL PROVE b \in Cmd /\ status[b] = "freed" /\ b <= Len(executed)
      OBVIOUS
    <3>1. b \in Cmd /\ status[b] = "freed"
      BY DEF Free
    <3>2. ~(b > issued)
      BY <1>0, <3>1 DEF ListInv
    <3>3. b \in 1 .. issued
      BY <1>a, <1>b, <3>1, <3>2
    <3>4. b <= Len(executed)
      BY <1>0, <3>1, <3>3 DEF ProgressInv, Pending
    <3> QED BY <3>1, <3>4
  <2>4. currentEvent' = IF Len(executed) = issued + 1 THEN NULL ELSE Len(executed) + 1
    <3>1. CASE Len(executed) = issued
      BY <1>0, <1>a, <2>2, <3>1 DEF ProgressInv, Scheduled
    <3>2. CASE Len(executed) # issued
      <4>1. currentEvent = Len(executed) + 1 /\ Len(executed) < issued
        BY <1>0, <1>a, <3>2 DEF ProgressInv
      <4>2. currentEvent \notin {NULL, b}
        BY <1>a, <1>b, <2>3, <4>1 DEF NULL
      <4> QED BY <1>a, <2>2, <4>1, <4>2 DEF Scheduled
    <3> QED BY <3>1, <3>2
  <2>5. ASSUME NEW n \in 1 .. issued + 1
        PROVE  status'[n] \in IF n <= Len(executed) THEN {"complete", "freed", "reused"}
                              ELSE Pending
    <3>1. n \in Cmd
      BY <1>a, <1>b, <2>1
    <3>2. CASE n = issued + 1
      <4>1. status'[n] = st /\ ~(n <= Len(executed))
        BY <1>0, <1>a, <2>2, <3>1, <3>2 DEF ProgressInv
      <4> QED BY <2>2, <4>1 DEF Pending
    <3>3. CASE n # issued + 1 /\ n = b
      BY <1>b, <2>2, <2>3, <3>1, <3>3 DEF NULL
    <3>4. CASE n # issued + 1 /\ n # b
      <4>1. n \in 1 .. issued /\ status'[n] = status[n]
        BY <1>a, <2>2, <3>1, <3>4
      <4> QED BY <1>0, <4>1 DEF ProgressInv
    <3> QED BY <3>2, <3>3, <3>4
  <2>6. ProgressInv'
    BY <1>0, <1>a, <2>1, <2>4, <2>5 DEF ProgressInv, Pending
  <2>7. PurgeBehind'
    <3> SUFFICES ASSUME qpos # NULL PROVE qpos <= Len(executed) + 1
      BY <2>1 DEF PurgeBehind
    <3>1. qpos \in Cmd /\ qpos <= issued
      BY <1>0, ListFacts, LinkedIsCreated DEF PurgeInv, TypeOK
    <3>2. Len(executed) = issued \/ Len(executed) < issued
      BY <1>0, <1>a DEF ProgressInv
    <3> QED BY <1>0, <1>a, <1>b, <3>1, <3>2 DEF PurgeBehind
  <2> QED BY <2>6, <2>7
<1>2. ASSUME NEW t \in Threads,
             \/ \E k \in Kinds : EnqueueNoCommand(t, k)
             \/ CallFinish(t) \/ FinishDone(t) \/ Retain(t) \/ Release(t) \/ ReleaseJoined(t)
      PROVE  ProgressInv' /\ PurgeBehind'
  <2>1. UNCHANGED <<listVars, workerVars>>
    BY <1>2 DEF EnqueueNoCommand, CallFinish, FinishDone, Retain, Release, ReleaseJoined
  <2> QED BY <1>0, <2>1 DEF listVars, workerVars, ProgressInv, PurgeBehind
<1>3. CASE WorkerTest \/ WorkerLock \/ DispatchNothing \/ PurgeEnd
  <2>1. UNCHANGED <<listVars, now, executed>> /\ (qpos' = qpos \/ qpos' = NULL)
    BY <1>3 DEF WorkerTest, WorkerLock, DispatchNothing, PurgeEnd
  <2> QED BY <1>0, <2>1 DEF listVars, ProgressInv, PurgeBehind
<1>4. ~DispatchFreed /\ ~DispatchAgain /\ ~DispatchWild
  <2>0. currentEvent # Wild
    <3>1. currentEvent \in Nat
      BY <1>0, <1>a DEF ProgressInv, NULL
    <3> QED BY <3>1, WildAssumption
  <2> SUFFICES ASSUME currentEvent \in Free PROVE FALSE
    BY <2>0 DEF DispatchFreed, DispatchAgain, DispatchWild
  <2>1. currentEvent # NULL
    BY <1>b DEF Free, NULL
  <2>2. Len(executed) < issued
    BY <1>0, <1>a, <2>1 DEF ProgressInv
  <2> QED BY <1>c, <2>2 DEF Free, Pending
<1>5. CASE Dispatch
  <2>1. /\ currentEvent # NULL /\ executed' = Append(executed, currentEvent)
        /\ status' = [status EXCEPT ![currentEvent] = "complete"]
        /\ currentEvent' = Successor(currentEvent) /\ Linked(currentEvent)
        /\ UNCHANGED <<queue, issued, qpos, now>> /\ workerPc = "dispatch"
    BY <1>5 DEF Dispatch, WorkerGoto
  <2>2. currentEvent = Len(executed) + 1 /\ Len(executed) < issued /\ currentEvent \in Cmd
    BY <1>0, <1>a, <1>b, <2>1 DEF ProgressInv
  <2>3. /\ Len(executed') = Len(executed) + 1
        /\ \A m \in 1 .. Len(executed) : executed'[m] = executed[m]
        /\ executed'[Len(executed) + 1] = currentEvent
    BY <1>0, <2>1, <2>2, AppendProperties DEF TypeOK
  <2>4. \A n \in Cmd : status'[n] = IF n = currentEvent THEN "complete" ELSE status[n]
    BY <1>0, <2>1, <2>2 DEF TypeOK
  <2>5. currentEvent' = IF Len(executed) + 1 = issued THEN NULL ELSE Len(executed) + 2
    <3>1. CASE Len(executed) + 1 = issued
      <4>1. ~(Successor(currentEvent) \in Cmd /\ Linked(Successor(currentEvent))
              /\ Successor(currentEvent) > currentEvent)
        <5> DEFINE s == Successor(currentEvent)
        <5> SUFFICES ASSUME s \in Cmd, Linked(s), s > currentEvent PROVE FALSE
          OBVIOUS
        <5>1. s <= issued /\ s \in Nat
          BY <1>b, LinkedIsCreated
        <5> HIDE DEF s
        <5> QED BY <1>a, <2>2, <3>1, <5>1
      <4>2. Successor(currentEvent) = NULL
        BY <2>1, <2>2, <4>1, SuccessorFacts
      <4> QED BY <2>1, <3>1, <4>2
    <3>2. CASE Len(executed) + 1 # issued
      <4> DEFINE next == Len(executed) + 2
      <4>1. next \in Len(executed) + 1 .. issued /\ next > currentEvent
        BY <1>a, <2>2, <3>2
      <4>2. next \in Cmd /\ Linked(next)
        BY <1>d, <4>1, PendingIsLinked
      <4>3. ~(next <= currentEvent)
        BY <1>a, <2>2
      <4>4. /\ Successor(currentEvent) \in Cmd /\ Successor(currentEvent) > currentEvent
            /\ Successor(currentEvent) <= next
        BY <2>1, <2>2, <4>1, <4>2, <4>3, SuccessorFacts
      <4>5. Successor(currentEvent) = next
        <5>1. Successor(currentEvent) \in Nat
          BY <1>b, <4>4
        <5> QED BY <1>a, <2>2, <4>4, <5>1
      <4>6. currentEvent' = Len(executed) + 2
        BY <2>1, <4>5
      <4> QED BY <3>2, <4>6
    <3> QED BY <3>1, <3>2
  <2>6. ProgressInv'
    <3>1. ASSUME NEW n \in 1 .. issued
          PROVE  status'[n] \in IF n <= Len(executed) + 1 THEN {"complete", "freed", "reused"}
                                ELSE Pending
      <4>1. n \in Cmd
        BY <1>a, <1>b
      <4>2. CASE n = Len(executed) + 1
        BY <1>a, <2>2, <2>4, <4>1, <4>2
      <4>3. CASE n # Len(executed) + 1
        <5>1. status'[n] = status[n] /\ (n <= Len(executed) + 1 <=> n <= Len(executed))
          BY <1>a, <2>2, <2>4, <4>1, <4>3
        <5> QED BY <1>0, <5>1 DEF ProgressInv
      <4> QED BY <4>2, <4>3
    <3>2. \A m \in 1 .. Len(executed) + 1 : executed'[m] = m
      BY <1>0, <1>a, <2>2, <2>3 DEF ProgressInv
    <3>3. Len(executed) + 1 + 1 = Len(executed) + 2 /\ Len(executed) + 1 <= issued
          /\ now <= Len(executed) + 1
      BY <1>0, <1>a, <2>2 DEF ProgressInv
    <3> QED BY <2>1, <2>3, <2>5, <3>1, <3>2, <3>3 DEF ProgressInv, Pending
  <2>7. qpos' = NULL
    BY <1>0, <2>1 DEF PurgeInv
  <2> QED BY <2>6, <2>7 DEF PurgeBehind
<1>6. CASE ReadClock
  <2>1. /\ UNCHANGED <<listVars, executed>> /\ now' \in now .. Len(executed)
        /\ qpos' = IF queue = <<>> THEN NULL ELSE Head(queue)
    BY <1>6 DEF ReadClock
  <2>2. ProgressInv'
    BY <1>0, <1>a, <2>1 DEF listVars, ProgressInv
  <2>3. qpos' # NULL /\ Len(executed) < issued => qpos' <= Len(executed) + 1
    BY <1>c, <2>1, HeadFacts
  <2> QED BY <2>1, <2>2, <2>3 DEF PurgeBehind, listVars
<1>7. CASE PurgeKeep
  <2>1. /\ UNCHANGED <<listVars, now, executed>> /\ qpos \in Cmd
        /\ status[qpos] \in {"complete", "ghost"} /\ ~Expired(qpos) /\ qpos' = Successor(qpos)
    BY <1>0, <1>7 DEF PurgeKeep, AtComplete, TypeOK
  <2>2. status[qpos] = "complete" /\ Linked(qpos)
    BY <2>1, ListFacts DEF Expired, InList
  <2>3. qpos <= Len(executed)
    <3>1. qpos \in 1 .. issued
      BY <1>a, <1>b, <2>1, <2>2, LinkedIsCreated
    <3> QED BY <1>0, <2>2, <3>1 DEF ProgressInv, Pending
  <2>4. qpos' # NULL /\ Len(executed) < issued => qpos' <= Len(executed) + 1
    <3>1. qpos < Len(executed) + 1
      BY <1>a, <1>b, <2>1, <2>3
    <3> QED BY <1>c, <2>1, <2>2, <3>1, SuccessorFacts
  <2>5. ProgressInv'
    BY <1>0, <2>1 DEF listVars, ProgressInv
  <2> QED BY <2>1, <2>4, <2>5 DEF PurgeBehind, listVars
<1>8. CASE PurgeFree
  <2>1. /\ UNCHANGED <<currentEvent, issued, now, executed>> /\ qpos \in Cmd /\ Linked(qpos)
        /\ status' = [status EXCEPT ![qpos] = "freed"] /\ qpos # currentEvent
        /\ qpos' # NULL => qpos' = Successor(qpos)
    BY <1>8, PurgeFreeFacts
  <2>2. qpos <= Len(executed)
    <3>1. qpos \in 1 .. issued
      BY <1>a, <1>b, <2>1, LinkedIsCreated
    <3>2. CASE Len(executed) < issued
      <4>1. qpos <= Len(executed) + 1 /\ qpos # Len(executed) + 1
        BY <1>0, <1>b, <1>c, <2>1, <3>2 DEF PurgeBehind, NULL
      <4> QED BY <1>a, <3>1, <4>1
    <3>3. CASE Len(executed) = issued
      BY <3>1, <3>3
    <3> QED BY <1>0, <1>a, <3>2, <3>3 DEF ProgressInv
  <2>3. \A n \in Cmd : status'[n] = IF n = qpos THEN "freed" ELSE status[n]
    BY <1>0, <2>1 DEF TypeOK
  <2>4. ProgressInv'
    <3>1. ASSUME NEW n \in 1 .. issued
          PROVE  status'[n] \in IF n <= Len(executed) THEN {"complete", "freed", "reused"}
                                ELSE Pending
      <4>1. n \in Cmd
        BY <1>a, <1>b
      <4>2. status[n] \in IF n <= Len(executed) THEN {"complete", "freed", "reused"}
                          ELSE Pending
        BY <1>0 DEF ProgressInv
      <4> QED BY <2>2, <2>3, <4>1, <4>2
    <3> QED BY <1>0, <2>1, <3>1 DEF ProgressInv, Pending
  <2>5. qpos' # NULL /\ Len(executed) < issued => qpos' <= Len(executed) + 1
    <3>1. qpos < Len(executed) + 1
      BY <1>a, <1>b, <2>1, <2>2
    <3> QED BY <1>c, <2>1, <3>1, SuccessorFacts
  <2> QED BY <2>1, <2>4, <2>5 DEF PurgeBehind
<1>9. CASE UNCHANGED vars
  BY <1>0, <1>9 DEF vars, listVars, workerVars, ProgressInv, PurgeBehind
<1> QED BY <1>d, <1>1, <1>2, <1>3, <1>4, <1>5, <1>6, <1>7, <1>8, <1>9
        DEF Next, WorkerStep, ThreadStep

-----------------------------------------------------------------------------
(* The theorems. *)

LEMMA InitInv == Init => IInv
<1> SUFFICES ASSUME Init PROVE IInv
  OBVIOUS
<1>1. /\ queue = <<>> /\ executed = <<>> /\ issued = 0 /\ now = 0 /\ currentEvent = NULL
      /\ qpos = NULL /\ dangled = FALSE /\ target = [t \in Threads |-> 0]
      /\ status = [n \in Cmd |-> "none"]
  BY DEF Init
<1>2. Len(queue) = 0 /\ Len(executed) = 0
  BY <1>1, EmptySeq
<1>3. ListInv
  <2>1. 1 .. Len(queue) = {}
    BY <1>2
  <2>2. \A n \in Cmd : ~Linked(n) /\ status[n] \notin InList
    BY <1>1, <2>1 DEF Linked, InList
  <2>3. \A n \in Cmd : status[n] = "none" /\ n > issued
    BY <1>1 DEF Cmd
  <2> QED BY <2>1, <2>2, <2>3 DEF ListInv
<1>4. ProgressInv
  BY <1>1, <1>2 DEF ProgressInv
<1>5. PurgeInv /\ PurgeBehind /\ \A t \in Threads : target[t] <= issued
  BY <1>1 DEF PurgeInv, PurgeBehind
<1> QED BY <1>1, <1>3, <1>4, <1>5, TypeInit DEF IInv

LEMMA InvStep == IInv /\ [Next]_vars => IInv'
<1>1. IInv /\ [Next]_vars /\ ~dangled' => ProgressInv' /\ PurgeBehind'
  BY ProgressStep
<1> QED BY <1>1, TypeStep, ListInvStep DEF IInv

(* IInv is inductive: what the list, the purge and, until currentEvent has *)
(* pointed to a freed command, the progress through the list know of each  *)
(* other is enough for every property below.                               *)
THEOREM Invariance == Spec => []IInv
BY InitInv, InvStep, PTL DEF Spec

(* Every variable of the queue, its worker, its users and the heap keeps   *)
(* its type.                                                               *)
THEOREM TypeCorrect == Spec => []TypeOK
<1>1. IInv => TypeOK
  BY DEF IInv
<1> QED BY <1>1, Invariance, PTL

(* currentEvent is the first pending command of the list, whatever the     *)
(* purge frees around it, until the purge frees a command under it.        *)
THEOREM CurrentIsAlwaysFirstPending == Spec => []CurrentIsFirstPending
<1>1. IInv => CurrentIsFirstPending
  <2> SUFFICES ASSUME IInv, ~dangled PROVE CurrentIsFirstPending
    BY DEF CurrentIsFirstPending
  <2>0. Cmd \subseteq Nat \ {0} /\ Len(executed) \in Nat /\ issued \in 0 .. MaxCmds /\ MaxCmds \in Nat
    BY ListFacts DEF Cmd
  <2>1. ASSUME NEW k \in 1 .. Len(queue)
        PROVE  /\ queue[k] \in Cmd /\ queue[k] <= issued
               /\ status[queue[k]] \in IF queue[k] <= Len(executed) THEN {"complete"}
                                      ELSE {"queued", "ghost"}
    <3>1. queue[k] \in Cmd /\ Linked(queue[k])
      BY ListFacts DEF Linked
    <3>2. queue[k] <= issued /\ status[queue[k]] \in InList
      BY <3>1, LinkedIsCreated, ListFacts
    <3>3. queue[k] \in 1 .. issued
      <4>1. queue[k] \in Nat \ {0}
        BY <2>0, <3>1
      <4> QED BY <2>0, <3>2, <4>1
    <3> QED BY <3>1, <3>2, <3>3 DEF IInv, ProgressInv, InList, Pending
  <2>2. CASE Len(executed) = issued
    <3>1. currentEvent = NULL
      BY <2>2 DEF IInv, ProgressInv
    <3>2. \A m \in 1 .. Len(queue) : status[queue[m]] = "complete"
      BY <2>1, <2>2
    <3> QED BY <3>1, <3>2 DEF CurrentIsFirstPending
  <2>3. CASE Len(executed) # issued
    <3>1. Linked(Len(executed) + 1) /\ currentEvent = Len(executed) + 1
      <4>1. Len(executed) + 1 \in Len(executed) + 1 .. issued
        BY <2>0, <2>3 DEF IInv, ProgressInv
      <4> QED BY <2>3, <4>1, PendingIsLinked DEF IInv, ProgressInv
    <3>2. PICK m \in 1 .. Len(queue) : queue[m] = currentEvent
      BY <3>1 DEF Linked
    <3>3. ASSUME NEW k \in 1 .. Len(queue)
          PROVE  status[queue[k]] \in IF k < m THEN {"complete"} ELSE {"queued", "ghost"}
      <4>1. CASE k < m
        <5>1. queue[k] < queue[m]
          BY <3>2, <4>1, ListFacts
        <5>2. queue[k] \in Nat /\ queue[m] = Len(executed) + 1
          BY <2>0, <2>1, <3>1, <3>2
        <5>3. queue[k] <= Len(executed)
          BY <2>0, <5>1, <5>2
        <5> QED BY <2>1, <4>1, <5>3
      <4>2. CASE ~(k < m)
        <5>1. k = m \/ queue[m] < queue[k]
          BY <3>2, <4>2, ListFacts
        <5>2. queue[k] \in Nat /\ queue[m] = Len(executed) + 1
          BY <2>0, <2>1, <3>1, <3>2
        <5>3. ~(queue[k] <= Len(executed))
          BY <2>0, <5>1, <5>2
        <5> QED BY <2>1, <4>2, <5>3
      <4> QED BY <4>1, <4>2
    <3> QED BY <3>2, <3>3 DEF CurrentIsFirstPending
  <2> QED BY <2>2, <2>3
<1> QED BY <1>1, Invariance, PTL

(* Until currentEvent has pointed to a freed command, no command that was  *)
(* accepted is passed over for a later one, and none is executed twice.    *)
THEOREM NothingIsOvertaken == Spec => []NothingOvertaken
<1>1. IInv => NothingOvertaken
  <2> SUFFICES ASSUME IInv, ~dangled, NEW k \in 1 .. Len(executed)
               PROVE  /\ \A m \in 1 .. k - 1 : executed[m] < executed[k]
                      /\ \A n \in 1 .. executed[k] : status[n] # "queued"
    BY DEF NothingOvertaken
  <2>1. executed[k] = k /\ Len(executed) \in Nat /\ Len(executed) <= issued
        /\ issued \in 0 .. MaxCmds /\ MaxCmds \in Nat
    BY ListFacts DEF IInv, ProgressInv
  <2>2. ASSUME NEW m \in 1 .. k - 1 PROVE executed[m] < executed[k]
    <3>1. m \in 1 .. Len(executed) /\ m < k
      BY <2>1
    <3>2. executed[m] = m
      BY <3>1 DEF IInv, ProgressInv
    <3> QED BY <2>1, <3>1, <3>2
  <2>3. ASSUME NEW n \in 1 .. executed[k] PROVE status[n] # "queued"
    <3>1. n \in 1 .. issued /\ n <= Len(executed)
      BY <2>1
    <3> QED BY <3>1 DEF IInv, ProgressInv
  <2> QED BY <2>2, <2>3
<1> QED BY <1>1, Invariance, PTL

(* Only the purge can free a command under currentEvent, and only one      *)
(* whose payload could not be allocated and that was not dispatched.       *)
THEOREM OnlyGhostsAreFreedUnderCurrent == Spec => OnlyGhostsDangle
<1> DEFINE A == dangled' # dangled => /\ status[currentEvent] = "ghost"
                                      /\ \A m \in 1 .. Len(executed) : executed[m] < currentEvent
<1>1. IInv /\ [Next]_vars => [A]_vars
  <2> SUFFICES ASSUME IInv, [Next]_vars, dangled' # dangled
               PROVE  /\ status[currentEvent] = "ghost"
                      /\ \A m \in 1 .. Len(executed) : executed[m] < currentEvent
    OBVIOUS
  <2>1. PurgeFree
    BY DEF Next, WorkerStep, ThreadStep, WorkerTest, WorkerLock, Dispatch, DispatchFreed,
       DispatchAgain, DispatchWild, DispatchNothing, ReadClock, PurgeKeep, PurgeEnd,
       Enqueue, EnqueueNoPayload, EnqueueNoCommand, Link, CallFinish, FinishDone, Retain,
       Release, ReleaseJoined, heapVars, vars
  <2>2. /\ ~dangled /\ qpos = currentEvent /\ qpos \in Cmd
        /\ status[qpos] \in {"complete", "ghost"}
    BY <2>1, PurgeFreeFacts DEF IInv, TypeOK
  <2>3. Len(executed) \in Nat /\ issued \in Nat /\ Len(executed) <= issued
    BY <2>2, ListFacts DEF IInv, ProgressInv
  <2>4. currentEvent = Len(executed) + 1 /\ Len(executed) + 1 \in Len(executed) + 1 .. issued
    BY <2>2, <2>3 DEF IInv, ProgressInv, Cmd, NULL
  <2>5. status[currentEvent] \in Pending
    BY <2>2, <2>4, PendingIsLinked
  <2>6. ASSUME NEW m \in 1 .. Len(executed) PROVE executed[m] < currentEvent
    BY <2>2, <2>3, <2>4 DEF IInv, ProgressInv
  <2> QED BY <2>2, <2>5, <2>6 DEF Pending
<1> QED BY <1>1, Invariance, PTL DEF Spec, OnlyGhostsDangle

-----------------------------------------------------------------------------
(* The refinement.  Until currentEvent dangles, a step of the queue is a   *)
(* step of the command stream or leaves the stream as it is.               *)

Finishing == {t \in Threads : pc[t] = "finish"}

LEMMA RefinedInit == Init => Stream!Init
BY DEF Init, Stream!Init

LEMMA RefinedEnqueue ==
  ASSUME IInv, NEW t \in Threads, NEW k \in Kinds,
         Enqueue(t, k) \/ EnqueueNoPayload(t, k)
  PROVE  Stream!Next
<1>1. issued' = issued + 1 /\ executed' = executed /\ pc[t] = "out"
  BY EnqueueFacts
<1>2. CASE UNCHANGED threadVars
  <2>1. Finishing' = Finishing /\ target' = target
    BY <1>2 DEF threadVars, Finishing
  <2>2. Stream!Accept
    BY <1>1, <2>1 DEF Stream!Accept, Finishing
  <2> QED BY <2>2 DEF Stream!Next
<1>3. CASE ~UNCHANGED threadVars
  <2>1. pc' = [pc EXCEPT ![t] = "finish"] /\ target' = [target EXCEPT ![t] = issued + 1]
    BY <1>3 DEF Enqueue, EnqueueNoPayload
  <2>2. t \notin Finishing /\ Finishing' = Finishing \cup {t}
    BY <1>1, <2>1 DEF Finishing, IInv, TypeOK
  <2>3. Stream!AcceptAndFinish(t)
    BY <1>1, <2>1, <2>2 DEF Stream!AcceptAndFinish, Finishing
  <2> QED BY <2>3 DEF Stream!Next
<1> QED BY <1>2, <1>3

LEMMA RefinedCall ==
  ASSUME IInv, ~dangled, NEW t \in Threads,
         CallFinish(t) \/ FinishDone(t) \/ Retain(t) \/ Release(t) \/ ReleaseJoined(t)
  PROVE  [Stream!Next]_Stream!vars
<1>0. pc \in [Threads -> {"out", "finish", "join"}]
  BY DEF IInv, TypeOK
<1>1. CASE CallFinish(t)
  <2>1. /\ pc[t] = "out" /\ pc' = [pc EXCEPT ![t] = "finish"]
        /\ target' = [target EXCEPT ![t] = issued] /\ UNCHANGED <<issued, executed>>
    BY <1>1 DEF CallFinish, InUse, listVars, workerVars
  <2>2. t \notin Finishing /\ Finishing' = Finishing \cup {t}
    BY <1>0, <2>1 DEF Finishing
  <2>3. Stream!CallFinish(t)
    BY <2>1, <2>2 DEF Stream!CallFinish, Finishing
  <2> QED BY <2>3 DEF Stream!Next
<1>2. CASE FinishDone(t)
  <2>1. /\ pc[t] = "finish" /\ pc' = [pc EXCEPT ![t] = "out"] /\ currentEvent = NULL
        /\ target' = [target EXCEPT ![t] = 0] /\ UNCHANGED <<issued, executed>>
    BY <1>2 DEF FinishDone, AllDone, listVars, workerVars
  <2>2. t \in Finishing /\ Finishing' = Finishing \ {t}
    BY <1>0, <2>1 DEF Finishing
  <2>3. Len(executed) >= target[t]
    <3>1. Len(executed) \in Nat /\ target[t] \in Nat /\ issued \in Nat /\ target[t] <= issued
      BY ListFacts, BoundsAssumption DEF IInv, TypeOK
    <3>2. Len(executed) = issued
      BY <2>1, <3>1 DEF IInv, ProgressInv, NULL
    <3> QED BY <3>1, <3>2
  <2>4. Stream!ReturnFinish(t)
    BY <2>1, <2>2, <2>3 DEF Stream!ReturnFinish, Finishing
  <2> QED BY <2>4 DEF Stream!Next
<1>3. CASE Retain(t) \/ Release(t) \/ ReleaseJoined(t)
  <2>1. UNCHANGED <<issued, executed, target>>
    BY <1>3 DEF Retain, Release, ReleaseJoined, listVars, workerVars, threadVars
  <2>2. pc' = pc \/ (pc[t] # "finish" /\ \E to \in {"out", "join"} : pc' = [pc EXCEPT ![t] = to])
    BY <1>3 DEF Retain, Release, ReleaseJoined, InUse, threadVars
  <2>3. Finishing' = Finishing
    BY <1>0, <2>2 DEF Finishing
  <2> QED BY <2>1, <2>3 DEF Stream!vars, Finishing
<1> QED BY <1>1, <1>2, <1>3

LEMMA RefinedWorker ==
  ASSUME IInv, ~dangled, WorkerStep
  PROVE  [Stream!Next]_Stream!vars
<1>1. UNCHANGED <<pc, target, issued>> /\ Finishing' = Finishing
  BY DEF WorkerStep, WorkerTest, WorkerLock, Dispatch, DispatchFreed, DispatchAgain, DispatchWild,
     DispatchNothing, ReadClock, PurgeKeep, PurgeFree, PurgeEnd, listVars, threadVars, Finishing
<1>2. Len(executed) \in Nat /\ issued \in Nat
  BY ListFacts
<1>3. CASE Dispatch
  <2>1. currentEvent # NULL /\ executed' = Append(executed, currentEvent)
    BY <1>3 DEF Dispatch
  <2>2. currentEvent = Len(executed) + 1 /\ Len(executed) < issued
    BY <1>2, <2>1 DEF IInv, ProgressInv
  <2>3. Stream!Execute
    BY <1>1, <2>1, <2>2 DEF Stream!Execute, Finishing
  <2> QED BY <2>3 DEF Stream!Next
<1>4. ~DispatchAgain
  <2> SUFFICES ASSUME currentEvent \in Free PROVE FALSE
    BY DEF DispatchAgain
  <2>1. Len(executed) < issued /\ currentEvent = Len(executed) + 1
    BY <1>2 DEF Free, Cmd, NULL, IInv, ProgressInv
  <2>2. status[currentEvent] \in Pending
    BY <1>2, <2>1, PendingIsLinked
  <2> QED BY <2>2 DEF Free, Pending
<1>5. CASE ~Dispatch
  <2>1. executed' = executed
    BY <1>4, <1>5 DEF WorkerStep, WorkerTest, WorkerLock, DispatchFreed, DispatchWild,
       DispatchNothing, ReadClock, PurgeKeep, PurgeFree, PurgeEnd
  <2> QED BY <1>1, <2>1 DEF Stream!vars, Finishing
<1> QED BY <1>3, <1>5

LEMMA RefinedStep == IInv /\ ~dangled /\ [Next]_vars => [Stream!Next]_Stream!vars
<1> SUFFICES ASSUME IInv, ~dangled, [Next]_vars PROVE [Stream!Next]_Stream!vars
  OBVIOUS
<1>1. CASE WorkerStep
  BY <1>1, RefinedWorker
<1>2. ASSUME NEW t \in Threads, ThreadStep(t) PROVE [Stream!Next]_Stream!vars
  <2>1. ASSUME NEW k \in Kinds, Enqueue(t, k) \/ EnqueueNoPayload(t, k) PROVE Stream!Next
    BY <2>1, RefinedEnqueue
  <2>2. ASSUME NEW k \in Kinds, EnqueueNoCommand(t, k) PROVE UNCHANGED Stream!vars
    BY <2>2 DEF EnqueueNoCommand, listVars, workerVars, threadVars, Stream!vars
  <2> QED BY <1>2, <2>1, <2>2, RefinedCall DEF ThreadStep
<1>3. CASE UNCHANGED vars
  BY <1>3 DEF vars, listVars, workerVars, threadVars, Stream!vars
<1> QED BY <1>1, <1>2, <1>3 DEF Next

(* Until currentEvent has pointed to a freed command, the queue is an      *)
(* in-order command stream: commands are executed in the order of the      *)
(* enqueue calls, each once, and clFinish is a barrier.                    *)
THEOREM QueueIsInOrder == Spec => InOrder
<1>1. IInv /\ [Next]_vars => [dangled \/ Stream!Next]_Stream!vars
  BY RefinedStep
<1> QED BY RefinedInit, <1>1, Invariance, PTL DEF Spec, InOrder

(* Where allocations do not fail, currentEvent never points to a freed     *)
(* command, and the queue is an in-order command stream without exception. *)
THEOREM OrderWithoutFailures ==
  ASSUME ~AllocMayFail
  PROVE  Spec => []~dangled /\ Stream!Spec
<1>1. IInv => ~dangled
  BY DEF IInv
<1>2. IInv /\ [Next]_vars => [Stream!Next]_Stream!vars
  BY <1>1, RefinedStep
<1> QED BY RefinedInit, <1>1, <1>2, Invariance, PTL DEF Spec, Stream!Spec
=============================================================================
