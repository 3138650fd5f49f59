---------------------------- MODULE CommandQueue -----------------------------
(***************************************************************************)
(* The host's command queue (src/host/cl_cqueue.c) with the enqueue        *)
(* functions of cl_mem.c and cl_kernel.c that feed it.                     *)
(*                                                                         *)
(* Application threads append commands, poll in clFinish, retain and       *)
(* release the queue; they serialise their retains and releases, which     *)
(* update the reference count without a lock.  One worker thread per queue *)
(* dispatches the command currentEvent points to, advances it, and frees   *)
(* completed commands that are older than EVENT_EXPIRY_TIME_S.  It holds   *)
(* queue_mutex over all of that, the exchange with the device included;    *)
(* the critical sections of the application's calls are short and are      *)
(* single steps.                                                           *)
(*                                                                         *)
(* Commands are numbered by the queue_add that created them.  The clock    *)
(* is reduced to `now': how many of the dispatched commands had completed  *)
(* EVENT_EXPIRY_TIME_S ago when the worker last read it (time_t does not   *)
(* run backwards here).                                                    *)
(*                                                                         *)
(* The worker reads commands it has freed: the purge always, the dispatch  *)
(* where an allocation has failed.  A freed command's number then stands   *)
(* for its block, until queue_add is given the block for a new command.    *)
(***************************************************************************)
EXTENDS Naturals, Sequences

CONSTANTS
  Threads,        \* application threads
  MaxCmds,        \* bound: queue_add calls
  MaxRefs,        \* bound: the queue's reference count
  AllocMayFail,   \* whether calloc can return NULL
  Nobody,         \* no owner of queue_mutex
  Wild            \* a pointer to no command's block

ASSUME BoundsAssumption == MaxCmds \in Nat /\ MaxRefs \in Nat \ {0}
ASSUME ThreadsAssumption == "worker" \notin Threads /\ Nobody \notin Threads \cup {"worker"}
ASSUME AllocAssumption == AllocMayFail \in BOOLEAN
ASSUME WildAssumption == Wild \notin Nat

VARIABLES
  queue,          \* the linked list, as the sequence of its commands
  currentEvent,   \* the command to dispatch next, or NULL
  queue_mutex,    \* its owner
  refcount,
  freed,          \* clReleaseCommandQueue has freed the queue
  status,         \* eventStatus of each command, or what became of its block
  keepsNext,      \* free and malloc leave the `next' of a freed block alone
  staleNext,      \* what the `next' of each freed block holds
  dangled,        \* history: currentEvent has pointed to a freed command
  workerPc,       \* where queue_worker is
  qpos,           \* its list position in the purge
  now,            \* its clock
  pc,             \* where each application thread is
  target,         \* history: what was issued when a thread entered clFinish
  issued,         \* how many commands queue_add has created
  executed        \* history: the commands dispatched, in order

listVars == <<queue, currentEvent, status, issued>>
workerVars == <<workerPc, qpos, now, executed>>
threadVars == <<pc, target>>
heapVars == <<keepsNext, staleNext, dangled>>
vars == <<listVars, workerVars, threadVars, heapVars, queue_mutex, refcount, freed>>

NULL == 0
Cmd == 1 .. MaxCmds

(* What the enqueue functions differ in: buffer reads and writes and NDRange *)
(* kernels allocate a payload after queue_add; a map allocates one too and   *)
(* may block in clFinish; an unmap and a barrier have no payload.            *)
Kinds == {"buffer", "kernel", "map", "unmap", "barrier"}
HasPayload == {"buffer", "kernel", "map"}

(* Who owns queue_mutex after queue_add failed in thread t: an unmap and a   *)
(* map return without unlocking, unless a map's own allocations failed too.  *)
OwnerAfter(k, t) ==
  CASE k = "unmap" -> {t} [] k = "map" -> {t, Nobody} [] OTHER -> {Nobody}

(* A queued command is dispatched some day.  eventStatus is 0 after calloc,  *)
(* and CL_COMPLETE is 0: a command whose enqueue function failed after       *)
(* queue_add is a "ghost", complete since the epoch.                         *)
Status == {"none", "queued", "ghost", "complete", "freed", "reused"}

(* Blocks that are free for calloc.                                        *)
Free == {n \in Cmd : status[n] = "freed"}

Init ==
  /\ queue = <<>>
  /\ currentEvent = NULL
  /\ queue_mutex = Nobody
  /\ refcount = 1
  /\ freed = FALSE
  /\ status = [n \in Cmd |-> "none"]
  /\ keepsNext \in BOOLEAN
  /\ staleNext = [n \in Cmd |-> NULL]
  /\ dangled = FALSE
  /\ workerPc = "test"
  /\ qpos = NULL
  /\ now = 0
  /\ pc = [t \in Threads |-> "out"]
  /\ target = [t \in Threads |-> 0]
  /\ issued = 0
  /\ executed = <<>>

-----------------------------------------------------------------------------
(* Application threads.  They use the queue while a reference is held, as  *)
(* OpenCL demands of its users.                                            *)

InUse(t) == pc[t] = "out" /\ refcount > 0 /\ workerPc # "crashed"

(* The part of queue_add that links the command n in; st is what the rest  *)
(* of the enqueue function makes of its status.                            *)
Appended_ToFront(n) == <<n>> \o queue
Appended(n) == Append(queue, n)

Scheduled_Always(n, b) == n
Scheduled(n, b) == IF currentEvent \in {NULL, b} THEN n ELSE currentEvent

(* The block b of a freed command is calloc's no longer: a pointer to it   *)
(* points to n, and the list of free blocks, which malloc keeps in their   *)
(* first field unless it keeps it elsewhere, goes round it.                *)
Taken(b, n) ==
  [m \in Cmd |-> IF m = b THEN NULL
                 ELSE IF b = NULL \/ staleNext[m] # b THEN staleNext[m]
                 ELSE IF keepsNext THEN n ELSE staleNext[b]]

Link(n, st) ==
  /\ issued' = n
  /\ queue' = Appended(n)
  /\ \E b \in {NULL} \cup Free :       \* calloc's block is new or a freed command's
       /\ currentEvent' = Scheduled(n, b)
       /\ staleNext' = Taken(b, n)
       /\ status' = [m \in Cmd |-> IF m = n THEN st
                                  ELSE IF m = b THEN "reused" ELSE status[m]]
  /\ UNCHANGED <<keepsNext, dangled>>

StatusSet == "queued"

Enqueue(t, k) ==
  /\ InUse(t)
  /\ queue_mutex = Nobody
  /\ issued < MaxCmds
  /\ Link(issued + 1, StatusSet)
  /\ \/ UNCHANGED threadVars
     \/ /\ k = "map"                      \* blocking_map
        /\ pc' = [pc EXCEPT ![t] = "finish"]
        /\ target' = [target EXCEPT ![t] = issued + 1]
  /\ UNCHANGED <<workerVars, queue_mutex, refcount, freed>>

(* calloc fails for the payload: the linked command stays behind. *)
EnqueueNoPayload(t, k) ==
  /\ AllocMayFail /\ k \in HasPayload
  /\ InUse(t)
  /\ queue_mutex = Nobody
  /\ issued < MaxCmds
  /\ Link(issued + 1, "ghost")
  /\ UNCHANGED <<workerVars, threadVars, queue_mutex, refcount, freed>>

(* calloc fails in queue_add. *)
EnqueueNoCommand(t, k) ==
  /\ AllocMayFail
  /\ InUse(t)
  /\ queue_mutex = Nobody
  /\ queue_mutex' \in OwnerAfter(k, t)
  /\ UNCHANGED <<listVars, heapVars, workerVars, threadVars, refcount, freed>>

CallFinish(t) ==
  /\ InUse(t)
  /\ pc' = [pc EXCEPT ![t] = "finish"]
  /\ target' = [target EXCEPT ![t] = issued]
  /\ UNCHANGED <<listVars, heapVars, workerVars, queue_mutex, refcount, freed>>

(* A round of clFinish's loop that sees currentEvent == NULL; the other    *)
(* rounds only sleep.                                                      *)
AllDone_ListShort == currentEvent = NULL \/ Len(queue) <= 1
AllDone == currentEvent = NULL

FinishDone(t) ==
  /\ pc[t] = "finish" /\ workerPc # "crashed"
  /\ queue_mutex = Nobody
  /\ AllDone
  /\ pc' = [pc EXCEPT ![t] = "out"]
  /\ target' = [target EXCEPT ![t] = 0]
  /\ UNCHANGED <<listVars, heapVars, workerVars, queue_mutex, refcount, freed>>

Retain(t) ==
  /\ InUse(t)
  /\ refcount < MaxRefs
  /\ refcount' = refcount + 1
  /\ UNCHANGED <<listVars, heapVars, workerVars, threadVars, queue_mutex, freed>>

(* The last reference is released when nobody is inside a call. *)
Release(t) ==
  /\ InUse(t)
  /\ refcount = 1 => \A u \in Threads : pc[u] = "out"
  /\ refcount' = refcount - 1
  /\ pc' = [pc EXCEPT ![t] = IF refcount = 1 THEN "join" ELSE "out"]
  /\ UNCHANGED <<listVars, heapVars, workerVars, target, queue_mutex, freed>>

(* pthread_join returns; the connection is closed and the queue freed. *)
Joined == workerPc = "stopped"

ReleaseJoined(t) ==
  /\ pc[t] = "join" /\ workerPc # "crashed"
  /\ Joined
  /\ freed' = TRUE
  /\ pc' = [pc EXCEPT ![t] = "out"]
  /\ UNCHANGED <<listVars, heapVars, workerVars, target, queue_mutex, refcount>>

ThreadStep(t) ==
  \/ \E k \in Kinds : Enqueue(t, k) \/ EnqueueNoPayload(t, k) \/ EnqueueNoCommand(t, k)
  \/ CallFinish(t) \/ FinishDone(t)
  \/ Retain(t) \/ Release(t) \/ ReleaseJoined(t)

-----------------------------------------------------------------------------
(* The worker thread. *)

Linked(n) == \E m \in 1 .. Len(queue) : queue[m] = n

(* The `next' field of a command that is in the list. *)
Successor_NoEnd(n) == n + 1
Successor(n) ==
  IF \E m \in 1 .. Len(queue) - 1 : queue[m] = n
    THEN queue[1 + CHOOSE m \in 1 .. Len(queue) - 1 : queue[m] = n]
    ELSE NULL

(* queue_remove. *)
Unlink(n) ==
  LET at == CHOOSE m \in 1 .. Len(queue) : queue[m] = n
  IN  [m \in 1 .. Len(queue) - 1 |-> IF m < at THEN queue[m] ELSE queue[m + 1]]

WorkerGoto(from, to) == workerPc = from /\ workerPc' = to

(* while(queue->refcount) *)
KeepRunning_NotTested == TRUE
KeepRunning == refcount > 0

WorkerTest ==
  /\ WorkerGoto("test", IF KeepRunning THEN "lock" ELSE "stopped")
  /\ UNCHANGED <<listVars, heapVars, qpos, now, executed, threadVars, queue_mutex, refcount, freed>>

WorkerLock ==
  /\ WorkerGoto("lock", "dispatch")
  /\ queue_mutex = Nobody
  /\ queue_mutex' = "worker"
  /\ UNCHANGED <<listVars, heapVars, qpos, now, executed, threadVars, refcount, freed>>

(* queue_dispatchCommand sends the command and reads the device's answer;  *)
(* then currentEvent = currentEvent->next.                                 *)
Dispatch ==
  /\ WorkerGoto("dispatch", "clock")
  /\ currentEvent # NULL
  /\ Linked(currentEvent)
  /\ executed' = Append(executed, currentEvent)
  /\ status' = [status EXCEPT ![currentEvent] = "complete"]
  /\ currentEvent' = Successor(currentEvent)
  /\ UNCHANGED <<queue, issued, qpos, now, threadVars, heapVars, queue_mutex, refcount, freed>>

(* The command was freed under currentEvent: its type is none (calloc's,   *)
(* or malloc's), so nothing is sent, and its `next' is followed, or what    *)
(* stands there if something else was given the block.                     *)
DispatchFreed ==
  /\ WorkerGoto("dispatch", "clock")
  /\ currentEvent \in Free
  /\ currentEvent' \in {staleNext[currentEvent], Wild}
  /\ UNCHANGED <<queue, status, issued, qpos, now, executed, threadVars, heapVars,
                 queue_mutex, refcount, freed>>

(* The block of a command that was dispatched may still have its type.     *)
(* What is left of its payload is sent again; the device may not answer.   *)
DispatchAgain ==
  /\ workerPc = "dispatch"
  /\ currentEvent \in Free
  /\ \E m \in 1 .. Len(executed) : executed[m] = currentEvent
  /\ \/ /\ workerPc' = "clock"
        /\ executed' = Append(executed, currentEvent)
        /\ currentEvent' = staleNext[currentEvent]
     \/ /\ workerPc' = "stuck"
        /\ UNCHANGED <<executed, currentEvent>>
  /\ UNCHANGED <<queue, status, issued, qpos, now, threadVars, heapVars,
                 queue_mutex, refcount, freed>>

(* currentEvent was read from a block that something else has used: the    *)
(* worker dies of it, hangs, or finds NULL where it points.                *)
DispatchWild ==
  /\ workerPc = "dispatch"
  /\ currentEvent = Wild
  /\ \/ workerPc' \in {"crashed", "stuck"} /\ UNCHANGED currentEvent
     \/ workerPc' = "clock" /\ currentEvent' = NULL
  /\ UNCHANGED <<queue, status, issued, qpos, now, executed, threadVars, heapVars,
                 queue_mutex, refcount, freed>>

DispatchNothing ==
  /\ WorkerGoto("dispatch", "clock")
  /\ currentEvent = NULL
  /\ UNCHANGED <<listVars, heapVars, qpos, now, executed, threadVars, queue_mutex, refcount, freed>>

(* time(&now); qpos = queue->queue *)
ReadClock ==
  /\ WorkerGoto("clock", "purge")
  /\ now' \in now .. Len(executed)
  /\ qpos' = IF queue = <<>> THEN NULL ELSE Head(queue)
  /\ UNCHANGED <<listVars, heapVars, executed, threadVars, queue_mutex, refcount, freed>>

(* The condition of the purge loop. *)
AtComplete_AnyStatus == qpos # NULL
AtComplete == qpos # NULL /\ status[qpos] \in {"complete", "ghost"}

(* The completionTime of a command that was not dispatched is 0.           *)
Expired(n) == status[n] # "complete" \/ \E m \in 1 .. now : executed[m] = n

PurgeKeep ==
  /\ workerPc = "purge"
  /\ AtComplete /\ ~Expired(qpos)
  /\ qpos' = Successor(qpos)
  /\ UNCHANGED <<listVars, heapVars, workerPc, now, executed, threadVars, queue_mutex, refcount, freed>>

(* What `next' of n holds once n is freed: a malloc that keeps a list of   *)
(* its free blocks in them puts a free block or NULL there.                *)
NextOfFreed(n) == IF keepsNext THEN {Successor(n)} ELSE {NULL} \cup Free

(* queue_remove frees the command; then qpos = qpos->next reads it.  A free *)
(* block only leads the purge to other free blocks, where it changes        *)
(* nothing of the list, and so to its end.  If something else was given the *)
(* block before it is read, the worker dies of it, or the purge ends.       *)
PurgeFree ==
  /\ workerPc = "purge"
  /\ AtComplete /\ Expired(qpos)
  /\ queue' = Unlink(qpos)
  /\ status' = [status EXCEPT ![qpos] = "freed"]
  /\ \E p \in NextOfFreed(qpos) :
       /\ staleNext' = [staleNext EXCEPT ![qpos] = p]
       /\ \/ workerPc' = "purge" /\ qpos' = IF Linked(p) THEN p ELSE NULL
          \/ workerPc' \in {"purge", "crashed"} /\ qpos' = NULL
  /\ dangled' = (dangled \/ qpos = currentEvent)
  /\ UNCHANGED <<currentEvent, issued, now, executed, keepsNext, threadVars, queue_mutex, refcount, freed>>

PurgeEnd ==
  /\ WorkerGoto("purge", "test")
  /\ ~AtComplete
  /\ qpos' = NULL
  /\ queue_mutex' = Nobody
  /\ UNCHANGED <<listVars, heapVars, now, executed, threadVars, refcount, freed>>

WorkerStep ==
  \/ WorkerTest \/ WorkerLock
  \/ Dispatch \/ DispatchFreed \/ DispatchAgain \/ DispatchWild \/ DispatchNothing
  \/ ReadClock \/ PurgeKeep \/ PurgeFree \/ PurgeEnd

Next == WorkerStep \/ \E t \in Threads : ThreadStep(t)

Spec == Init /\ [][Next]_vars

(* The worker runs, and the device answers it; threads inside a call run.  *)
(* A thread that keeps asking for queue_mutex is granted it some day: the  *)
(* worker sleeps between its rounds, clFinish between its polls.  Nothing  *)
(* obliges an application to start a call.                                 *)
Fairness ==
  /\ WF_vars(WorkerStep) /\ SF_vars(WorkerLock)
  /\ \A t \in Threads : SF_vars(FinishDone(t)) /\ WF_vars(ReleaseJoined(t))

FairSpec == Spec /\ Fairness

-----------------------------------------------------------------------------
(* Properties. *)

WorkerPc == {"test", "lock", "dispatch", "clock", "purge", "stopped", "stuck", "crashed"}

(* The type invariant of the queue, its worker and its users. *)
TypeOK ==
  /\ queue \in Seq(Cmd)
  /\ currentEvent \in Cmd \cup {NULL, Wild}
  /\ queue_mutex \in Threads \cup {"worker", Nobody}
  /\ refcount \in 0 .. MaxRefs
  /\ freed \in BOOLEAN
  /\ status \in [Cmd -> Status]
  /\ keepsNext \in BOOLEAN /\ dangled \in BOOLEAN
  /\ staleNext \in [Cmd -> Cmd \cup {NULL}]
  /\ workerPc \in WorkerPc
  /\ qpos \in Cmd \cup {NULL}
  /\ now \in Nat
  /\ pc \in [Threads -> {"out", "finish", "join"}]
  /\ target \in [Threads -> 0 .. MaxCmds]
  /\ issued \in 0 .. MaxCmds
  /\ executed \in Seq(Cmd)

(* Until it has pointed to a freed command, currentEvent points into the    *)
(* list, at its first command that is not complete, and is NULL only when   *)
(* every command in the list is.  So an idle queue picks up the next        *)
(* command that is added, and the purge, which goes over the same list,     *)
(* leaves alone what is pending.                                            *)
CurrentIsFirstPending ==
  \/ dangled
  \/ currentEvent = NULL /\ \A m \in 1 .. Len(queue) : status[queue[m]] = "complete"
  \/ \E m \in 1 .. Len(queue) :
       /\ queue[m] = currentEvent
       /\ \A k \in 1 .. Len(queue) :
            status[queue[k]] \in IF k < m THEN {"complete"} ELSE {"queued", "ghost"}

(* The purge frees the command currentEvent points to only where a failed  *)
(* allocation has made a ghost of it that was not dispatched: a command     *)
(* that was accepted is never freed before the worker has done with it, and *)
(* one that was dispatched never while currentEvent still points to it.     *)
OnlyGhostsDangle ==
  [][dangled' # dangled =>
       /\ status[currentEvent] = "ghost"
       /\ \A m \in 1 .. Len(executed) : executed[m] < currentEvent]_vars

(* Commands are executed in the order of the enqueue calls, none twice, and *)
(* none that was accepted is passed over for a later one, until the worker  *)
(* has followed a freed command.                                            *)
NothingOvertaken ==
  dangled \/ \A k \in 1 .. Len(executed) :
    /\ \A m \in 1 .. k - 1 : executed[m] < executed[k]
    /\ \A n \in 1 .. executed[k] : status[n] # "queued"

(* Every step of the queue is one of an in-order command stream, until      *)
(* currentEvent points to a freed command: execution in the order of the    *)
(* enqueue calls, each once, and clFinish as a barrier.                     *)
Stream == INSTANCE CommandStream WITH
  finishing <- {t \in Threads : pc[t] = "finish"}
InOrder == Stream!Init /\ [][dangled \/ Stream!Next]_(Stream!vars)

(* Every command is executed, unless the queue is released, its worker has  *)
(* followed a freed command, or a map or an unmap whose queue_add failed    *)
(* has left queue_mutex locked behind it.                                   *)
EveryCommandExecuted ==
  \A n \in Cmd : status[n] = "queued" ~>
    (status[n] # "queued" \/ refcount = 0 \/ dangled \/ workerPc = "crashed"
      \/ queue_mutex \in Threads)

(* clFinish and the release of the last reference return, unless the worker *)
(* has died or hangs after it followed a freed command, or queue_mutex was  *)
(* left locked; for clFinish this needs the enqueuing to pause some day, as *)
(* it does at MaxCmds.                                                      *)
CallsReturn ==
  \A t \in Threads : pc[t] # "out" ~>
    (pc[t] = "out" \/ workerPc \in {"crashed", "stuck"} \/ queue_mutex \in Threads)

-----------------------------------------------------------------------------
(* The inductive invariant of the proofs. *)

InList == {"queued", "ghost", "complete"}

(* The list holds the commands that were created and not freed, in the     *)
(* order of their creation.                                                *)
ListInv ==
  /\ \A i, j \in 1 .. Len(queue) : i < j => queue[i] < queue[j]
  /\ \A n \in Cmd : Linked(n) <=> status[n] \in InList
  /\ \A n \in Cmd : status[n] = "none" <=> n > issued

(* Commands are executed in order, and freed only when they have been.     *)
Pending == IF AllocMayFail THEN {"queued", "ghost"} ELSE {"queued"}
ProgressInv ==
  /\ Len(executed) <= issued /\ now <= Len(executed)
  /\ \A m \in 1 .. Len(executed) : executed[m] = m
  /\ currentEvent = IF Len(executed) = issued THEN NULL ELSE Len(executed) + 1
  /\ \A n \in 1 .. issued : status[n] \in IF n <= Len(executed)
                                          THEN {"complete", "freed", "reused"} ELSE Pending

(* The purge looks at a command in the list ...                            *)
PurgeInv ==
  /\ qpos # NULL => status[qpos] \in InList
  /\ workerPc \in {"test", "lock", "dispatch", "clock"} => qpos = NULL

(* ... and not behind the next one to dispatch.                            *)
PurgeBehind == qpos # NULL /\ Len(executed) < issued => qpos <= Len(executed) + 1

IInv ==
  /\ TypeOK /\ ListInv /\ PurgeInv
  /\ \A t \in Threads : target[t] <= issued
  /\ dangled => AllocMayFail
  /\ ~dangled => ProgressInv /\ PurgeBehind
=============================================================================
