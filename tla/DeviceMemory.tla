---------------------------- MODULE DeviceMemory ----------------------------
(***************************************************************************)
(* What the commands of a queue do: the buffers of one context             *)
(* (src/host/cl_mem.c), the packets the enqueue functions fill in, and the *)
(* device's memory, which handleMemoryWrite, handleMemoryRead and the      *)
(* kernels access.  When a command is dispatched and when clFinish returns *)
(* is left to CommandStream, which CommandQueue implements.                *)
(*                                                                         *)
(* The memory is an array of GLOBAL_MEMORY_SIZE cells, zero at first.  A   *)
(* buffer is an offset and a size: the context advances mem_alloc_offset   *)
(* and never takes anything back.  The application's memory is reduced to  *)
(* one array, `source', that it may overwrite whenever it likes, and to    *)
(* what each command's `ret' points to.                                    *)
(*                                                                         *)
(* The only kernel copies its first argument to its second, one cell per   *)
(* work item; TPScheduler makes a launch one step.  Where the arguments    *)
(* lie follows from their sizes alone, as get_kernel_args and              *)
(* createwrapper.py have it: the i-th one begins where the ones before it  *)
(* end, whatever buffer clSetKernelArg was given.  The demos therefore     *)
(* create their buffers in the order and with the sizes of the arguments   *)
(* (ArgsInOrder).  Buffers are written and read whole, as by every caller  *)
(* in the repository; the offset parameter is not looked at.               *)
(***************************************************************************)
EXTENDS CommandStream

CONSTANTS
  Values,             \* what the application stores
  Blank,              \* the content of memory nobody has written
  GLOBAL_MEMORY_SIZE, \* cells of the device's memory
  Sizes,              \* sizes of buffers
  MaxBuffers,         \* bound: clCreateBuffer calls
  MaxCmds,            \* bound: enqueued commands
  ArgsInOrder,        \* whether kernels get the first buffers, in order
  NotYet, Gone        \* a result that is not there, or whose memory is freed

ASSUME SizesAssumption == Sizes \subseteq Nat \ {0} /\ GLOBAL_MEMORY_SIZE \in Nat
ASSUME BoundsAssumption == MaxBuffers \in Nat /\ MaxCmds \in Nat
ASSUME HabitAssumption == ArgsInOrder \in BOOLEAN

VARIABLES
  buffers,            \* the cl_mem objects, in the order of their creation
  live,               \* those the application has not released
  mem_alloc_offset,
  source,             \* the array the application writes from
  packet,             \* the packet of each command
  memory,             \* the device's memory
  ret,                \* what has been delivered for each command
  overrun,            \* the device has accessed what lies behind its memory
  asked               \* history: the calls as the application made them

streamVars == vars
bufferVars == <<buffers, live, mem_alloc_offset>>
cmdVars == <<packet, ret, asked>>
deviceVars == <<memory, overrun>>
allVars == <<streamVars, bufferVars, cmdVars, deviceVars, source>>

Data == Values \cup {Blank}
Cell == 0 .. GLOBAL_MEMORY_SIZE - 1
Buffer == 1 .. Len(buffers)
NoPacket == [cmdId |-> "none"]

(* What is delivered differs from no result, and from a freed one. *)
ASSUME ResultsAssumption ==
  NotYet # Gone /\ \A n \in 0 .. GLOBAL_MEMORY_SIZE :
                      NotYet \notin [1 .. n -> Data] /\ Gone \notin [1 .. n -> Data]

InitMemory ==
  /\ Init
  /\ buffers = <<>> /\ live = {} /\ mem_alloc_offset = 0
  /\ source \in Values
  /\ packet = <<>> /\ ret = <<>> /\ asked = <<>>
  /\ memory = [i \in Cell |-> Blank]
  /\ overrun = FALSE

-----------------------------------------------------------------------------
(* The application.  Its threads serialise their clCreateBuffer calls,     *)
(* which update mem_alloc_offset without a lock.                           *)

Advanced_NotAtAll(size) == mem_alloc_offset
Advanced(size) == mem_alloc_offset + size

CreateBuffer(size) ==
  /\ Len(buffers) < MaxBuffers
  /\ buffers' = Append(buffers, [offset |-> mem_alloc_offset, size |-> size])
  /\ live' = live \cup {Len(buffers) + 1}
  /\ mem_alloc_offset' = Advanced(size)
  /\ UNCHANGED <<streamVars, cmdVars, deviceVars, source>>

(* Commands that were enqueued keep the offset; the cells are not reused.  *)
ReleaseMemObject(b) ==
  /\ live' = live \ {b}
  /\ UNCHANGED <<streamVars, buffers, mem_alloc_offset, cmdVars, deviceVars, source>>

ChangeSource ==
  /\ source' \in Values
  /\ UNCHANGED <<streamVars, bufferVars, cmdVars, deviceVars>>

(* The call c leaves the packet p in the command that queue_add links in.  *)
Enqueued_NoResult(c, p) ==
  /\ issued < MaxCmds
  /\ asked' = Append(asked, c)
  /\ packet' = Append(packet, p)
  /\ UNCHANGED <<bufferVars, deviceVars, source, ret>>

Enqueued(c, p) ==
  /\ issued < MaxCmds
  /\ asked' = Append(asked, c)
  /\ packet' = Append(packet, p)
  /\ ret' = Append(ret, NotYet)
  /\ UNCHANGED <<bufferVars, deviceVars, source>>

Filled(n) == [i \in 1 .. n |-> source]

EnqueueWriteBuffer(b) ==
  LET data == Filled(buffers[b].size)
  IN  /\ Accept
      /\ Enqueued([op |-> "write", buf |-> b, data |-> data],
                  [cmdId |-> "write", offset |-> buffers[b].offset, data |-> data])

Reading(op, b) ==
  Enqueued([op |-> op, buf |-> b],
           [cmdId |-> "read", offset |-> buffers[b].offset, accessLength |-> buffers[b].size])

EnqueueReadBuffer(b) == Accept /\ Reading("read", b)

EnqueueMapBuffer(t, b) == (Accept \/ AcceptAndFinish(t)) /\ Reading("map", b)

(* A region is unmapped once. *)
EnqueueUnmapMemObject(m) ==
  /\ asked[m].op = "map"
  /\ \A n \in 1 .. Len(asked) : asked[n] # [op |-> "unmap", of |-> m]
  /\ Accept
  /\ Enqueued([op |-> "unmap", of |-> m], [cmdId |-> "free", region |-> m])

(* get_kernel_args: an argument begins where those before it end.          *)
ArgOffset_First(before) == 0
ArgOffset(before) == IF before = <<>> THEN 0 ELSE before[1]

EnqueueNDRangeKernel(a, b) ==
  LET from == buffers[a]
      to   == buffers[b]
      work == IF from.size < to.size THEN from.size ELSE to.size
  IN  /\ a # b /\ (ArgsInOrder => a = 1 /\ b = 2)
      /\ Accept
      /\ Enqueued([op |-> "copy", from |-> a, to |-> b, len |-> work],
                  [cmdId |-> "start", from |-> ArgOffset(<<>>),
                   to |-> ArgOffset(<<from.size>>), work |-> work])

(* A barrier, or a call whose payload cannot be allocated after queue_add. *)
EnqueueNothing == Accept /\ Enqueued([op |-> "nothing"], NoPacket)

BufferCommand ==
  \/ \E b \in live : EnqueueWriteBuffer(b) \/ EnqueueReadBuffer(b)
  \/ \E b \in live, t \in Threads : EnqueueMapBuffer(t, b)
  \/ \E m \in 1 .. Len(asked) : EnqueueUnmapMemObject(m)
  \/ \E a, b \in live : EnqueueNDRangeKernel(a, b)
  \/ EnqueueNothing

Finish ==
  /\ \E t \in Threads : CallFinish(t) \/ ReturnFinish(t)
  /\ UNCHANGED <<bufferVars, cmdVars, deviceVars, source>>

-----------------------------------------------------------------------------
(* The dispatch of a command: the exchange with the device.                *)

Reach(p) ==
  CASE p.cmdId = "write" -> p.offset + Len(p.data)
    [] p.cmdId = "read"  -> p.offset + p.accessLength
    [] p.cmdId = "start" -> p.to + p.work
    [] OTHER -> 0

Upcoming == Len(executed) + 1     \* the command to be dispatched next

Stored(offset, data) ==
  [i \in Cell |-> IF i >= offset /\ i < offset + Len(data) THEN data[i - offset + 1] ELSE memory[i]]

Loaded(offset, n) == [i \in 1 .. n |-> memory[offset + i - 1]]

(* What the device and, with the answer, the worker do with packet p.      *)
Handle(n, p) ==
  \/ p.cmdId = "write" /\ memory' = Stored(p.offset, p.data) /\ UNCHANGED ret
  \/ p.cmdId = "start" /\ memory' = Stored(p.to, Loaded(p.from, p.work)) /\ UNCHANGED ret
  \/ /\ p.cmdId = "read"
     /\ ret' = [ret EXCEPT ![n] = Loaded(p.offset, p.accessLength)]
     /\ UNCHANGED memory
  \/ p.cmdId = "free" /\ ret' = [ret EXCEPT ![p.region] = Gone] /\ UNCHANGED memory
  \/ p.cmdId = "none" /\ UNCHANGED <<memory, ret>>

Dispatch ==
  /\ ~overrun
  /\ Execute
  /\ Reach(packet[Upcoming]) <= GLOBAL_MEMORY_SIZE
  /\ Handle(Upcoming, packet[Upcoming])
  /\ UNCHANGED <<bufferVars, packet, asked, overrun, source>>

(* Nothing checks a range, neither clCreateBuffer nor the device; what     *)
(* follows an access outside the memory is undefined, and left open here.  *)
DispatchOutside ==
  /\ issued >= Upcoming
  /\ Reach(packet[Upcoming]) > GLOBAL_MEMORY_SIZE
  /\ overrun' = TRUE
  /\ UNCHANGED <<streamVars, bufferVars, cmdVars, memory, source>>

NextMemory ==
  \/ \E size \in Sizes : CreateBuffer(size)
  \/ \E b \in live : ReleaseMemObject(b)
  \/ ChangeSource
  \/ BufferCommand \/ Finish
  \/ Dispatch \/ DispatchOutside

SpecMemory == InitMemory /\ [][NextMemory]_allVars

-----------------------------------------------------------------------------
(* Properties. *)

(* The type invariant of the buffers, the packets and the memory.          *)
MemoryTypeOK ==
  /\ issued \in 0 .. MaxCmds /\ Len(executed) <= issued
  /\ Len(packet) = issued /\ Len(ret) = issued /\ Len(asked) = issued
  /\ buffers \in Seq([offset : Nat, size : Sizes])
  /\ live \subseteq Buffer
  /\ mem_alloc_offset \in Nat
  /\ source \in Values
  /\ memory \in [Cell -> Data]
  /\ overrun \in BOOLEAN

(* The device stays inside its memory for an application that creates no   *)
(* more than CL_DEVICE_GLOBAL_MEM_SIZE in the whole life of its context,   *)
(* counting what it has released; and no buffer overlaps another.          *)
BuffersFit ==
  /\ mem_alloc_offset <= GLOBAL_MEMORY_SIZE => ~overrun
  /\ \A a, b \in Buffer :
       a < b => buffers[a].offset + buffers[a].size <= buffers[b].offset

(* driver-opencl.c:1544 of cgminer, "This finish flushes the readbuffer    *)
(* set with CL_FALSE in clEnqueueReadBuffer": when clFinish returns, what  *)
(* was read or mapped before the call has been delivered.  The blocking    *)
(* flags of reads and writes, and clWaitForEvents, wait for nothing.       *)
FinishFlushes ==
  [][\A t \in finishing \ finishing' : \A n \in 1 .. target[t] :
       asked[n].op \in {"read", "map"} => ret[n] # NotYet]_allVars

(* The commands act on their own buffers in the order of the calls, with   *)
(* the data of the time of the call; a mapped region is not written after  *)
(* it was freed, and not freed twice.                                      *)
Store == INSTANCE BufferStore WITH
  contents <- [b \in Buffer |->
                 [i \in 1 .. buffers[b].size |->
                    IF buffers[b].offset + i - 1 \in Cell
                      THEN memory[buffers[b].offset + i - 1] ELSE Blank]],
  done <- Len(executed),
  delivered <- ret
ActsOnOwnBuffers == Store!Spec
=============================================================================
