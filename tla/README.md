# A verification development for genericOCL

genericOCL is an OpenCL 1.1 implementation in two halves.  The *host* library
(`src/host`) gives a program the OpenCL C API and turns its calls into packets;
the *device* (`src/device`) is a separate process that holds a global memory,
accepts the packets over TCP and runs kernels on a pool of compute units.  A
small relay (`src/deviceProxy`) can sit between them.  This directory holds TLA+
modules for the parts whose correctness depends on order, interleaving and
failure, TLC configurations that check them on small instances, and TLAPS proofs
of the results that matter most for every size.

## The system

| part | source | state it keeps | operations | talks to |
|---|---|---|---|---|
| command queue | `host/cl_cqueue.c` | linked list of commands, `currentEvent`, `queue_mutex`, `refcount`, worker thread | create, retain, release, finish, barrier, `queue_add`, `queue_remove`, `queue_worker`, `queue_dispatchCommand` | application threads (shared memory under `queue_mutex`), device (request/reply on one socket) |
| buffers and their commands | `host/cl_mem.c` | buffer offset and size, reference counts, payloads | create, retain, release, enqueue read/write/map/unmap | command queue |
| kernels and NDRange commands | `host/cl_kernel.c` | arguments, `isNew`, reference counts | create, set argument, enqueue | command queue |
| events | `host/cl_event.c` | reference count | create, retain, release, wait | nobody: `clWaitForEvents` returns at once |
| programs and their build | `host/cl_program.c`, `host/scripts` | sources, `buildStatus`, `binarySize`, `createdWithBinary`; the files `program.o`, `kernelargs`, `kernelwrapper.c`, `kernel.so`, one of each for all | create, retain, release, build, binary queries | compilers through `system()`, the queue's worker (files) |
| contexts, devices, platform | `host/cl_context.c`, `cl_device.c`, `cl_platform.c` | reference counts, `mem_alloc_offset`, `connected` | create, retain, release, queries | command queue |
| device interface | `host/dev_interface.c` | a socket | connect, read, write, disconnect | device, or the proxy in between |
| control link | `device/ControlLink.cpp` | receive buffer, `kernelValid`, `kernelfd`, `connfd` | one handler per packet type | host, scheduler |
| scheduler | `device/TPScheduler.cpp` | queue of free compute units, `queue_mx` | `addWork`, `CUDone` | control link (call), compute units |
| compute units | `device/ComputeUnit.cpp` | `threadAllocated`, coordinates, `dlHandle`, mutex and condition variable | `set_kernel`, `unset_kernel`, `run_kernel`, `cu_thread` | scheduler (call back), kernel image |
| kernel wrapper | `host/scripts/createwrapper.py` | `global[]` in the loaded image | `kernel_wrapper`, `get_global_id` | compute units |
| device process | `device/core.cpp`, `Device.cpp`, `SocketConnector.cpp` | listening socket, threads | start, join, start again | host connections |
| proxy | `deviceProxy/simpleProxy.c` | two buffers | relay | two streams |

What makes the system hard: application threads race with the worker thread of a
queue, which holds `queue_mutex` across whole exchanges with the device; the
scheduler touches its queue of units partly without the lock; the units' threads
sleep on condition variables; every unit runs code of one shared object with one
set of globals; allocation failures leave half-done commands behind; and the
protocol between the halves is strict request/reply, so one reply too many or
too few shifts everything after it.  Between the halves lies TCP, which cuts
messages into pieces and resets connections nobody has accepted yet, and the device
serves one connection at a time.  The list `hazards` in `PROJECT.json` names
each of these at its line, with the properties that watch over it.

What each part has to guarantee:

* scheduler and units: the kernel is called exactly once per work item, with the
  image uploaded last; no unit is lost, duplicated or shared; `addWork` returns,
  and only when all calls are over;
* wrapper: a kernel learns its own position;
* command queue: commands execute in order, once each; `clFinish` is a barrier;
  the purge never frees what is still to be dispatched; every command is executed
  and every call returns;
* events: a wait that returns means completion;
* control link and dispatch: exactly one reply per request, matched to it; a
  launch runs the kernel the command names;
* programs and their build: a kernel is linked with its own program and the
  arguments it was enqueued with, a program hands out its own binary, and a build
  that reports success has succeeded;
* buffers: commands act on their own buffers, in the order of the calls, with the
  data of the time of the call; buffers do not overlap and the device stays in its
  memory;
* sessions: a device object has one queue at a time, a queue reads its own answers,
  and however a host ends the device serves the next one;
* device interface and proxy: requests arrive whole, once and in order, each is
  answered once, and nothing is left of an exchange when the next one begins.

## Modules

```
WorkItems <- WorkDispatch            promise of addWork
    ^             ^ INSTANCE
    +-------- TPScheduler <- KernelWrapper      (composes units and wrapper)
                  ^   ^          ^
   TPSchedulerProofs  MCTPScheduler, MCKernelWrapper
          ^
   KernelWrapperProofs               (also extends KernelWrapper)

CommandStream                        promise of a command queue
      ^ INSTANCE      ^ EXTENDS
CommandQueue      DeviceMemory <- MCDeviceMemory, DeviceMemoryProofs
   ^     ^            | INSTANCE
   |     |            v
   |     |        BufferStore        promise of the commands on buffers
   |   MCCommandQueue
CommandQueueProofs

RemoteDevice        ControlLink      promise of a dispatch; the device's end
      ^ INSTANCE         ^
      +---------- HostDevice         (composes the dispatch with the device)
                         ^
               HostDeviceProofs

KernelBuild <- KernelBuildProofs     programs, kernels and the files they share

Session <- SessionProofs             queues, connections, accept and start again

Exchange                             promise of a connection
   ^ INSTANCE
Transport <- TransportProofs         dev_read and dev_write, the relay, recv
```

**WorkItems** is the iteration space of the three nested loops of `addWork`.

**WorkDispatch** is the abstract promise of `IScheduler::addWork`: one launch at a
time, every work item called once, in any order, no return before the last call
has returned, or the process ends before the first call.

**TPScheduler** models `TPScheduler.cpp` with `ComputeUnit.cpp`.  `free_cu_array`
is the `std::queue`, `queue_mx` its lock with an owner, `pc` the place of the
thread that runs `addWork`, `cuPc[c]` the place of unit `c`'s thread in
`cu_thread`.  One action stands for one critical section or one unlocked access:
`SetKernel`/`UnsetKernel` are one turn of the two unlocked rotations (with what
`dlopen` returns, the resident image while any other handle is open);
`DispatchLock`, `PopFree`, `NoneFree` the poll for a free unit; `RunKernelCoords`
and `RunKernelSignal` the unlocked and the locked half of `run_kernel`;
`DrainLock`, `DrainWait`, `DrainDone` the poll for the whole pool;
`CheckAllocated`, `SpuriousWakeup`, `CallKernel`, `ReturnKernel`,
`ClearAllocated`, `CUDoneLock`, `CUDonePush` the unit's thread.  `calls` is a
history variable.

**KernelWrapper** extends it with the generated wrapper: a unit's kernel call is
three stores to the shared `global[]` and three `get_global_id` calls, each a
step.

**CommandStream** is the abstract promise of a command queue: commands numbered
by acceptance, executed in that order; `clFinish` returns when what was accepted
before it is executed.

**CommandQueue** models `cl_cqueue.c` with the enqueue functions of `cl_mem.c` and
`cl_kernel.c`.  The linked list is the sequence `queue`; `Enqueue`,
`EnqueueNoPayload` and `EnqueueNoCommand` are the three ways an enqueue function
can end; `CallFinish`/`FinishDone` are `clFinish`; `Release`/`ReleaseJoined` the
two halves of `clReleaseCommandQueue` around `pthread_join`; `WorkerTest`,
`WorkerLock`, `Dispatch`, `DispatchNothing`, `ReadClock`, `PurgeKeep`, `PurgeFree`,
`PurgeEnd` the rounds of `queue_worker`.  A whole
exchange with the device is inside `Dispatch`, because the worker holds the mutex
over it.  `now` counts the completed commands that were older than
`EVENT_EXPIRY_TIME_S` when the clock was last read: it may grow to any of them
whenever the clock is read.

The worker reads commands it has freed: the purge always (`cl_cqueue.c:223`), the
dispatch when `currentEvent` points to one (`:211-212`), which a failed allocation can
bring about.  A freed command's number therefore goes on to stand for its block.
`staleNext` is what the `next` of each free block holds: what it held before, where
malloc leaves the first field of a free block alone (`keepsNext`), otherwise NULL or
another free block.  In `Link` calloc returns a new block or any free one, and then
every pointer to the old command is one to the new (`Scheduled`, `Taken`).
`DispatchFreed` follows `staleNext`; `DispatchAgain` finds the type of an old command
still in its block and sends what is left of it again, which the device may not answer
(`workerPc` is "stuck"); `DispatchWild` follows a pointer read from a block that
something other than `queue_add` was given in the meantime, and dies, hangs, or finds
NULL.  What the worker writes through such a pointer (a status and a time) is left out.
`dangled` is a history variable: `currentEvent` has pointed to a freed command.

**BufferStore** is the abstract promise of the commands on buffers: every buffer has
contents of its own; what a call asks for is fixed at the call; commands take effect
one at a time in the order of the calls; a read or a map delivers what the commands
before it have left, once; a mapped region lives until its unmap takes effect.

**DeviceMemory** builds on `CommandStream` (which `CommandQueue` implements) and says
what the commands do: `clCreateBuffer` with `mem_alloc_offset`, the enqueue functions
of `cl_mem.c` and `cl_kernel.c` with the packets they fill in (`packet`), the handlers
of `ControlLink.cpp` on the device's memory (`memory`), and what the worker does with
the answers (`ret`).  `asked` is a history of the calls as the application meant them,
in terms of buffers; the packets are in terms of offsets.  The application may
overwrite its memory (`source`) and release buffers at any time.  `Dispatch` is the
dispatch of a command whose range is inside the memory, `DispatchOutside` of one
whose range is not: nothing compares the two, and what happens then is undefined.

**RemoteDevice** is the abstract promise of `queue_dispatchCommand`: each command
has its effect on the device's memory exactly once, between its beginning and its
end, and a read returns what the commands before it have left; only a kernel that
cannot be built is dropped.

**ControlLink** is the device's end of the connection, `ControlLink.cpp`: `Recv(n)`
is one `recv` of `n` units of the stream followed by at most one `processPacket`;
the handlers carry their names in the code; `handleKernelLoad` is split into its
outcomes (`LoadChunk`, `LoadFails`, `LoadClosesGarbage`, `LoadWithoutFile`);
`LaunchDone` and `LaunchRefused` are the return of `addWork` with its ACK and the
end of the process in `set_kernel`.  Of the file `kernel.so` it keeps the chunks
written (`kernelFile`) and how it is open (`kernelfd`).  Three constants say what
the environment may do: `DiskFaults` which calls on the file fail, `FirstFd` what
is in the uninitialised `kernelfd`, `SendersReturn` whether the compiled `sendAck`
and `sendErr`, which have no return statement, come back.

**HostDevice** adds the host's end, `queue_dispatchCommand` with
`dispatchNDRangeKernel`, `setGlobalWorkSize`, `compileKernel`, `transferKernel` and
`sendExecuteKernel`.  `step` is the exchange that is on, `awaiting` that the worker
is in `dev_read`; `SendRequest` and `SendChunk` are the `dev_write`s; `EndReply`,
`ReadReply`, `SizeReply`, `LoadAcked` and `LoadRefused` what follows the reply;
`CompileKernel` is the build with the outcomes `BuildOutcomes` and the opening of
the host's `kernel.so`.  The device's memory is one cell: a write puts a value in
it, a launch the pair of the kernel and the size it ran over, so that a read tells
which of the earlier commands it saw.  `addWork` is one step, which `TPScheduler`
justifies, and an exchange is one step of `CommandQueue`, which the mutex
justifies.

**KernelBuild** is where a kernel's code comes from: one application thread in the
functions of `cl_program.c` and `cl_kernel.c`, and the worker in
`dispatchNDRangeKernel`, joined by four files that exist once for all programs and
kernels.  `objectFile`, `argsFile`, `wrapper` and `image` are `program.o`,
`kernelargs`, `kernelwrapper.c` and the host's `kernel.so`, `deviceImage` the
device's; the content of `program.o` is the program it was built from, or `Torn`
while `clCreateProgramWithBinary` writes it.  `clBuildProgram` is
`BuildFromBinary`, or `BuildFromSource`, `RunScript` and `MeasureBinary` with the
early end `BuildRefused`; `call` is the call that is on.  The worker's steps are
`SetKernelArguments`, `CreateWrapper`, `CompileKernel`, `TransferKernel` and
`StartKernel`, and it may come in anywhere between the application's.
`GccOutcomes` says whether gcc may fail.  `Orderly` says whether the application
keeps the habits that the demos have and the shared files need: one program at a
time, `clFinish` before a call that touches `program.o` or a kernel object,
arguments set before the first launch, no kernel again after another one.  The
program of a kernel and the arguments in a command are history variables, and
`latest` and `last` are what an orderly application remembers.

**Session** is the life of connections: `TestConnected`, `Connect`, `ConnectFails`
and `StoreConnection` are the unlocked steps of `clCreateCommandQueue` on one device
object, `Release` and `ReleaseJoined` the two halves of the last release;
`Send`, `SendToReset`, `SendAfterReset`, `SendToClosed`, `Read`, `ReadReset` and
`ReadEof` what `dev_write` and `dev_read` find, whose results nobody looks at;
`Listen`, `BindFails`, `AcceptConnection`, `HandleRequest` and `EndSession` the loop
of `core.cpp` around `SocketConnector` and `act_func`, which keeps the listening
socket open while it serves; `HostDies` the end of the host process at any moment,
after which another one begins.  `doubled`, `overlapped` and `lost` are histories:
two threads were past the test of one object, a connection was made while another
one was waiting or served, a command was left unanswered.

**Exchange** is the abstract promise of a connection to the worker and the device.
**Transport** is what lies between: `dev_write` and `dev_read` of
`dev_interface.c`, `service_client` of the relay with its two buffers
(`FlushToServer`, `FlushToClient`, `Select`, `CloseBoth`), the device's `recv` with
`processPacket`, and sockets that deliver any number of cells at a time.  A cell
stands for a few bytes and remembers its message and its place in it.

A definition named `X_Something` directly before `X` is what a plausible slip in
the code of `X` would make of it; `PROJECT.json` pairs each property with the slip
it notices.

## Runs

| run | instance | shows |
|---|---|---|
| `TPScheduler_pool` | 3 units, 2 loadable images and one that is refused, empty and 1-D and 2-D sizes | `PoolPartition`, `RotationAlone`, `CoordsUnshared`, `FreshImage`, that the scheduler implements `WorkDispatch` (`ExactlyOnce`), and `AddWorkReturns` |
| `KernelWrapper_pool` | 2 units | `IdsInLaunch`: racing units at least read a position of this launch |
| `KernelWrapper_race` | 2 units | counterexample to `IdsOfOwnItem`: a unit reads another unit's position |
| `CommandQueue_order` | 2 threads, 3 commands, 2 references, either kind of malloc, allocations may fail | `OnlyGhostsDangle`: the purge frees a command under `currentEvent` only if its payload could not be allocated; until it does, `CurrentIsFirstPending`, `NothingOvertaken`, that the queue implements `CommandStream` (`InOrder`), and `EveryCommandExecuted`; `CallsReturn` also after it, unless the worker dies or hangs |
| `DeviceMemory_buffers` | 1 thread, up to 2 buffers of 1 or 2 cells in a memory of 3, 3 commands, 2 values | `BuffersFit`, `FinishFlushes`, that the packets and offsets implement `BufferStore` (`ActsOnOwnBuffers`) |
| `HostDevice_sync` | opens and closes of `kernel.so` may fail, `kernelfd` may be garbage, builds may be refused, no kernel is run again after another one | `InStep`, `RunsOwnKernel`, that the exchange implements `RemoteDevice` (`ImplementsDevice`), `DispatchEnds` |
| `HostDevice_faults` | opens and writes may fail, every build outcome, any order of kernels | `WholeImage`, `StartIsAnswered` |
| `HostDevice_switch` | no faults, any order of kernels | counterexample to `RunsOwnKernel`: the sequence A, B, A runs B |
| `KernelBuild_orderly` | 2 programs, 2 kernels of either, 2 arguments, 2 pending commands; gcc succeeds, `Orderly` | `LaunchesAsEnqueued`, `BinaryIsOwn` |
| `Session_hosts` | 2 threads, 2 device objects, 3 connections; the host may die, `bind` may fail | `OneQueuePerObject`, `OwnAnswers`, `LostByOverlap`, `DeviceReturns`, `ReleaseReturns` |
| `Session_again` | 1 thread, 1 object, 2 connections, no faults | counterexample to `NothingLost`: a queue created right after the last one was released loses its commands |
| `Transport_relay` | requests of 2 and 6 cells, answers of 1 and 4, a relay buffer of 3, sockets of 2, 3 exchanges | `ReadsReply`, `InStep`, that the connection implements `Exchange` (`RequestsCarried`), `ExchangeEnds` |

*Bounds.*  Three units are the least number for which two can be busy while a
third is free or returning, and with which the rotation's positions differ from
its ends; the launches have fewer, as many and more items than units, so that both
polls of `addWork` go round.  Three commands let the purge find an expired, a kept
and a pending command at once, a ghost become `currentEvent` behind a pending command
with one more behind it to be skipped or overtaken, and a freed block be given to a new
command while others stand in the list (with four the run takes longer than is practical;
the theorems are about any number); two references and two
threads let one thread finish or enqueue while the other releases.  `HostDevice`
has two kernels, two values and two sizes, enough to tell a command's own from
another's, and images of three chunks, which have a first, a middle and a last
one; the number of commands is not bounded.  In `KernelBuild` two programs and two
kernels, each of which may be created for either program, leave every file in the
other's state, two arguments give an offset that depends on a size, and two
pending commands let one kernel's command wait behind another's; the number of
calls is not bounded.  `DeviceMemory` has two buffers because an overlap, a wrong
offset and a copy each need two, three cells because two buffers of two do not fit
and all others do, and three commands because a read shows what a write or a copy
before it left and an unmap frees what a map delivered; with Sizes 1 and 2 the
arguments' offsets differ between the orders of buffers.  `Session` has three
connections because the backlog holds two behind the one that is served, two threads
and two objects because a queue can meet another one over the same object and over
another.  `Transport` has messages longer and shorter than the relay's buffer and
the sockets, and a request as long as the device's receive buffer; the third exchange
starts after one that was read in pieces and one that was not.  Nothing else is
bounded.
`CHECK_DEADLOCK FALSE` is set where the process really stops: a refused image or a
file that cannot be opened ends the device process, as a failed `bind` does, a
released queue ends its worker, a host whose transfer was refused or whose stream
has ended turns in its loop without effect, a closed connection ends the relay and
the device's session, and a queue whose mutex was kept waits for ever; and where the
bounded number of commands, buffers, connections or exchanges is used up.

*Fairness.*  `TPScheduler`: every thread runs (`WF` on `ControlStep` and
`UnitStep`), kernels return, and a unit that keeps asking for `queue_mx` gets it
some day (`SF` on `CUDoneLock`), because `addWork` releases it between its polls.
`CommandQueue`: the worker runs and the device answers (`WF` on `WorkerStep`),
and whoever keeps asking for `queue_mutex` gets it (`SF` on `WorkerLock` and
`FinishDone`): both loops sleep outside it.  `HostDevice`: the worker and the
device's thread run (`WF` on `HostStep` and `ControlLinkStep`), each being a
thread that is blocked at most in a `recv` or `read` for bytes that were sent.
`Session`: the device, the workers and the threads inside a call run (`WF`
on `DeviceStep`, `WorkerStep` and `ThreadStep`), and a worker whose queue is released
looks at the reference count between two exchanges, so that the join ends although
the worker may be in the next exchange again and again (`SF` on `ReleaseJoined`; the
code tests `refcount` once per round).  `Transport`: the reading host, the relay and
the device run (`WF` on each).  Nothing obliges a host to launch, an
application to call, or a condition variable to wake without a signal.

## Findings

* Compute units race for the one `global[]` of the shared kernel image, so
  `get_global_id` can answer another unit's position (`createwrapper.py:41`
  against `:32`).
* `isNew` is kept per kernel object while the device has one `kernel.so`: kernel A,
  run again after B, executes B (`cl_cqueue.c:346` against section 3.3.6 of
  `doc/report.pdf`).
* The listening socket stays open while a host is served: the queue an application
  creates right after it has released the last one connects into the old socket's
  backlog and is reset when that socket is closed; its commands count as executed and
  their results never arrive (`ControlLink.cpp:73` against section 2.2.1 of
  `doc/report.pdf`).

Behaviours seen in the models that no run states.

* A command whose payload could not be allocated stays in the list, without a type and
  complete since 1970 (`cl_mem.c:91`, `cl_cqueue.c:219`).  Behind a pending command it
  becomes `currentEvent` when that one is dispatched (`cl_cqueue.c:212`), and the purge of
  the same round frees it (`:218-223`): the model sets `dangled`, and `OnlyGhostsDangle`
  says that there is no other way.  The next round dispatches the freed block and takes
  its `next`.  Where that is NULL, the commands behind it are never dispatched, the queue
  looks idle, and `clFinish` returns early.  Where a later `queue_add` was given the
  block, `currentEvent` is the new tail, and what stands before it is overtaken.  Where
  the allocator has put a pointer to another free block there, that one is followed, and
  an old command may be sent again; where something else has used the block, anything may
  follow.  Without the exception `dangled`, `CurrentIsFirstPending`, `NothingOvertaken`,
  `InOrder` and `EveryCommandExecuted` all fail.
* The purge reads the `next` pointer of every command it has freed (`cl_cqueue.c:223`),
  and the worker may die of it if another thread was given the block in between.
  Otherwise the read at most ends the purge early or leads it through free blocks, which
  costs the list nothing: that is part of what the invariants show.
* `clEnqueueUnmapMemObject` and `clEnqueueMapBuffer` return with `queue_mutex` locked
  when `queue_add` fails (`cl_mem.c:246`), and everybody else waits for ever; the
  liveness properties of `CommandQueue` name this exception and so do not catch it.
* `buildprogram.sh` and `compilekernel.sh` end with `exit 0`, so a failed compilation
  leaves the `program.o` or `kernel.so` of before, which is linked, transferred and run,
  and `clBuildProgram` returns `CL_SUCCESS` (`buildprogram.sh:24`,
  `compilekernel.sh:8`).  With "nothing" in `GccOutcomes` `LaunchesAsEnqueued` fails.
* Without the habits of `Orderly` both properties of `KernelBuild` fail: a second
  program, created or built before the first one's kernel is dispatched, replaces its
  `program.o`; arguments are read at dispatch, and those of a kernel that was launched
  before never reach the device; and a released kernel object is freed under the
  commands that point to it.
* Without `ArgsInOrder` `ActsOnOwnBuffers` fails: an argument's place follows from the
  sizes of the arguments before it and not from the buffer it was given
  (`cl_kernel.c:122`).
* `sendAck` and `sendErr` lack a return statement; with the Makefile's `-O2`, gcc 12
  compiles `sendAck` without a `ret`, and it runs into the code of
  `handleMemoryWrite`, while gcc before version 8 returns (`ControlLink.cpp:305`).  The
  runs have `SendersReturn` TRUE; with FALSE the device dies of its first answer and
  the next dispatch never ends.
* After any NAK `transferKernel` never succeeds, because `fread` has moved on while
  `transferred` has not, and it ends in a loop that sends nothing while `queue_mutex`
  is held.  The theorem `BrokenForGood` says so of every state behind a chunk but the
  last that could not be written.
* A `fclose` that loses buffered data leaves a torn image that is launched, on which
  `dlopen` ends the device process.
* An answer that arrives in pieces is stored piece by piece at the beginning of the
  caller's buffer (`dev_interface.c:78`) and garbled; `ReadsReply` covers reads in one
  piece only, `InStep` says that the damage ends with the read.
* Two threads that create a queue on one device object together pass its test of
  `connected` both, and share or leak a connection; the properties of `Session` name
  this exception (`doubled`) and so do not catch it.
* A `kernelfd` with garbage in it may kill the device in its first load, as does the
  write to a file that could not be opened (`ControlLink.cpp:223`); `InStep`,
  `ImplementsDevice` and `DispatchEnds` speak of a device that is alive.

## Proofs

`TPSchedulerProofs` proves for every `NumCU > 0`, every set of images and every
set of integer work sizes that `Spec` implies `[]TypeOK`, `[]PoolPartition`,
`[]RotationAlone`, `[]NoLostWakeup`, `[]CoordsUnshared`, `[]FreshImage` and
`ExactlyOnce`, that is, that the scheduler implements `WorkDispatch`.  The
argument rests on one inductive invariant, `IInv`:

* `LockInv`: `queue_mx` is owned exactly in the critical sections;
* `UnitInv`: `threadAllocated` is set while a thread works on an item and clear
  while it sleeps or returns;
* `QueueInv`: each unit is in the queue, in `addWork`'s hand or with its thread,
  and the queue is full outside the loops.  None of the safety properties is
  inductive without it: that the drain sees `NumCU` units in the queue means that
  no thread is active only because the queued units are different ones, the
  pigeonhole argument of lemma `FullQueue`;
* `ImageInv`: which units hold the image, position by position of a half-done
  rotation;
* `ItemInv`: an item that has been handed out is pending at exactly one unit or
  has been called exactly once, and one that has not has not been called.

The lemmas `LoopStart`, `LoopStep` and `LoopEnd` about `WorkItems` say that the
nested loops pass through the box of work items once, in order.

`PollsWaitForWork` is the safety half of why `addWork` returns: where it polls an
empty queue every unit's thread is working, and where it polls an incomplete one at
the end of a launch at least one is (lemma `NotWholePool`: with `NumCU` different
units in it the queue would be full).  It never waits for a thread that sleeps; that
the threads do come back is fairness, and stays with TLC.

`KernelWrapperProofs` builds on that invariant: every step of the wrapper is one of
the scheduler or leaves its variables alone, so `IInv` holds of `SpecWrapper` too, and
with it a unit runs a kernel only in a launch and with coordinates of its box.
`WrapperInv`, which says that a word some running unit has stored and every word read
are coordinates of this launch, is then inductive, for any number of units and any work
sizes, and gives `[]IdsInLaunch`.  That a kernel is told its *own* position is false
(`KernelWrapper_race`); `OwnItemWithoutRace` proves that the race is the only cause: where
no two units are in a kernel call at once it is told its own, and `OwnItemOnOneUnit`
draws the consequence for `COMPUTE_UNIT_ARRAY_SIZE` 1.  Both assume `FlatSizes`, launches
whose third size is at most 1, because `get_global_id` answers 0 for the third coordinate.

`CommandQueueProofs` proves, for any threads, any number of commands and
references, either kind of malloc and whether or not `calloc` may fail, that `Spec`
implies `[]TypeOK`, `[]CurrentIsFirstPending`, `[]NothingOvertaken`, `OnlyGhostsDangle`
and `InOrder`.  All but the first and the fourth speak of the time until `currentEvent`
has pointed to a freed command; the theorem `OrderWithoutFailures` says that where
allocations do not fail there is no such time: `currentEvent` never dangles and `Spec`
implies `CommandStream` itself.  `IInv` has two parts.  Always, the list holds the
commands that were created and not freed, in order (`ListInv`), and the purge's position
is in the list or NULL (`PurgeInv`), whatever it has read from freed blocks.  Until
`dangled`, what was dispatched is `1 .. Len(executed)` and complete, freed or reused,
the rest is pending, and `currentEvent` is the first of it (`ProgressInv`); and the purge
has not gone past `currentEvent` (`PurgeBehind`).  `PurgeBehind` is what makes
`OnlyGhostsDangle` and the others inductive: the purge stops at the first command that is
pending, and the only pending command it takes for a completed one is a ghost; if it
frees that, it was `currentEvent`, so that `dangled` becomes true in that step.

`HostDeviceProofs` has theorems for any kernels, values and sizes, images of any
number of chunks, any outcome of a build and any failures of opens, writes and closes
of `kernel.so`, with garbage in `kernelfd` or not and with a `sendAck` that returns or
does not.  `Spec` implies `[]TypeOK` and `[]StartIsAnswered`; `[]InStep` where writes
do not fail; `[]WholeImage` where closes do not fail; and where the application does not
go back to a kernel and failed builds are reported (`OwnImage`) `[]RunsOwnKernel` and
`ImplementsDevice`, that is, that the exchange implements `RemoteDevice`.  The
invariant, `Invariant`, has three cases, because there are three ways to go on from a
failure.

* `IInv`: the two ends are in step.  It adds to `InStep` which reply a dead device can
  have left (`DeadInv`), that the size on the device is the command's from its
  acknowledgement on (`SizeInv`), that during a transfer the file holds exactly the
  chunks that were acknowledged or are being answered (`LoadInv`, by which the last
  chunk's ACK and `kernelValid` coincide), that `isNew` is cleared only behind a valid
  kernel (`ValidInv`), and whose image the file is (`OwnInv`).
* `Broken`: a write has failed and the device has answered NAK and ACK.  The host is
  then behind its own reading of the file (`Behind`), and the device has and gets no more
  chunks than were read, under offsets that are too small: the last offset is never
  announced, the device's kernel stays invalid and the host never sees the transfer
  complete.  No step leads out of this case, which is the theorem
  `BrokenForGood`: `Spec => [](Broken => [](step = "load" /\ ~kernelValid))`.
* `Lost`: `sendAck` has not returned and the device is dead; at most one ACK is left
  to read.  `Early` says how little has happened before.

The step lemmas are shared by the cases where a step does the same in each.  The
lemma `Delivery` says what `recv` can leave of the one outstanding packet, and `Chunks`
that images of different kernels differ.  A file that is launched is whole because
`kernelValid` is set only by the chunk that ends at the announced length behind all the
others, which in `Broken` never comes; `WholeImages` needs `fclose` to succeed because
it is the one failure nobody is told of.

`SessionProofs` proves, for any threads, device objects and number of connections,
with and without deaths and failing binds, that `Spec` implies `[]TypeOK`,
`[]OneQueuePerObject`, `[]OwnAnswers` and `[]LostByOverlap`.  Its `IInv` says which
of a thread's places have an object, a connection and a worker (`ThreadInv`); that no
two threads were given the same connection (`DistinctInv`), because numbers that were
not yet given are untouched (`FreshInv`); that the device finds the end of a stream
only where the host has closed and a reset connection carries no request (`EndInv`);
that, unless two threads were past one test, an object belongs to one thread from the
test to the end of the release (`ObjectInv`) and an open connection carries at most
one message, of the worker that waits there (`TrafficInv`); and that, unless a
connection was made too early, the backlog is empty while the device is not in
`accept`, so that nothing is reset (`BacklogInv`).  `OneQueuePerObject` and
`LostByOverlap` are not inductive alone: a reset or an answer of the connection before
could reach the next queue.

`DeviceMemoryProofs` proves, for any memory, sizes, values, threads and number of
buffers and commands, that `SpecMemory` implies `[]MemoryTypeOK`, `[]BuffersFit` and
`FinishFlushes`, and for kernels called with the first buffers in order
(`ArgsInOrder`) `ActsOnOwnBuffers`, that is, that the commands implement
`BufferStore`.  Its `IInv` says that the buffers lie one behind the other up to
`mem_alloc_offset` (`LayoutInv`), that every packet says in offsets what its call says
in buffers (`PacketInv`), that a mapped region has one unmap, behind it (`UnmapInv`),
which results are there, not there yet or gone (`ResultInv`), and that the device has
left its memory only when more was allocated than it has (`OverrunInv`).  The lemma
`OverwriteRef` carries a store into the memory over to the contents of buffers: it
changes its own buffer and, as the buffers are disjoint, no other one.

`KernelBuildProofs` proves, for any programs, kernels, argument sizes and number of
pending commands, that where gcc succeeds and the application has the habits of the
demos (`Demos`) `Spec` implies `[]LaunchesAsEnqueued` and `[]BinaryIsOwn`.  Its `IInv`
says whose binary a program object has (`ProgramInv`); that `program.o` is the latest
program's except inside the calls that write it (`FileInv`); that pending commands have
the program and the arguments of their kernels, and all the latest program
(`QueueInv`); that the commands of one kernel follow one another and only the first
one's kernel may have been transferred (`BlockInv`), so that a command that runs
without a transfer finds its own image on the device (`DeviceInv`); and what the worker
has made of the files for the first command so far (`WorkerInv`).  The two properties
are not inductive alone: a file is right at a launch only because it was at each of the
five steps before.  `[]TypeOK` needs none of these assumptions, only that a call that is
on has its program, a worker that is not idle its command, and that each step finds the
file of the step before (`TInv`).  That `kernelwrapper.c` and `kernel.so` only ever have
offsets that begin with 0 comes from `OffsetsType`: `Offsets` is a recursive function,
the running sum of `get_kernel_args`, and `SumsExist` and `SumsType` show by a least
counterexample that there is one for every list of arguments and that it consists of
numbers.

`TransportProofs` proves, for any lengths of requests and answers, any sizes of the
device's buffer, the relay's buffers and the sockets, and any number of exchanges, that
`Spec` implies `[]TypeOK`, `[]ReadsReply`, `[]InStep` and `RequestsCarried`, that is, that
the connection implements `Exchange`.  Its `IInv` says in which of four phases an
exchange is (`PhaseInv`): at rest, with the request on its way (`Asking`), with the
device at work on it (`Handling`), with the answer on its way (`Answering`).  While a
message is on its way it lies along its path in order and without a gap (`Path`): what
the receiver has, the socket before it, the relay's buffer and the socket before that
are consecutive slices of it and end where it ends.  The lemmas `Cut` and `Move` about
slices carry that over a transfer of any number of cells from one place to the next,
and `PathFlush`, `PathRead` and `PathTake` over the steps of the relay and the two ends.
`InStep` is not inductive alone: that nothing is left when `dev_read` returns follows only
from how the lengths along the path add up.  The theorem `NoCircularWait` is what safety
can say about the exchange coming to an end: as long as `dev_read` waits, the device has
a request to answer, or some place has cells and the next one room for them, so that no
choice of buffer sizes makes the three processes wait for one another.

The assumptions on constants are those the modules state: bounds are natural numbers,
switches Boolean, sizes positive (`MAXBUF` is 64 KiB, `SocketConnector.hpp:14`, and no
packet is longer), in `DeviceMemory` that the marks `NotYet` and
`Gone` are not data, and in `KernelBuild` that `NoFile` is not an object.  `NoLostWakeup` of `TPScheduler` is proved only; no run checks
it, as a lost wake-up would show in `AddWorkReturns`.

Only model-checked: the liveness properties (`AddWorkReturns`, `EveryCommandExecuted`,
`CallsReturn`, `DispatchEnds`, `DeviceReturns`, `ReleaseReturns`, `ExchangeEnds`), because
liveness under fairness is beyond the prover.  Every invariant and every refinement that
a passing run checks is also a theorem; where a theorem has a hypothesis that the run's
instance does not mirror (`"close" \notin DiskFaults` of `WholeImages`,
`"write" \notin DiskFaults` of `RequestsAndRepliesInStep`) the configuration file leaves
the fault out too.

## Not modelled

Most of the repository's lines are not its own: `demos/cgminer` is a bitcoin miner
vendored as a client, `host/include/CL` the headers of Khronos with the C++ bindings
`cl.hpp`; neither is modelled, and neither has a part in how host and device work.

`clWaitForEvents` is a stub that returns at once, and no enqueue function makes an
event.  Reference counts are changed without locks everywhere: the models take the
retains and releases of one object as serialised, without which nothing is promised
and a double free follows at once; contexts, programs, kernels and buffers have one
reference, as in the demos.  `DeviceMemory` writes and reads whole buffers; the one
caller in the repository that does not is cgminer's scrypt kernel, which writes the
first 80 bytes of a buffer of 128 (`driver-opencl.c:1084`), a range inside the
buffer's own.  It builds on `CommandStream` and so on allocations that do not fail in
the middle of an enqueue function (`OrderWithoutFailures`).  RESET, unknown
packets and images longer than announced are never sent by this host, and the host's
error path for a refused global size is left out, because the device never refuses
one.  The packet length of 16 bits could be exceeded only by a transfer that is longer
than the device's whole memory, which `BuffersFit` is about.  `send` and `write` on a
blocking socket take everything, so the partial sends that `ControlLink.cpp:162` and
`dev_write` provide for do not happen; the relay's sockets do not block and
`Transport` has them.  The relay's `main` with its `fork` sets up two sockets and is
left out.  The build of the device without the thread pool is not what the Makefile
makes, and nothing reaches the scheduler's destructor.  `get_global_id` of dimension 2
is the constant 0 (`createwrapper.py:33`), so a kernel of three dimensions cannot learn
its third coordinate: a missing feature that no state depends on.  Kernel compilation
runs external tools; only its outcomes are modelled, `kernelargs` is taken to be
writable, and the failing allocations of `cl_program.c` are left out.  `clGet...Info`,
the platform and device queries, logging and `memdump` have no state a property could
be about.
