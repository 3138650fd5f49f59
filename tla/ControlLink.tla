----------------------------- MODULE ControlLink -----------------------------
(***************************************************************************)
(* The device's end of the control connection: the thread that receives    *)
(* bytes, processes at most one packet after each recv, and answers        *)
(* (src/device/ControlLink.cpp).                                           *)
(*                                                                         *)
(* A packet is two units in the stream, its leading bytes and the rest, so *)
(* that recv can deliver it in pieces or together with another packet.     *)
(* Replies are taken to arrive whole.  A kernel image is NChunks chunks    *)
(* of 512 bytes, and offsets and sizes count chunks.  The host never sends *)
(* RESET, an unknown packet or more bytes than the image has, so the       *)
(* answers to those are left out.  addWork is one step here: module        *)
(* TPScheduler shows that it runs each work item once before it returns.   *)
(***************************************************************************)
EXTENDS Naturals, Sequences

CONSTANTS
  Kernels,      \* the kernels of the application
  Values,       \* what the host writes into the memory
  Sizes,        \* global work sizes
  NChunks,      \* the chunks of a kernel image
  DiskFaults,   \* the calls on kernel.so that can fail: "open", "write", "close"
  FirstFd,      \* what the constructor, which does not set it, leaves in kernelfd
  SendersReturn \* sendAck and sendErr lack a return statement; a compiler can make
                \* them return, or run into the code that follows and crash

ASSUME ChunksAssumption == NChunks \in Nat \ {0}
ASSUME FaultsAssumption == DiskFaults \subseteq {"open", "write", "close"}
ASSUME FirstFdAssumption == FirstFd \subseteq {"null", "wild"} /\ FirstFd # {}
ASSUME SendersAssumption == SendersReturn \in BOOLEAN

VARIABLES
  toDevice,     \* host to device: units not yet received
  toHost,       \* device to host: replies not yet read
  buf,          \* the units received and not consumed
  kernelValid,
  kernelfd,     \* "open", "null", or "wild": a garbage pointer
  kernelFile,   \* the contents of the device's kernel.so
  groupSize,
  memory,
  devPc         \* "recv", "launch" inside addWork, or "dead"

streamVars == <<toDevice, toHost, buf>>
kernelVars == <<kernelValid, kernelfd, kernelFile>>
deviceVars == <<kernelVars, groupSize, memory, devPc>>

ChunksOf(k, n) == [i \in 1 .. n |-> <<k, i>>]     \* the first n chunks
Image(k) == ChunksOf(k, NChunks)
Images == {Image(k) : k \in Kernels}
Data == Values \cup (Kernels \X Sizes)

Chunk == Kernels \X (1 .. NChunks)
Packet ==
  [cmdId : {"MEM_WRITE_CMD"}, value : Values]
    \cup [cmdId : {"MEM_READ_CMD", "START_KERNEL"}]
    \cup [cmdId : {"GLOBAL_WORK_SIZE"}, size : Sizes]
    \cup [cmdId : {"LOAD_KERNEL_IMAGE"}, offset : 0 .. NChunks - 1, chunk : Chunk]

Partial == [cmdId |-> "partial"]      \* the leading bytes of a packet
Units(p) == <<Partial, p>>

Ack == [cmdId |-> "CTRL_ACK"]
Nak == [cmdId |-> "CTRL_NAK"]
Rsp(d) == [cmdId |-> "MEM_READ_RSP_CMD", data |-> d]
Reply == {Ack, Nak} \cup {Rsp(d) : d \in Data}

DeviceInit ==
  /\ toDevice = <<>>
  /\ toHost = <<>>
  /\ buf = <<>>
  /\ kernelValid = FALSE
  /\ kernelfd \in FirstFd
  /\ kernelFile = <<>>
  /\ groupSize \in Sizes
  /\ memory \in Values
  /\ devPc = "recv"

(* What sendAck and sendErr send, and where the handler goes after them. *)
Answer(replies, pc) ==
  IF SendersReturn
    THEN toHost' = toHost \o replies /\ devPc' = pc
    ELSE toHost' = Append(toHost, Head(replies)) /\ devPc' = "dead"

-----------------------------------------------------------------------------
(* The handlers.  Each says what becomes of toHost and the deviceVars.     *)

handleMemoryWrite(p) ==
  /\ p.cmdId = "MEM_WRITE_CMD"
  /\ memory' = p.value
  /\ Answer(<<Ack>>, devPc)
  /\ UNCHANGED <<kernelVars, groupSize>>

handleMemoryRead(p) ==
  /\ p.cmdId = "MEM_READ_CMD"
  /\ toHost' = Append(toHost, Rsp(memory))
  /\ UNCHANGED deviceVars

handleGlobalWorkSize(p) ==
  /\ p.cmdId = "GLOBAL_WORK_SIZE"
  /\ groupSize' = p.size
  /\ Answer(<<Ack>>, devPc)
  /\ UNCHANGED <<kernelVars, memory>>

(* Without a valid kernel there is no answer. *)
handleStartProcessing(p) ==
  /\ p.cmdId = "START_KERNEL"
  /\ devPc' = IF kernelValid THEN "launch" ELSE devPc
  /\ UNCHANGED <<toHost, kernelVars, groupSize, memory>>

IsLastChunk_OneLate(p) == p.offset = NChunks
IsLastChunk(p) == p.offset + 1 = NChunks

(* What the file holds and how it is open once a chunk at offset 0 has     *)
(* truncated it.                                                           *)
FileAt_Appended(p) == kernelFile
FileAt(p) == IF p.offset = 0 THEN <<>> ELSE kernelFile
FdAt(p) == IF p.offset = 0 THEN "open" ELSE kernelfd

(* The chunk is written; the last one closes the file.  Data that stdio    *)
(* still buffered is lost when that close fails, which nobody looks at.    *)
LoadChunk(p) ==
  LET written == Append(FileAt(p), p.chunk) IN
  /\ p.offset = 0 => kernelfd # "wild"
  /\ FdAt(p) = "open"
  /\ kernelValid' = IsLastChunk(p)
  /\ kernelfd' = IF IsLastChunk(p) THEN "null" ELSE "open"
  /\ \/ kernelFile' = written
     \/ /\ "close" \in DiskFaults
        /\ IsLastChunk(p)
        /\ \E n \in 0 .. Len(written) - 1 : kernelFile' = SubSeq(written, 1, n)
  /\ Answer(<<Ack>>, devPc)

(* A failed write closes the file and answers NAK, and then goes on: the   *)
(* last chunk closes the file a second time, any other one is acknowledged *)
(* as well.                                                                *)
LoadFails(p) ==
  /\ "write" \in DiskFaults
  /\ p.offset = 0 => kernelfd # "wild"
  /\ FdAt(p) = "open"
  /\ kernelValid' = FALSE
  /\ kernelfd' = "null"
  /\ kernelFile' = FileAt(p)
  /\ IF IsLastChunk(p) THEN Answer(<<Nak>>, "dead") ELSE Answer(<<Nak, Ack>>, devPc)

(* fclose of the uninitialised kernelfd. *)
LoadClosesGarbage(p) ==
  /\ p.offset = 0
  /\ kernelfd = "wild"
  /\ devPc' = "dead"
  /\ UNCHANGED <<toHost, kernelVars>>

(* Without an open file the handler answers NAK and writes to it all the   *)
(* same.                                                                   *)
LoadWithoutFile(p) ==
  /\ IF p.offset = 0 THEN "open" \in DiskFaults /\ kernelfd # "wild"
                     ELSE kernelfd # "open"
  /\ Answer(<<Nak>>, "dead")
  /\ UNCHANGED kernelVars

handleKernelLoad(p) ==
  /\ p.cmdId = "LOAD_KERNEL_IMAGE"
  /\ LoadChunk(p) \/ LoadFails(p) \/ LoadClosesGarbage(p) \/ LoadWithoutFile(p)
  /\ UNCHANGED <<groupSize, memory>>

processPacket(p) ==
  \/ handleMemoryWrite(p)
  \/ handleMemoryRead(p)
  \/ handleGlobalWorkSize(p)
  \/ handleStartProcessing(p)
  \/ handleKernelLoad(p)

-----------------------------------------------------------------------------
(* recv delivers the next n units; if the buffer then holds a whole packet,*)
(* one packet is processed, and no second one before the next recv.        *)
Recv(n) ==
  LET got == buf \o SubSeq(toDevice, 1, n) IN
  /\ devPc = "recv"
  /\ toDevice' = SubSeq(toDevice, n + 1, Len(toDevice))
  /\ \/ /\ Len(got) < 2
        /\ buf' = got
        /\ UNCHANGED <<toHost, deviceVars>>
     \/ /\ Len(got) >= 2
        /\ processPacket(got[2])
        /\ buf' = SubSeq(got, 3, Len(got))

(* addWork returns and is acknowledged. *)
LaunchDone ==
  /\ devPc = "launch"
  /\ \E k \in Kernels : kernelFile = Image(k) /\ memory' = <<k, groupSize>>
  /\ Answer(<<Ack>>, "recv")
  /\ UNCHANGED <<toDevice, buf, kernelVars, groupSize>>

(* dlopen refuses a torn image, and set_kernel ends the process. *)
LaunchRefused ==
  /\ devPc = "launch"
  /\ kernelFile \notin Images
  /\ devPc' = "dead"
  /\ UNCHANGED <<streamVars, kernelVars, groupSize, memory>>

DeviceStep ==
  \/ \E n \in 1 .. Len(toDevice) : Recv(n)
  \/ LaunchDone
  \/ LaunchRefused
=============================================================================
