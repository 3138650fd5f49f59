----------------------------- MODULE HostDevice -----------------------------
(***************************************************************************)
(* The exchange of a host with its device, command after command:          *)
(* queue_dispatchCommand with the functions it calls (cl_cqueue.c:232-504) *)
(* at one end of the connection, ControlLink at the other.                 *)
(*                                                                         *)
(* The queue's worker dispatches one command at a time, so `command' is    *)
(* all of the queue this module needs; in CommandQueue a whole exchange is *)
(* the step Dispatch.  Maps exchange what reads do; unmaps and barriers    *)
(* exchange nothing.                                                       *)
(***************************************************************************)
EXTENDS ControlLink

CONSTANTS
  NoKernel,       \* no kernel.so has been built
  BuildOutcomes,  \* "built"; "refused": createwrapper.py fails;
                  \* "stale": gcc fails, which compilekernel.sh does not report
  SwitchBack      \* whether the application runs a kernel again that another
                  \* one has replaced on the device

ASSUME NoKernelAssumption == NoKernel \notin Kernels
ASSUME OutcomesAssumption == BuildOutcomes \subseteq {"built", "refused", "stale"}
ASSUME SwitchAssumption == SwitchBack \in BOOLEAN

VARIABLES
  command,      \* the command being dispatched
  step,         \* which of its exchanges is on, or "idle", or "compile"
  awaiting,     \* the host is in dev_read, waiting for the answer
  isNew,        \* of each kernel object
  hostImage,    \* the kernel whose image the host's kernel.so is
  transferred,  \* transferKernel: chunks that were acknowledged
  filePos,      \* its position in kernel.so
  ret           \* what the last read copied to the application

hostVars == <<command, step, awaiting, isNew, hostImage, transferred, filePos, ret>>
vars == <<streamVars, deviceVars, hostVars>>

Remote == INSTANCE RemoteDevice
            WITH executed <- toHost # <<>> /\ step \in {"write", "read", "start"}

Command == Remote!Command
NoCommand == Remote!NoCommand

Init ==
  /\ DeviceInit
  /\ command = NoCommand
  /\ step = "idle"
  /\ awaiting = FALSE
  /\ isNew = [k \in Kernels |-> TRUE]
  /\ hostImage = NoKernel
  /\ transferred = 0
  /\ filePos = 0
  /\ ret = memory           \* the application's buffer before the first read

-----------------------------------------------------------------------------
FirstStep_SizeOnce(c) ==
  CASE c.op = "write" -> "write"
    [] c.op = "read" -> "read"
    [] c.op = "run" -> IF isNew[c.kernel] THEN "size" ELSE "start"
FirstStep(c) ==
  CASE c.op = "write" -> "write" [] c.op = "read" -> "read" [] c.op = "run" -> "size"

Begin(c) ==
  /\ step = "idle"
  /\ c.op = "run" => SwitchBack \/ isNew[c.kernel] \/ hostImage = c.kernel
  /\ command' = c
  /\ step' = FirstStep(c)
  /\ UNCHANGED <<awaiting, isNew, hostImage, transferred, filePos, ret, streamVars, deviceVars>>

End ==
  /\ command' = NoCommand
  /\ step' = "idle"

Send(p) ==
  /\ ~awaiting
  /\ awaiting' = TRUE
  /\ toDevice' = toDevice \o Units(p)

Request ==
  CASE step = "write" -> [cmdId |-> "MEM_WRITE_CMD", value |-> command.value]
    [] step = "read"  -> [cmdId |-> "MEM_READ_CMD"]
    [] step = "size"  -> [cmdId |-> "GLOBAL_WORK_SIZE", size |-> command.size]
    [] step = "start" -> [cmdId |-> "START_KERNEL"]

SendRequest ==
  /\ step \in {"write", "read", "size", "start"}
  /\ Send(Request)
  /\ UNCHANGED <<command, step, isNew, hostImage, transferred, filePos, ret,
                 toHost, buf, deviceVars>>

(* One turn of transferKernel's loop.  The offset is what was acknowledged,*)
(* the data what fread finds next.  Where fread finds nothing more the     *)
(* loop turns for ever.                                                    *)
SendChunk ==
  /\ step = "load"
  /\ filePos < NChunks
  /\ Send([cmdId |-> "LOAD_KERNEL_IMAGE", offset |-> transferred,
           chunk |-> <<hostImage, filePos + 1>>])
  /\ filePos' = filePos + 1
  /\ UNCHANGED <<command, step, isNew, hostImage, transferred, ret, toHost, buf, deviceVars>>

Rewound_AtEnd == NChunks
Rewound == 0

(* compileKernel, and the fopen at the start of transferKernel, which      *)
(* fails where no kernel.so was ever built.                                *)
CompileKernel ==
  /\ step = "compile"
  /\ \/ /\ "built" \in BuildOutcomes
        /\ hostImage' = command.kernel
        /\ step' = "load"
        /\ UNCHANGED command
     \/ /\ "stale" \in BuildOutcomes
        /\ hostImage # NoKernel
        /\ step' = "load"
        /\ UNCHANGED <<command, hostImage>>
     \/ /\ \/ "refused" \in BuildOutcomes
           \/ "stale" \in BuildOutcomes /\ hostImage = NoKernel
        /\ End
        /\ UNCHANGED hostImage
  /\ transferred' = 0
  /\ filePos' = Rewound
  /\ UNCHANGED <<awaiting, isNew, ret, streamVars, deviceVars>>

-----------------------------------------------------------------------------
(* The answer arrives.  Only a read needs what is in it.                   *)
TakeReply ==
  /\ awaiting
  /\ toHost # <<>>
  /\ toHost' = Tail(toHost)
  /\ awaiting' = FALSE
  /\ UNCHANGED <<toDevice, buf, deviceVars, hostImage, filePos>>

EndReply ==                       \* a write or the start of a kernel is over
  /\ step \in {"write", "start"}
  /\ TakeReply
  /\ End
  /\ UNCHANGED <<isNew, transferred, ret>>

ReadReply ==
  /\ step = "read"
  /\ TakeReply
  /\ ret' = Head(toHost).data
  /\ End
  /\ UNCHANGED <<isNew, transferred>>

NeedsTransfer_Once(k) == \A j \in Kernels : isNew[j]
NeedsTransfer(k) == isNew[k]

(* The device never refuses a size, so the error path is left out. *)
SizeReply ==
  /\ step = "size"
  /\ TakeReply
  /\ step' = IF NeedsTransfer(command.kernel) THEN "compile" ELSE "start"
  /\ UNCHANGED <<command, isNew, transferred, ret>>

TransferComplete_OneShort(n) == n + 1 >= NChunks
TransferComplete(n) == n >= NChunks

LoadAcked ==
  /\ step = "load"
  /\ TakeReply
  /\ Head(toHost) = Ack
  /\ transferred' = transferred + 1
  /\ IF TransferComplete(transferred')
       THEN step' = "start" /\ isNew' = [isNew EXCEPT ![command.kernel] = FALSE]
       ELSE UNCHANGED <<step, isNew>>
  /\ UNCHANGED <<command, ret>>

LoadRefused ==
  /\ step = "load"
  /\ TakeReply
  /\ Head(toHost) = Nak
  /\ UNCHANGED <<command, step, isNew, transferred, ret>>

HostStep ==
  \/ SendRequest \/ SendChunk \/ CompileKernel
  \/ EndReply \/ ReadReply \/ SizeReply \/ LoadAcked \/ LoadRefused

ControlLinkStep == DeviceStep /\ UNCHANGED hostVars

Next == (\E c \in Command : Begin(c)) \/ HostStep \/ ControlLinkStep

Spec == Init /\ [][Next]_vars
FairSpec == Spec /\ WF_vars(HostStep) /\ WF_vars(ControlLinkStep)
-----------------------------------------------------------------------------
(* Type invariant of the connection, the device and the dispatching worker. *)
TypeOK ==
  /\ toDevice \in Seq({Partial} \cup Packet)
  /\ toHost \in Seq(Reply)
  /\ buf \in Seq({Partial} \cup Packet)
  /\ kernelValid \in BOOLEAN
  /\ kernelfd \in {"open", "null", "wild"}
  /\ kernelFile \in Seq(Chunk) /\ Len(kernelFile) <= NChunks
  /\ groupSize \in Sizes
  /\ memory \in Data
  /\ devPc \in {"recv", "launch", "dead"}
  /\ command \in Command \cup {NoCommand}
  /\ step \in {"idle", "write", "read", "size", "compile", "load", "start"}
  /\ awaiting \in BOOLEAN
  /\ isNew \in [Kernels -> BOOLEAN]
  /\ hostImage \in Kernels \cup {NoKernel}
  /\ transferred \in 0 .. NChunks
  /\ filePos \in 0 .. NChunks
  /\ ret \in Data

(* The request the host is waiting on, and its proper answer. *)
Outstanding ==
  IF step = "load"
    THEN [cmdId |-> "LOAD_KERNEL_IMAGE", offset |-> transferred,
          chunk |-> <<hostImage, filePos>>]
    ELSE Request
ProperReply == IF step = "read" THEN Rsp(memory) ELSE Ack

Quiet == toDevice = <<>> /\ buf = <<>>
Unanswered == buf \o toDevice = Units(Outstanding) /\ toHost = <<>> /\ devPc = "recv"
Launching == Quiet /\ toHost = <<>> /\ devPc = "launch" /\ step = "start"
Answered == Quiet /\ toHost = <<ProperReply>> /\ devPc = "recv"

(* Request and reply stay in step while the device lives: when the worker  *)
(* is not in dev_read, nothing is on the way in either direction; when it  *)
(* is, its one request is on the way, being executed, or answered by the   *)
(* one reply that belongs to it.  A reply too many would be taken for the  *)
(* answer to a later command, and a request the device does not answer     *)
(* would block the worker with queue_mutex held for ever.                  *)
InStep ==
  devPc # "dead" =>
    IF awaiting THEN Unanswered \/ Launching \/ Answered
    ELSE Quiet /\ toHost = <<>> /\ devPc = "recv"

(* A launch runs the code of the kernel its command names over the         *)
(* command's global work size, although the image was perhaps transferred  *)
(* many commands ago.  (An image that dlopen refuses runs nothing.)        *)
RunsOwnKernel ==
  devPc = "launch" /\ kernelFile \in Images =>
    /\ kernelFile = Image(command.kernel)
    /\ groupSize = command.size

(* Whatever writes of kernel.so fail and are answered by a NAK and an ACK, *)
(* the device never launches a file that is not a whole image.             *)
WholeImage == devPc = "launch" => kernelFile \in Images

(* The host sends START_KERNEL only to a device that holds a valid kernel; *)
(* a device that holds none would not answer.                              *)
StartIsAnswered == step = "start" /\ devPc = "recv" /\ toHost = <<>> => kernelValid

(* The exchange implements the promise of RemoteDevice: every command has  *)
(* its effect exactly once within its dispatch, reads return the memory as *)
(* the commands before them left it.                                       *)
ImplementsDevice == Remote!Spec

(* The parts of IInv, which makes the properties above inductive as long   *)
(* as the two ends are in step.                                            *)
CommandInv ==
  /\ step = "idle" <=> command = NoCommand
  /\ step \in {"write", "read"} => command.op = step
  /\ step \in {"size", "compile", "load", "start"} => command.op = "run"
  /\ step \in {"idle", "compile"} => ~awaiting
  /\ step = "load" => hostImage \in Kernels /\ transferred < NChunks

(* The device dies only in a load or a start. *)
DeadInv ==
  devPc = "dead" =>
    \/ step = "load" /\ (toHost # <<>> => toHost = <<Nak>> /\ awaiting)
    \/ step = "start" /\ toHost = <<>> /\ awaiting

SizeInv ==
  step \in {"compile", "load", "start"} \/ (step = "size" /\ toHost # <<>>) =>
    groupSize = command.size

(* How much of the image is on the device during a transfer. *)
Loaded == IF toHost # <<>> THEN filePos ELSE transferred

LoadInv ==
  devPc # "dead" /\ step = "load" =>
    /\ filePos = transferred + (IF awaiting THEN 1 ELSE 0)
    /\ Loaded \in 1 .. NChunks - 1 =>
         kernelfd = "open" /\ kernelFile = ChunksOf(hostImage, Loaded)
    /\ Loaded = NChunks =>
         kernelValid /\ (kernelFile \in Images => kernelFile = Image(hostImage))

(* Once a kernel was transferred, the device holds a valid one outside the *)
(* transfers.                                                              *)
ValidInv ==
  /\ step = "start" => ~isNew[command.kernel]
  /\ devPc # "dead" /\ step # "load" /\ (\E k \in Kernels : ~isNew[k]) => kernelValid

(* Where the application does not switch back and builds do not silently   *)
(* fail, the file is that of the kernel the next launch is for.            *)
OwnImage == ~SwitchBack /\ "stale" \notin BuildOutcomes

OwnInv ==
  OwnImage /\ devPc # "dead" =>
    /\ step # "load" /\ kernelFile \in Images /\ hostImage # NoKernel =>
         kernelFile = Image(hostImage)
    /\ step \in {"load", "start"} => hostImage = command.kernel
    /\ step = "size" => isNew[command.kernel] \/ hostImage = command.kernel

IInv == TypeOK /\ InStep /\ CommandInv /\ DeadInv /\ SizeInv /\ LoadInv /\ ValidInv /\ OwnInv

(* Where a write of kernel.so failed, the NAK leaves the host and the      *)
(* device out of step: the ACK that follows it answers the next chunk.     *)
(* The host is then behind its own reading of kernel.so for good, sends    *)
(* what is left of it under offsets that are too small, and never sees the *)
(* transfer complete.                                                      *)
LateUnits ==
  {Partial} \cup [cmdId : {"LOAD_KERNEL_IMAGE"}, offset : 0 .. NChunks - 2, chunk : Chunk]

Behind ==
  \/ transferred + (IF awaiting THEN 1 ELSE 0) < filePos
  \/ /\ awaiting /\ transferred + 1 = filePos /\ filePos < NChunks
     /\ Quiet /\ toHost = <<Nak, Ack>>

Broken ==
  /\ SendersReturn /\ "write" \in DiskFaults
  /\ TypeOK /\ CommandInv /\ step = "load"
  /\ devPc \in {"recv", "dead"} /\ ~kernelValid
  /\ buf \in Seq(LateUnits) /\ toDevice \in Seq(LateUnits)
  /\ 2 * Len(kernelFile) + Len(buf) + Len(toDevice) <= 2 * filePos
  /\ Behind

(* Where sendAck does not return, the device does not live to see more     *)
(* than reads, and the host waits for ever in the exchange after the next. *)
Early ==
  ~SendersReturn =>
    /\ devPc # "dead" /\ step \in {"idle", "write", "read", "size"}
    /\ step = "size" => toHost = <<>>

Lost ==
  /\ ~SendersReturn /\ devPc = "dead"
  /\ TypeOK /\ CommandInv
  /\ toHost # <<>> => awaiting /\ toHost = <<Ack>> /\ step \in {"write", "size"}

Invariant == (IInv /\ Early) \/ Broken \/ Lost

(* Every dispatched command ends, and with it the worker's hold on         *)
(* queue_mutex, unless the device's process ends before.                   *)
DispatchEnds == step # "idle" ~> step = "idle" \/ devPc = "dead"
=============================================================================
