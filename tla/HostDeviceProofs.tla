-------------------------- MODULE HostDeviceProofs ---------------------------
(***************************************************************************)
(* Proofs about the exchange of a host with its device, for any kernels,   *)
(* values, global work sizes and length of the images, and whatever of the *)
(* device's file calls fail, kernelfd is at first, and sendAck does.       *)
(*                                                                         *)
(* The exchange is in one of three phases: in step (IInv), from which it   *)
(* leaves for good where a write of kernel.so has failed (Broken) or       *)
(* sendAck has not returned (Lost).                                        *)
(***************************************************************************)
EXTENDS HostDevice, SequenceTheorems, TLAPS

LEMMA Chunks ==
  /\ \A k : ChunksOf(k, 0) = <<>>
  /\ \A k : \A n \in Nat : Append(ChunksOf(k, n), <<k, n + 1>>) = ChunksOf(k, n + 1)
  /\ \A k \in Kernels, n \in 0 .. NChunks :
       ChunksOf(k, n) \in Seq(Chunk) /\ Len(ChunksOf(k, n)) = n
  /\ \A j, k : Image(j) = Image(k) => j = k
<1>1. \A k : ChunksOf(k, 0) = <<>>
  BY DEF ChunksOf
<1>2. ASSUME NEW k, NEW n \in Nat
      PROVE  /\ ChunksOf(k, n) \in Seq({<<k, i>> : i \in 1 .. n})
             /\ Len(ChunksOf(k, n)) = n
  BY <1>2 DEF ChunksOf
<1>3. ASSUME NEW k, NEW n \in Nat
      PROVE  Append(ChunksOf(k, n), <<k, n + 1>>) = ChunksOf(k, n + 1)
  <2> DEFINE a == Append(ChunksOf(k, n), <<k, n + 1>>)
  <2> DEFINE S == {<<k, i>> : i \in 1 .. n + 1}
  <2>1. ChunksOf(k, n) \in Seq(S) /\ Len(ChunksOf(k, n)) = n
    BY DEF ChunksOf
  <2>2. a \in Seq(S) /\ Len(a) = n + 1 /\ a[n + 1] = <<k, n + 1>>
        /\ \A i \in 1 .. n : a[i] = ChunksOf(k, n)[i]
    BY <2>1, AppendProperties
  <2>3. ChunksOf(k, n + 1) \in Seq(S) /\ Len(ChunksOf(k, n + 1)) = n + 1
    BY DEF ChunksOf
  <2>4. \A i \in 1 .. n + 1 : a[i] = ChunksOf(k, n + 1)[i]
    BY <2>2 DEF ChunksOf
  <2> HIDE DEF a, S
  <2>5. a = ChunksOf(k, n + 1)
    BY <2>2, <2>3, <2>4, SeqEqual
  <2> QED BY <2>5 DEF a
<1>4. ASSUME NEW k \in Kernels, NEW n \in 0 .. NChunks
      PROVE  ChunksOf(k, n) \in Seq(Chunk) /\ Len(ChunksOf(k, n)) = n
  BY ChunksAssumption DEF ChunksOf, Chunk
<1>5. ASSUME NEW j, NEW k, Image(j) = Image(k) PROVE j = k
  <2>1. Image(j)[1] = <<j, 1>> /\ Image(k)[1] = <<k, 1>>
    BY ChunksAssumption DEF Image, ChunksOf
  <2> QED BY <1>5, <2>1
<1> QED BY <1>1, <1>3, <1>4, <1>5

(* A torn file is no image. *)
LEMMA Torn ==
  ASSUME NEW k \in Kernels, NEW n \in 0 .. NChunks - 1
  PROVE  ChunksOf(k, n) \notin Images
<1>1. Len(ChunksOf(k, n)) = n /\ \A j \in Kernels : Len(Image(j)) = NChunks
  BY Chunks, ChunksAssumption DEF Image
<1> QED BY <1>1 DEF Images

LEMMA Tear ==
  ASSUME NEW k \in Kernels, NEW n \in 0 .. NChunks - 1
  PROVE  SubSeq(Image(k), 1, n) = ChunksOf(k, n)
<1>1. Image(k) \in Seq(Chunk) /\ Len(Image(k)) = NChunks
  BY Chunks, ChunksAssumption DEF Image
<1>2. SubSeq(Image(k), 1, n) = [i \in 1 .. n |-> Image(k)[i]]
  BY <1>1, ChunksAssumption
<1> QED BY <1>2, ChunksAssumption DEF Image, ChunksOf

Unit == {Partial} \cup Packet

Delivered(n) == buf \o SubSeq(toDevice, 1, n)
Left(n) == SubSeq(toDevice, n + 1, Len(toDevice))

(* What recv delivers of one packet. *)
LEMMA Delivery ==
  ASSUME buf \in Seq(Unit), toDevice \in Seq(Unit), buf \o toDevice = Units(Outstanding),
         NEW n \in 1 .. Len(toDevice)
  PROVE  /\ Delivered(n) \in Seq(Unit) /\ Left(n) \in Seq(Unit) /\ Len(Delivered(n)) \in Nat
         /\ Delivered(n) \o Left(n) = Units(Outstanding)
         /\ Len(Delivered(n)) >= 2 =>
              /\ Delivered(n)[2] = Outstanding
              /\ Left(n) = <<>>
              /\ SubSeq(Delivered(n), 3, Len(Delivered(n))) = <<>>
<1>1. SubSeq(toDevice, 1, n) \in Seq(Unit) /\ SubSeq(toDevice, n + 1, Len(toDevice)) \in Seq(Unit)
      /\ Len(SubSeq(toDevice, 1, n)) = n /\ Len(SubSeq(toDevice, n + 1, Len(toDevice))) = Len(toDevice) - n
  <2>1. Len(toDevice) \in Nat /\ \A i \in 1 .. Len(toDevice) : toDevice[i] \in Unit
    BY LenProperties, ElementOfSeq
  <2>2. SubSeq(toDevice, 1, n) \in Seq(Unit) /\ Len(SubSeq(toDevice, 1, n)) = n
    BY <2>1, SubSeqProperties
  <2>3. SubSeq(toDevice, n + 1, Len(toDevice)) \in Seq(Unit) /\ Len(SubSeq(toDevice, n + 1, Len(toDevice))) = Len(toDevice) - n
    BY <2>1, SubSeqProperties
  <2> QED BY <2>2, <2>3
<1>2. PICK h \in Seq(Unit), rest \in Seq(Unit) :
        /\ h = SubSeq(toDevice, 1, n) /\ rest = SubSeq(toDevice, n + 1, Len(toDevice))
        /\ Len(h) = n /\ Len(rest) = Len(toDevice) - n
  BY <1>1
<1>3. h \o rest = toDevice
  <2>1. \A i \in 1 .. n : h[i] = toDevice[i]
    BY <1>2, LenProperties
  <2>2. \A i \in 1 .. Len(toDevice) - n : rest[i] = toDevice[n + i]
    BY <1>2, LenProperties
  <2>3. h \o rest \in Seq(Unit) /\ Len(h \o rest) = Len(toDevice)
    BY <1>2, ConcatProperties, LenProperties
  <2>4. \A i \in 1 .. Len(toDevice) : (h \o rest)[i] = toDevice[i]
    <3> TAKE i \in 1 .. Len(toDevice)
    <3>1. Len(toDevice) \in Nat /\ n \in Nat /\ n <= Len(toDevice) /\ i \in Nat
      BY LenProperties
    <3>2. CASE i <= n
      <4>1. i \in 1 .. n
        BY <3>1, <3>2
      <4>2. (h \o rest)[i] = h[i]
        BY <1>2, <3>1, <4>1, ConcatProperties
      <4> QED BY <2>1, <4>1, <4>2
    <3>3. CASE ~(i <= n)
      <4>1. PICK j \in 1 .. Len(toDevice) - n : j = i - n /\ n + j = i
        BY <3>1, <3>3
      <4>2. (h \o rest)[i] = rest[j]
        BY <1>2, <3>1, <3>3, <4>1, ConcatProperties
      <4>3. rest[j] = toDevice[n + j]
        BY <2>2
      <4>4. toDevice[n + j] = toDevice[i]
        BY <4>1
      <4> QED BY <4>2, <4>3, <4>4
    <3> QED BY <3>2, <3>3
  <2> QED BY <2>3, <2>4, SeqEqual
<1>4. Delivered(n) \o rest = Units(Outstanding) /\ Delivered(n) = buf \o h /\ Delivered(n) \in Seq(Unit) /\ Len(Delivered(n)) = Len(buf) + n /\ Len(Delivered(n)) \in Nat
  <2>1. (buf \o h) \o rest = buf \o (h \o rest)
    <3>1. h \in Seq(Unit) /\ rest \in Seq(Unit)
      BY <1>2
    <3> QED BY <3>1, SMTT(30)
  <2>2. Delivered(n) = buf \o h
    BY <1>2 DEF Delivered
  <2>3. buf \o h \in Seq(Unit) /\ Len(buf \o h) = Len(buf) + n /\ Len(buf \o h) \in Nat
    BY <1>2, ConcatProperties, LenProperties
  <2> QED BY <2>1, <2>2, <2>3, <1>3
<1>5. Len(buf) + Len(toDevice) = 2 /\ (Delivered(n) \o rest)[2] = Outstanding
  <2>1. Len(buf \o toDevice) = Len(buf) + Len(toDevice)
    BY ConcatProperties
  <2>2. Len(Units(Outstanding)) = 2 /\ Units(Outstanding)[2] = Outstanding
    BY DEF Units
  <2> QED BY <2>1, <2>2, <1>4
<1>6. ASSUME Len(Delivered(n)) >= 2
      PROVE  Delivered(n)[2] = Outstanding /\ rest = <<>> /\ SubSeq(Delivered(n), 3, Len(Delivered(n))) = <<>>
  <2>1. Len(Delivered(n)) = 2 /\ Len(rest) = 0
    BY <1>2, <1>4, <1>5, <1>6, LenProperties
  <2>2. rest = <<>>
    BY <2>1, EmptySeq
  <2>3. Delivered(n) \o rest = Delivered(n)
    BY <1>4, <2>2, ConcatEmptySeq
  <2>4. SubSeq(Delivered(n), 3, 2) = <<>>
    BY <1>4
  <2> QED BY <1>5, <2>1, <2>2, <2>3, <2>4
<1> QED BY <1>2, <1>4, <1>6 DEF Delivered, Left

-----------------------------------------------------------------------------
LEMMA InitInv == Init => IInv
<1> SUFFICES ASSUME Init PROVE IInv
  OBVIOUS
<1>1. TypeOK
  <2>1. memory \in Data /\ ret \in Data /\ groupSize \in Sizes
    BY DEF Init, DeviceInit, Data
  <2>2. toDevice = <<>> /\ toHost = <<>> /\ buf = <<>> /\ kernelFile = <<>> /\ Len(kernelFile) = 0
    BY DEF Init, DeviceInit
  <2>3. kernelfd \in {"open", "null", "wild"} /\ kernelValid \in BOOLEAN /\ devPc = "recv"
    BY FirstFdAssumption DEF Init, DeviceInit
  <2>4. isNew \in [Kernels -> BOOLEAN] /\ transferred = 0 /\ filePos = 0 /\ awaiting = FALSE
        /\ step = "idle" /\ hostImage = NoKernel /\ command = NoCommand
    BY DEF Init
  <2>5. 0 \in 0 .. NChunks /\ 0 <= NChunks
    BY ChunksAssumption
  <2> QED BY <2>1, <2>2, <2>3, <2>4, <2>5, EmptySeq DEF TypeOK
<1>2. InStep
  BY DEF Init, DeviceInit, InStep, Quiet
<1>3. CommandInv /\ DeadInv /\ SizeInv /\ LoadInv
  BY DEF Init, DeviceInit, CommandInv, DeadInv, SizeInv, LoadInv
<1>4. ValidInv /\ OwnInv
  BY DEF Init, DeviceInit, ValidInv, OwnInv
<1> QED BY <1>1, <1>2, <1>3, <1>4 DEF IInv

(* A reply that is there is the proper one. *)
LEMMA Replied ==
  ASSUME IInv, awaiting, toHost # <<>>, devPc # "dead"
  PROVE  Answered
BY DEF IInv, InStep, Unanswered, Launching

(* Of a dead device there is only the reply to a failed load. *)
LEMMA DeadReply ==
  ASSUME IInv, toHost # <<>>, devPc = "dead"
  PROVE  step = "load" /\ toHost = <<Nak>>
BY DEF IInv, DeadInv

(* What arrives at the device is the outstanding request. *)
LEMMA Arriving ==
  ASSUME IInv, devPc = "recv", NEW n \in 1 .. Len(toDevice)
  PROVE  awaiting /\ Unanswered
<1>1. toDevice # <<>>
  BY DEF IInv, TypeOK
<1> QED BY <1>1 DEF IInv, InStep, Quiet, Launching, Answered

LEMMA CommandOp ==
  ASSUME command \in Command
  PROVE  /\ command # NoCommand
         /\ command.op \in {"write", "read", "run"}
         /\ command.op = "write" => command.value \in Values
         /\ command.op = "run" => command.kernel \in Kernels /\ command.size \in Sizes
BY DEF Command, NoCommand, Remote!Command, Remote!NoCommand

-----------------------------------------------------------------------------
(* The steps of the host. *)

LEMMA BeginStep ==
  ASSUME IInv, NEW c \in Command, Begin(c)
  PROVE  IInv'
<1> c.op \in {"write", "read", "run"} /\ c # NoCommand
    /\ (c.op = "run" => c.kernel \in Kernels /\ c.size \in Sizes)
  BY DEF Command, NoCommand, Remote!Command, Remote!NoCommand
<1>1. step = "idle" /\ ~awaiting /\ awaiting' = awaiting /\ devPc # "dead" /\ toHost = <<>>
  BY DEF Begin, IInv, CommandInv, DeadInv, InStep
<1>2. command' = c /\ step' \in {"write", "read", "size"} /\ (step' \in {"write", "read"} => c.op = step')
      /\ (step' = "size" => c.op = "run")
  BY DEF Begin, FirstStep
<1>3. UNCHANGED <<streamVars, deviceVars, isNew, hostImage, transferred, filePos, ret>>
  BY DEF Begin
<1>4. TypeOK'
  BY <1>1, <1>2, <1>3 DEF IInv, TypeOK, streamVars, deviceVars, kernelVars
<1>5. InStep'
  BY <1>1, <1>3 DEF IInv, InStep, Quiet, streamVars, deviceVars
<1>6. CommandInv' /\ DeadInv' /\ SizeInv' /\ LoadInv'
  BY <1>1, <1>2, <1>3 DEF CommandInv, DeadInv, SizeInv, LoadInv, streamVars, deviceVars
<1>7. ValidInv' /\ OwnInv'
  <2>1. c.op = "run" => SwitchBack \/ isNew[c.kernel] \/ hostImage = c.kernel
    BY DEF Begin
  <2>2. ValidInv'
    BY <1>1, <1>2, <1>3 DEF IInv, ValidInv, deviceVars, kernelVars
  <2>3. OwnInv'
    BY <1>1, <1>2, <1>3, <2>1 DEF IInv, OwnInv, OwnImage, deviceVars, kernelVars
  <2> QED BY <2>2, <2>3
<1> QED BY <1>4, <1>5, <1>6, <1>7 DEF IInv

LEMMA SendType ==
  ASSUME TypeOK, NEW p \in Packet, Send(p)
  PROVE  /\ toDevice' \in Seq({Partial} \cup Packet)
         /\ toDevice = <<>> => toDevice' = Units(p)
<1>1. Units(p) \in Seq({Partial} \cup Packet)
  BY DEF Units
<1> QED BY <1>1, ConcatProperties, ConcatEmptySeq DEF Send, TypeOK

LEMMA SendRequestStep ==
  ASSUME IInv, SendRequest
  PROVE  IInv'
<1>1. step \in {"write", "read", "size", "start"} /\ ~awaiting /\ awaiting' = TRUE
  BY DEF SendRequest, Send
<1>2. devPc # "dead"
  BY <1>1 DEF IInv, DeadInv
<1>3. Quiet /\ toHost = <<>> /\ devPc = "recv"
  BY <1>1, <1>2 DEF IInv, InStep
<1>4. UNCHANGED <<command, step, isNew, hostImage, transferred, filePos, ret, toHost, buf, deviceVars>>
  BY DEF SendRequest
<1>5. command \in Command
  BY <1>1 DEF IInv, CommandInv, TypeOK
<1>6. Request \in Packet
  BY <1>1, <1>5, CommandOp DEF Request, Packet, IInv, CommandInv
<1>7. toDevice' \in Seq({Partial} \cup Packet) /\ toDevice' = Units(Request)
  BY <1>3, <1>6, SendType DEF SendRequest, Quiet, IInv
<1>8. TypeOK'
  BY <1>1, <1>4, <1>7 DEF IInv, TypeOK, deviceVars, kernelVars
<1>9. InStep'
  <2>1. Outstanding' = Request
    BY <1>1, <1>4 DEF Outstanding, Request
  <2>2. buf' \o toDevice' = Units(Request)
    BY <1>3, <1>4, <1>7, ConcatEmptySeq DEF Quiet
  <2>3. Unanswered'
    BY <1>3, <1>4, <2>1, <2>2 DEF Unanswered, deviceVars
  <2> QED BY <1>1, <2>3 DEF InStep
<1>10. CommandInv' /\ DeadInv' /\ SizeInv' /\ LoadInv'
  BY <1>1, <1>2, <1>4 DEF IInv, CommandInv, DeadInv, SizeInv, LoadInv, deviceVars
<1>11. ValidInv' /\ OwnInv'
  BY <1>4 DEF IInv, ValidInv, OwnInv, OwnImage, deviceVars, kernelVars
<1> QED BY <1>8, <1>9, <1>10, <1>11 DEF IInv

LEMMA SendChunkStep ==
  ASSUME IInv, SendChunk
  PROVE  IInv'
<1> DEFINE p == [cmdId |-> "LOAD_KERNEL_IMAGE", offset |-> transferred,
                 chunk |-> <<hostImage, filePos + 1>>]
<1>1. step = "load" /\ ~awaiting /\ awaiting' = TRUE /\ filePos < NChunks /\ filePos' = filePos + 1
  BY DEF SendChunk, Send
<1>2. UNCHANGED <<command, step, isNew, hostImage, transferred, ret, toHost, buf, deviceVars>>
  BY DEF SendChunk
<1>3. hostImage \in Kernels /\ transferred \in 0 .. NChunks - 1 /\ filePos + 1 \in 1 .. NChunks
  BY <1>1, ChunksAssumption DEF IInv, CommandInv, TypeOK
<1>4. p \in Packet
  BY <1>3 DEF Packet, Chunk
<1>5. toDevice' \in Seq({Partial} \cup Packet) /\ (toDevice = <<>> => toDevice' = Units(p))
  BY <1>4, SendType DEF SendChunk, IInv
<1>6. TypeOK'
  BY <1>1, <1>2, <1>3, <1>5, ChunksAssumption DEF IInv, TypeOK, deviceVars, kernelVars
<1>7. InStep'
  <2> SUFFICES ASSUME devPc # "dead" PROVE Unanswered'
    BY <1>1, <1>2 DEF InStep, deviceVars
  <2>1. Quiet /\ toHost = <<>> /\ devPc = "recv"
    BY <1>1 DEF IInv, InStep
  <2>2. Outstanding' = p
    BY <1>1, <1>2 DEF Outstanding
  <2>3. buf' \o toDevice' = Units(p)
    BY <1>2, <1>5, <2>1, ConcatEmptySeq, SendType DEF Quiet, Units
  <2> QED BY <1>2, <2>1, <2>2, <2>3 DEF Unanswered, deviceVars
<1>8. CommandInv' /\ DeadInv' /\ SizeInv'
  BY <1>1, <1>2 DEF IInv, CommandInv, DeadInv, SizeInv, deviceVars
<1>9. LoadInv'
  <2> SUFFICES ASSUME devPc # "dead" PROVE LoadInv'
    BY <1>2 DEF LoadInv, deviceVars
  <2>1. toHost = <<>> /\ filePos = transferred
    BY <1>1, <1>3 DEF IInv, InStep, LoadInv, TypeOK
  <2>2. Loaded' = Loaded /\ filePos' = transferred' + 1
    BY <1>1, <1>2, <2>1 DEF Loaded
  <2> QED BY <1>1, <1>2, <2>2 DEF IInv, LoadInv, deviceVars, kernelVars
<1>10. ValidInv' /\ OwnInv'
  BY <1>2 DEF IInv, ValidInv, OwnInv, OwnImage, deviceVars, kernelVars
<1> QED BY <1>6, <1>7, <1>8, <1>9, <1>10 DEF IInv

LEMMA CompileStep ==
  ASSUME IInv, CompileKernel
  PROVE  IInv'
<1>1. step = "compile" /\ ~awaiting /\ devPc = "recv" /\ Quiet /\ toHost = <<>>
  BY DEF CompileKernel, IInv, CommandInv, DeadInv, InStep
<1>2. UNCHANGED <<awaiting, isNew, ret, streamVars, deviceVars>> /\ transferred' = 0 /\ filePos' = 0
  BY DEF CompileKernel, Rewound
<1>3. command \in Command /\ command.op = "run" /\ command.kernel \in Kernels
  BY <1>1, CommandOp DEF IInv, CommandInv, TypeOK
<1>4. \/ step' = "load" /\ command' = command /\ hostImage' = command.kernel
      \/ step' = "load" /\ command' = command /\ hostImage' = hostImage
         /\ hostImage # NoKernel /\ "stale" \in BuildOutcomes
      \/ step' = "idle" /\ command' = NoCommand /\ hostImage' = hostImage
  BY DEF CompileKernel, End
<1>5. hostImage' \in Kernels \cup {NoKernel} /\ (step' = "load" => hostImage' \in Kernels)
  BY <1>3, <1>4 DEF IInv, TypeOK
<1>6. TypeOK'
  BY <1>2, <1>4, <1>5, ChunksAssumption DEF IInv, TypeOK, streamVars, deviceVars, kernelVars
<1>7. InStep'
  BY <1>1, <1>2 DEF InStep, Quiet, streamVars, deviceVars
<1>8. CommandInv' /\ DeadInv' /\ SizeInv'
  BY <1>1, <1>2, <1>3, <1>4, <1>5, ChunksAssumption, CommandOp
     DEF IInv, CommandInv, DeadInv, SizeInv, streamVars, deviceVars
<1>9. LoadInv'
  <2>1. Loaded' = 0
    BY <1>1, <1>2 DEF Loaded, streamVars
  <2> QED BY <1>1, <1>2, <2>1, ChunksAssumption DEF LoadInv
<1>10. ValidInv' /\ OwnInv'
  BY <1>1, <1>2, <1>4 DEF IInv, ValidInv, OwnInv, OwnImage, deviceVars, kernelVars
<1> QED BY <1>6, <1>7, <1>8, <1>9, <1>10 DEF IInv

(* What taking a reply does to the connection. *)
LEMMA Taken ==
  ASSUME IInv, TakeReply
  PROVE  /\ awaiting /\ ~awaiting' /\ toHost' \in Seq(Reply) /\ toHost # <<>>
         /\ step # "load" => devPc # "dead"
         /\ devPc # "dead" => Answered
         /\ InStep'
         /\ UNCHANGED <<toDevice, buf, deviceVars, hostImage, filePos>>
<1>1. awaiting /\ awaiting' = FALSE /\ toHost # <<>> /\ toHost' = Tail(toHost)
      /\ UNCHANGED <<toDevice, buf, deviceVars, hostImage, filePos>>
  BY DEF TakeReply
<1>2. devPc # "dead" => Answered
  BY <1>1, Replied
<1>3. devPc = "dead" => step = "load" /\ toHost = <<Nak>>
  BY <1>1, DeadReply
<1>4. toHost' \in Seq(Reply)
  BY <1>1 DEF IInv, TypeOK
<1>5. InStep'
  <2> SUFFICES ASSUME devPc # "dead" PROVE InStep'
    BY <1>1 DEF InStep, deviceVars
  <2>1. toHost' = <<>> /\ Quiet' /\ devPc' = "recv"
    BY <1>1, <1>2 DEF Answered, Quiet, deviceVars
  <2> QED BY <1>1, <2>1 DEF InStep
<1> QED BY <1>1, <1>2, <1>3, <1>4, <1>5

LEMMA EndReplyStep ==
  ASSUME IInv, EndReply \/ ReadReply
  PROVE  IInv'
<1>1. TakeReply /\ step \in {"write", "start", "read"} /\ step' = "idle" /\ command' = NoCommand
      /\ UNCHANGED <<isNew, transferred>>
  BY DEF EndReply, ReadReply, End
<1>2. /\ awaiting /\ ~awaiting' /\ toHost' \in Seq(Reply) /\ devPc # "dead" /\ Answered /\ InStep'
      /\ UNCHANGED <<toDevice, buf, deviceVars, hostImage, filePos>>
  BY <1>1, Taken
<1>3. awaiting' = FALSE
  BY <1>1 DEF TakeReply
<1>4. ret' \in Data
  <2>1. CASE step = "read"
    <3>1. toHost = <<Rsp(memory)>>
      BY <1>2, <2>1 DEF Answered, ProperReply
    <3>2. ret' = Head(toHost).data
      BY <2>1 DEF EndReply, ReadReply
    <3> QED BY <3>1, <3>2 DEF Rsp, IInv, TypeOK
  <2>2. CASE step # "read"
    BY <2>2 DEF EndReply, ReadReply, IInv, TypeOK
  <2> QED BY <2>1, <2>2
<1>5. TypeOK'
  BY <1>1, <1>2, <1>3, <1>4 DEF IInv, TypeOK, deviceVars, kernelVars
<1>6. CommandInv' /\ DeadInv' /\ SizeInv' /\ LoadInv'
  BY <1>1, <1>2 DEF CommandInv, DeadInv, SizeInv, LoadInv, deviceVars
<1>7. ValidInv' /\ OwnInv'
  BY <1>1, <1>2 DEF IInv, ValidInv, OwnInv, OwnImage, deviceVars, kernelVars
<1> QED BY <1>2, <1>5, <1>6, <1>7 DEF IInv

LEMMA SizeReplyStep ==
  ASSUME IInv, SizeReply
  PROVE  IInv'
<1>1. TakeReply /\ step = "size" /\ UNCHANGED <<command, isNew, transferred, ret>>
      /\ step' = IF isNew[command.kernel] THEN "compile" ELSE "start"
  BY DEF SizeReply, NeedsTransfer
<1>2. /\ awaiting /\ ~awaiting' /\ toHost' \in Seq(Reply) /\ toHost # <<>> /\ devPc # "dead"
      /\ InStep' /\ UNCHANGED <<toDevice, buf, deviceVars, hostImage, filePos>>
  BY <1>1, Taken
<1>3. awaiting' = FALSE
  BY <1>1 DEF TakeReply
<1>4. TypeOK'
  BY <1>1, <1>2, <1>3 DEF IInv, TypeOK, deviceVars, kernelVars
<1>5. CommandInv' /\ DeadInv' /\ SizeInv' /\ LoadInv'
  BY <1>1, <1>2 DEF IInv, CommandInv, DeadInv, SizeInv, LoadInv, deviceVars
<1>6. ValidInv' /\ OwnInv'
  BY <1>1, <1>2 DEF IInv, ValidInv, OwnInv, OwnImage, deviceVars, kernelVars
<1> QED BY <1>2, <1>4, <1>5, <1>6 DEF IInv

LEMMA LoadAckedStep ==
  ASSUME IInv, LoadAcked
  PROVE  IInv'
<1>1. TakeReply /\ step = "load" /\ Head(toHost) = Ack /\ UNCHANGED <<command, ret>>
      /\ transferred' = transferred + 1
  BY DEF LoadAcked
<1>2. devPc # "dead"
  <2>1. toHost # <<>> /\ Head(<<Nak>>) # Ack
    BY <1>1 DEF TakeReply, Ack, Nak
  <2> QED BY <1>1, <2>1, DeadReply
<1>3. /\ awaiting /\ ~awaiting' /\ toHost' \in Seq(Reply) /\ toHost # <<>> /\ Answered
      /\ InStep' /\ UNCHANGED <<toDevice, buf, deviceVars, hostImage, filePos>>
  BY <1>1, <1>2, Taken
<1>4. awaiting' = FALSE /\ toHost' = <<>>
  BY <1>1, <1>3 DEF TakeReply, Answered
<1>5. filePos = transferred + 1 /\ Loaded = filePos /\ Loaded' = filePos
      /\ transferred \in 0 .. NChunks - 1 /\ filePos \in 1 .. NChunks
  BY <1>1, <1>2, <1>3, <1>4, ChunksAssumption
     DEF IInv, TypeOK, LoadInv, CommandInv, Loaded
<1>6. \/ filePos = NChunks /\ step' = "start" /\ isNew' = [isNew EXCEPT ![command.kernel] = FALSE]
      \/ filePos < NChunks /\ step' = "load" /\ isNew' = isNew
  <2>1. transferred + 1 >= NChunks <=> filePos = NChunks
    BY <1>5, ChunksAssumption
  <2> QED BY <1>1, <1>5, <2>1, ChunksAssumption DEF LoadAcked, TransferComplete
<1>7. command \in Command /\ command.op = "run" /\ command.kernel \in Kernels
  BY <1>1, CommandOp DEF IInv, CommandInv, TypeOK
<1>8. TypeOK'
  <2>1. transferred' \in 0 .. NChunks
    BY <1>1, <1>5, ChunksAssumption
  <2>2. isNew' \in [Kernels -> BOOLEAN]
    BY <1>6 DEF IInv, TypeOK
  <2> QED BY <1>1, <1>3, <1>4, <1>6, <2>1, <2>2 DEF IInv, TypeOK, deviceVars, kernelVars
<1>9. CommandInv' /\ DeadInv' /\ SizeInv'
  BY <1>1, <1>2, <1>3, <1>4, <1>5, <1>6, <1>7
     DEF IInv, CommandInv, DeadInv, SizeInv, deviceVars
<1>10. Loaded = NChunks =>
         kernelValid /\ (kernelFile \in Images => kernelFile = Image(hostImage))
  BY <1>1, <1>2 DEF IInv, LoadInv
<1>11. LoadInv'
  <2>1. step' = "load" => Loaded' \in 1 .. NChunks - 1 /\ Loaded' = Loaded
    BY <1>5, <1>6, ChunksAssumption
  <2>2. step' = "load" => kernelfd = "open" /\ kernelFile = ChunksOf(hostImage, Loaded)
    BY <1>1, <1>2, <2>1 DEF IInv, LoadInv
  <2>3. filePos' = transferred'
    BY <1>1, <1>3, <1>5
  <2>4. step' = "load" => kernelfd' = "open" /\ kernelFile' = ChunksOf(hostImage', Loaded')
    BY <1>3, <2>1, <2>2 DEF deviceVars, kernelVars
  <2>5. step' = "load" => Loaded' # NChunks
    BY <2>1, ChunksAssumption
  <2>6. filePos' = transferred' + 0
    <3>1. filePos' = filePos /\ transferred' = filePos /\ filePos \in Nat
      BY <1>1, <1>3, <1>5, ChunksAssumption
    <3> QED BY <3>1
  <2> QED BY <1>4, <2>4, <2>5, <2>6 DEF LoadInv
<1>12. ValidInv' /\ OwnInv'
  <2>1. step' = "start" => ~isNew'[command.kernel]
    BY <1>6, <1>7 DEF IInv, TypeOK
  <2>2. ValidInv'
    BY <1>1, <1>3, <1>5, <1>6, <1>10, <2>1 DEF ValidInv, deviceVars, kernelVars
  <2>3. OwnInv'
    BY <1>1, <1>2, <1>3, <1>5, <1>6, <1>10 DEF IInv, OwnInv, OwnImage, deviceVars, kernelVars
  <2> QED BY <2>2, <2>3
<1> QED BY <1>3, <1>8, <1>9, <1>11, <1>12 DEF IInv

LEMMA LoadRefusedStep ==
  ASSUME IInv, LoadRefused
  PROVE  IInv'
<1>1. TakeReply /\ step = "load" /\ Head(toHost) = Nak
      /\ UNCHANGED <<command, step, isNew, transferred, ret>>
  BY DEF LoadRefused
<1>2. devPc = "dead" /\ toHost = <<Nak>>
  <2>1. ~Answered
    <3>1. Ack # Nak /\ Head(<<Ack>>) = Ack
      BY DEF Ack, Nak
    <3> QED BY <1>1, <3>1 DEF Answered, ProperReply
  <2> QED BY <1>1, <2>1, Taken, DeadReply
<1>3. /\ ~awaiting' /\ toHost' \in Seq(Reply)
      /\ InStep' /\ UNCHANGED <<toDevice, buf, deviceVars, hostImage, filePos>>
  BY <1>1, Taken
<1>4. awaiting' = FALSE /\ toHost' = <<>>
  BY <1>1, <1>2 DEF TakeReply
<1>5. TypeOK'
  BY <1>1, <1>3, <1>4 DEF IInv, TypeOK, deviceVars, kernelVars
<1>6. CommandInv' /\ DeadInv' /\ SizeInv' /\ LoadInv'
  BY <1>1, <1>2, <1>3, <1>4 DEF IInv, CommandInv, DeadInv, SizeInv, LoadInv, deviceVars
<1>7. ValidInv' /\ OwnInv'
  BY <1>1, <1>2, <1>3 DEF IInv, ValidInv, OwnInv, OwnImage, deviceVars, kernelVars
<1> QED BY <1>3, <1>5, <1>6, <1>7 DEF IInv

-----------------------------------------------------------------------------
(* The steps of the device. *)

LEMMA LaunchDoneStep ==
  ASSUME SendersReturn, IInv, LaunchDone, UNCHANGED hostVars
  PROVE  IInv'
<1>1. devPc = "launch" /\ devPc' = "recv" /\ toHost' = toHost \o <<Ack>>
      /\ UNCHANGED <<toDevice, buf, kernelVars, groupSize>>
  BY DEF LaunchDone, Answer
<1>2. awaiting /\ Launching
  BY <1>1 DEF IInv, InStep, Unanswered, Answered
<1>3. toHost' = <<Ack>> /\ step = "start"
  BY <1>1, <1>2 DEF Launching
<1>4. memory' \in Data
  BY DEF LaunchDone, Data, IInv, TypeOK
<1>5. TypeOK'
  <2>1. Ack \in Reply
    BY DEF Reply
  <2>2. toHost' \in Seq(Reply)
    BY <1>3, <2>1
  <2> QED BY <1>1, <1>4, <2>2 DEF IInv, TypeOK, kernelVars, hostVars
<1>6. InStep'
  BY <1>1, <1>2, <1>3 DEF InStep, Answered, Quiet, Launching, ProperReply, hostVars
<1>7. CommandInv' /\ DeadInv' /\ SizeInv' /\ LoadInv'
  BY <1>1, <1>3 DEF IInv, CommandInv, DeadInv, SizeInv, LoadInv, hostVars
<1>8. ValidInv' /\ OwnInv'
  BY <1>1 DEF IInv, ValidInv, OwnInv, OwnImage, kernelVars, hostVars
<1> QED BY <1>5, <1>6, <1>7, <1>8 DEF IInv

LEMMA LaunchRefusedStep ==
  ASSUME IInv, LaunchRefused, UNCHANGED hostVars
  PROVE  IInv'
<1>1. devPc = "launch" /\ devPc' = "dead"
      /\ UNCHANGED <<streamVars, kernelVars, groupSize, memory>>
  BY DEF LaunchRefused
<1>2. awaiting /\ Launching
  BY <1>1 DEF IInv, InStep, Unanswered, Answered
<1>3. TypeOK'
  BY <1>1 DEF IInv, TypeOK, streamVars, kernelVars, hostVars
<1>4. InStep' /\ LoadInv' /\ ValidInv' /\ OwnInv'
  BY <1>1 DEF IInv, InStep, LoadInv, ValidInv, OwnInv, OwnImage, hostVars
<1>5. CommandInv' /\ DeadInv' /\ SizeInv'
  BY <1>1, <1>2 DEF IInv, CommandInv, DeadInv, SizeInv, Launching, streamVars, hostVars
<1> QED BY <1>3, <1>4, <1>5 DEF IInv

(* What is known when the device processes a packet. *)
LEMMA Processing ==
  ASSUME IInv, NEW n \in 1 .. Len(toDevice), Recv(n)
  PROVE  /\ awaiting /\ Unanswered
         /\ toDevice' \in Seq(Unit) /\ buf' \in Seq(Unit)
         /\ \/ buf' \o toDevice' = Units(Outstanding) /\ UNCHANGED <<toHost, deviceVars>>
            \/ processPacket(Outstanding) /\ toDevice' = <<>> /\ buf' = <<>>
<1>1. devPc = "recv" /\ toDevice' = Left(n)
      /\ \/ Len(Delivered(n)) < 2 /\ buf' = Delivered(n) /\ UNCHANGED <<toHost, deviceVars>>
         \/ /\ Len(Delivered(n)) >= 2 /\ processPacket(Delivered(n)[2])
            /\ buf' = SubSeq(Delivered(n), 3, Len(Delivered(n)))
  BY DEF Recv, Delivered, Left
<1>2. awaiting /\ Unanswered
  BY <1>1, Arriving
<1>3. buf \in Seq(Unit) /\ toDevice \in Seq(Unit) /\ buf \o toDevice = Units(Outstanding)
  BY <1>2 DEF IInv, TypeOK, Unanswered, Unit
<1>4. /\ Delivered(n) \in Seq(Unit) /\ Left(n) \in Seq(Unit)
      /\ Delivered(n) \o Left(n) = Units(Outstanding)
      /\ Len(Delivered(n)) >= 2 =>
           /\ Delivered(n)[2] = Outstanding
           /\ Left(n) = <<>>
           /\ SubSeq(Delivered(n), 3, Len(Delivered(n))) = <<>>
  BY <1>3, Delivery
<1>5. buf' \in Seq(Unit)
  BY <1>1, <1>4, EmptySeq
<1>6. \/ buf' \o toDevice' = Units(Outstanding) /\ UNCHANGED <<toHost, deviceVars>>
      \/ processPacket(Outstanding) /\ toDevice' = <<>> /\ buf' = <<>>
  BY <1>1, <1>4
<1> QED BY <1>1, <1>2, <1>4, <1>5, <1>6

LEMMA PartialStep ==
  ASSUME IInv, UNCHANGED hostVars, awaiting, Unanswered,
         toDevice' \in Seq(Unit), buf' \in Seq(Unit),
         buf' \o toDevice' = Units(Outstanding), UNCHANGED <<toHost, deviceVars>>
  PROVE  IInv'
<1>1. TypeOK'
  BY DEF IInv, TypeOK, Unit, deviceVars, kernelVars, hostVars
<1>2. Outstanding' = Outstanding
  BY DEF Outstanding, Request, hostVars
<1>3. InStep'
  BY <1>2 DEF InStep, Unanswered, hostVars, deviceVars
<1>4. CommandInv' /\ DeadInv' /\ SizeInv'
  BY DEF IInv, CommandInv, DeadInv, SizeInv, hostVars, deviceVars
<1>5. LoadInv' /\ ValidInv' /\ OwnInv'
  BY DEF IInv, LoadInv, Loaded, ValidInv, OwnInv, OwnImage, hostVars, deviceVars, kernelVars
<1> QED BY <1>1, <1>3, <1>4, <1>5 DEF IInv

(* Which handler a request reaches, and what the answer finds. *)
LEMMA Reaches ==
  ASSUME IInv, awaiting
  PROVE  /\ step \in {"write", "read", "size", "start", "load"}
         /\ command \in Command
         /\ step = "write" => Outstanding = [cmdId |-> "MEM_WRITE_CMD", value |-> command.value]
         /\ step = "read" => Outstanding = [cmdId |-> "MEM_READ_CMD"]
         /\ step = "size" => Outstanding = [cmdId |-> "GLOBAL_WORK_SIZE", size |-> command.size]
         /\ step = "start" => Outstanding = [cmdId |-> "START_KERNEL"]
         /\ step = "load" => Outstanding = [cmdId |-> "LOAD_KERNEL_IMAGE", offset |-> transferred,
                                            chunk |-> <<hostImage, filePos>>]
<1>1. step \in {"write", "read", "size", "start", "load"} /\ command \in Command
  BY DEF IInv, TypeOK, CommandInv
<1> QED BY <1>1 DEF Outstanding, Request

(* An answer that is the proper one keeps the connection in step. *)
LEMMA AnswerKeeps ==
  ASSUME IInv, awaiting, Unanswered, UNCHANGED hostVars, toDevice' = <<>>, buf' = <<>>,
         toHost' = <<ProperReply'>>, devPc' = devPc, memory' \in Data
  PROVE  /\ toHost' \in Seq(Reply)
         /\ InStep' /\ CommandInv' /\ DeadInv'
<1>1. ProperReply' \in Reply
  BY DEF ProperReply, Reply
<1>2. InStep'
  BY DEF InStep, Answered, Quiet, Unanswered, hostVars
<1>3. CommandInv' /\ DeadInv'
  BY DEF IInv, CommandInv, DeadInv, Unanswered, hostVars
<1> QED BY <1>1, <1>2, <1>3

LEMMA HandlerStep ==
  ASSUME SendersReturn \/ step = "read", IInv, awaiting, Unanswered, UNCHANGED hostVars, toDevice' = <<>>, buf' = <<>>,
         \/ handleMemoryWrite(Outstanding) \/ handleMemoryRead(Outstanding)
         \/ handleGlobalWorkSize(Outstanding)
  PROVE  IInv'
<1>1. devPc = "recv" /\ toHost = <<>>
  BY DEF Unanswered
<1>2. step \in {"write", "read", "size"} /\ step' = step
  BY Reaches DEF handleMemoryWrite, handleMemoryRead, handleGlobalWorkSize, hostVars
<1>3. command \in Command
  BY Reaches
<1>4. /\ UNCHANGED <<kernelVars, devPc>> /\ memory' \in Data /\ groupSize' \in Sizes
      /\ toHost' = <<ProperReply'>>
      /\ step = "size" => groupSize' = command.size
  <2>1. CASE step = "write"
    <3>1. handleMemoryWrite(Outstanding) /\ command.value \in Values
      BY <1>3, <2>1, Reaches, CommandOp
         DEF handleMemoryWrite, handleMemoryRead, handleGlobalWorkSize, IInv, CommandInv
    <3> QED BY <1>1, <1>2, <2>1, <3>1, Reaches
            DEF handleMemoryWrite, Answer, ProperReply, Data, deviceVars, IInv, TypeOK
  <2>2. CASE step = "read"
    <3>1. handleMemoryRead(Outstanding)
      BY <2>2, Reaches DEF handleMemoryWrite, handleMemoryRead, handleGlobalWorkSize
    <3> QED BY <1>1, <1>2, <2>2, <3>1 DEF handleMemoryRead, ProperReply, Rsp, deviceVars, IInv, TypeOK
  <2>3. CASE step = "size"
    <3>1. handleGlobalWorkSize(Outstanding) /\ command.size \in Sizes
      BY <1>3, <2>3, Reaches, CommandOp
         DEF handleMemoryWrite, handleMemoryRead, handleGlobalWorkSize, IInv, CommandInv
    <3> QED BY <1>1, <1>2, <2>3, <3>1, Reaches DEF handleGlobalWorkSize, Answer, ProperReply, deviceVars, IInv, TypeOK
  <2> QED BY <1>2, <2>1, <2>2, <2>3
<1>5. toHost' \in Seq(Reply) /\ InStep' /\ CommandInv' /\ DeadInv'
  BY <1>4, AnswerKeeps
<1>6. TypeOK'
  BY <1>4, <1>5, EmptySeq DEF IInv, TypeOK, kernelVars, hostVars
<1>7. SizeInv'
  BY <1>2, <1>4 DEF SizeInv, hostVars
<1>8. LoadInv' /\ ValidInv' /\ OwnInv'
  BY <1>2, <1>4 DEF IInv, LoadInv, ValidInv, OwnInv, OwnImage, kernelVars, hostVars
<1> QED BY <1>5, <1>6, <1>7, <1>8 DEF IInv

LEMMA StartStep ==
  ASSUME IInv, awaiting, Unanswered, UNCHANGED hostVars, toDevice' = <<>>, buf' = <<>>,
         handleStartProcessing(Outstanding)
  PROVE  IInv'
<1>1. step = "start" /\ devPc = "recv" /\ toHost = <<>>
  BY Reaches DEF handleStartProcessing, Unanswered
<1>2. command \in Command /\ command.op = "run" /\ command.kernel \in Kernels
  BY <1>1, Reaches, CommandOp DEF IInv, CommandInv
<1>3. kernelValid
  BY <1>1, <1>2 DEF IInv, ValidInv
<1>4. devPc' = "launch" /\ UNCHANGED <<toHost, kernelVars, groupSize, memory>>
  BY <1>3 DEF handleStartProcessing
<1>5. TypeOK'
  BY <1>4, EmptySeq DEF IInv, TypeOK, kernelVars, hostVars
<1>6. InStep'
  BY <1>1, <1>4 DEF InStep, Launching, Quiet, hostVars
<1>7. CommandInv' /\ DeadInv' /\ SizeInv'
  BY <1>1, <1>4 DEF IInv, CommandInv, DeadInv, SizeInv, hostVars
<1>8. LoadInv' /\ ValidInv' /\ OwnInv'
  BY <1>1, <1>4 DEF IInv, LoadInv, ValidInv, OwnInv, OwnImage, kernelVars, hostVars
<1> QED BY <1>5, <1>6, <1>7, <1>8 DEF IInv

(* What the file holds when the next chunk arrives. *)
LEMMA Precedes ==
  ASSUME IInv, awaiting, Unanswered, step = "load"
  PROVE  /\ Outstanding.offset = transferred /\ Outstanding.chunk = <<hostImage, filePos>>
         /\ devPc = "recv" /\ toHost = <<>>
         /\ hostImage \in Kernels /\ transferred \in 0 .. NChunks - 1
         /\ filePos = transferred + 1 /\ Loaded = transferred
         /\ FileAt(Outstanding) = ChunksOf(hostImage, transferred)
<1>1. /\ Outstanding.offset = transferred /\ Outstanding.chunk = <<hostImage, filePos>>
      /\ devPc = "recv" /\ toHost = <<>>
  BY Reaches DEF Unanswered
<1>2. /\ hostImage \in Kernels /\ transferred \in 0 .. NChunks - 1
      /\ filePos = transferred + 1 /\ Loaded = transferred
  BY <1>1, ChunksAssumption DEF IInv, CommandInv, LoadInv, TypeOK, Loaded
<1>3. FileAt(Outstanding) = ChunksOf(hostImage, transferred)
  <2>1. CASE transferred = 0
    BY <1>1, <2>1, Chunks DEF FileAt
  <2>2. CASE transferred # 0
    <3>1. Loaded \in 1 .. NChunks - 1
      BY <1>2, <2>2, ChunksAssumption
    <3>2. kernelFile = ChunksOf(hostImage, transferred)
      BY <1>1, <1>2, <3>1 DEF IInv, LoadInv
    <3> QED BY <1>1, <2>2, <3>2 DEF FileAt
  <2> QED BY <2>1, <2>2
<1> QED BY <1>1, <1>2, <1>3

LEMMA LoadChunkStep ==
  ASSUME SendersReturn, IInv, awaiting, Unanswered, UNCHANGED hostVars, toDevice' = <<>>, buf' = <<>>,
         step = "load", LoadChunk(Outstanding), UNCHANGED <<groupSize, memory>>
  PROVE  /\ IInv'
         /\ "close" \notin DiskFaults /\ kernelValid' => kernelFile' \in Images
<1>1. /\ Outstanding.offset = transferred /\ Outstanding.chunk = <<hostImage, filePos>>
      /\ devPc = "recv" /\ toHost = <<>>
  BY Precedes
<1>2. /\ hostImage \in Kernels /\ transferred \in 0 .. NChunks - 1
      /\ filePos = transferred + 1 /\ Loaded = transferred
  BY Precedes
<1>3. FileAt(Outstanding) = ChunksOf(hostImage, transferred)
  BY Precedes
<1> DEFINE written == Append(FileAt(Outstanding), Outstanding.chunk)
<1>4. written = ChunksOf(hostImage, filePos) /\ filePos \in 1 .. NChunks
  <2>1. written = Append(ChunksOf(hostImage, transferred), <<hostImage, transferred + 1>>)
    BY <1>1, <1>2, <1>3
  <2>2. transferred \in Nat /\ filePos \in 1 .. NChunks
    BY <1>2, ChunksAssumption
  <2>3. Append(ChunksOf(hostImage, transferred), <<hostImage, transferred + 1>>)
          = ChunksOf(hostImage, transferred + 1)
    BY <2>2, Chunks
  <2> HIDE DEF written
  <2> QED BY <1>2, <2>1, <2>2, <2>3
<1>5. IsLastChunk(Outstanding) <=> filePos = NChunks
  BY <1>1, <1>2 DEF IsLastChunk
<1>6. /\ kernelValid' = IsLastChunk(Outstanding)
      /\ kernelfd' = IF IsLastChunk(Outstanding) THEN "null" ELSE "open"
      /\ Answer(<<Ack>>, devPc)
      /\ \/ kernelFile' = written
         \/ /\ "close" \in DiskFaults
            /\ IsLastChunk(Outstanding)
            /\ \E n \in 0 .. Len(written) - 1 : kernelFile' = SubSeq(written, 1, n)
  <2> USE DEF LoadChunk
  <2>1. kernelValid' = IsLastChunk(Outstanding)
    BY Zenon
  <2>2. kernelfd' = IF IsLastChunk(Outstanding) THEN "null" ELSE "open"
    BY Zenon
  <2>3. Answer(<<Ack>>, devPc)
    BY Zenon
  <2>4. \/ kernelFile' = written
        \/ /\ "close" \in DiskFaults
           /\ IsLastChunk(Outstanding)
           /\ \E n \in 0 .. Len(written) - 1 : kernelFile' = SubSeq(written, 1, n)
    BY Zenon
  <2> QED BY <2>1, <2>2, <2>3, <2>4, Zenon
<1> HIDE DEF written
<1>7. /\ kernelValid' \in BOOLEAN /\ (filePos = NChunks => kernelValid')
      /\ kernelfd' \in {"open", "null"} /\ (filePos # NChunks => kernelfd' = "open")
  <2>1. CASE filePos = NChunks
    BY <1>5, <1>6, <2>1 DEF IsLastChunk
  <2>2. CASE filePos # NChunks
    BY <1>5, <1>6, <2>2 DEF IsLastChunk
  <2> QED BY <2>1, <2>2
<1>8. \/ kernelFile' = ChunksOf(hostImage, filePos)
      \/ /\ filePos = NChunks
         /\ \E n \in 0 .. NChunks - 1 : kernelFile' = ChunksOf(hostImage, n)
  <2>1. CASE kernelFile' = written
    BY <1>4, <2>1
  <2>2. CASE IsLastChunk(Outstanding)
             /\ \E n \in 0 .. Len(written) - 1 : kernelFile' = SubSeq(written, 1, n)
    <3>1. hostImage \in Kernels /\ filePos = NChunks /\ written = Image(hostImage)
      BY <1>2, <1>4, <1>5, <2>2 DEF Image
    <3>2. Len(written) = NChunks
      BY <3>1, Chunks, ChunksAssumption DEF Image
    <3>3. PICK n \in 0 .. NChunks - 1 : kernelFile' = SubSeq(written, 1, n)
      BY <2>2, <3>2
    <3>4. kernelFile' = ChunksOf(hostImage, n)
      BY <3>1, <3>3, Tear
    <3> QED BY <3>1, <3>3, <3>4
  <2> QED BY <1>6, <2>1, <2>2
<1>9. kernelFile' \in Seq(Chunk) /\ Len(kernelFile') <= NChunks
  <2>1. PICK n \in 0 .. NChunks : kernelFile' = ChunksOf(hostImage, n)
    BY <1>4, <1>8, ChunksAssumption
  <2>2. ChunksOf(hostImage, n) \in Seq(Chunk) /\ Len(ChunksOf(hostImage, n)) = n
    BY <1>2, Chunks
  <2> QED BY <2>1, <2>2, ChunksAssumption
<1>10. toHost' = <<Ack>> /\ devPc' = devPc /\ toHost' \in Seq(Reply) /\ InStep' /\ CommandInv' /\ DeadInv'
  <2>1. ProperReply' = Ack /\ memory' \in Data
    BY DEF ProperReply, hostVars, IInv, TypeOK
  <2>2. toHost' = <<Ack>> /\ devPc' = devPc
    BY <1>1, <1>6 DEF Answer
  <2> QED BY <2>1, <2>2, AnswerKeeps
<1>11. TypeOK'
  BY <1>6, <1>7, <1>9, <1>10, EmptySeq DEF IInv, TypeOK, hostVars
<1>12. SizeInv' /\ ValidInv' /\ OwnInv'
  BY <1>1, <1>6, <1>10 DEF IInv, SizeInv, ValidInv, OwnInv, OwnImage, hostVars
<1>13. LoadInv'
  <2>1. Loaded' = filePos /\ filePos' = transferred' + 1 /\ hostImage' = hostImage /\ awaiting'
    BY <1>2, <1>10 DEF Loaded, hostVars
  <2>2. filePos # NChunks => kernelfd' = "open" /\ kernelFile' = ChunksOf(hostImage', Loaded')
    BY <1>7, <1>8, <2>1
  <2>3. filePos = NChunks => kernelValid' /\ (kernelFile' \in Images => kernelFile' = Image(hostImage'))
    BY <1>2, <1>7, <1>8, <2>1, Torn DEF Image
  <2>4. Loaded' \in 1 .. NChunks - 1 => filePos # NChunks
    BY <2>1, ChunksAssumption
  <2>5. Images' = Images
    OBVIOUS
  <2> QED BY <2>1, <2>2, <2>3, <2>4 DEF LoadInv
<1>14. "close" \notin DiskFaults /\ kernelValid' => kernelFile' \in Images
  <2> SUFFICES ASSUME "close" \notin DiskFaults, kernelValid' PROVE kernelFile' \in Images
    OBVIOUS
  <2>1. IsLastChunk(Outstanding) /\ kernelFile' = written
    BY <1>6
  <2> QED BY <1>2, <1>4, <1>5, <2>1 DEF Image, Images
<1> QED BY <1>10, <1>11, <1>12, <1>13, <1>14 DEF IInv

(* A failed write ends the device, or breaks the step of the two. *)
LEMMA LoadFailsStep ==
  ASSUME SendersReturn, IInv, awaiting, Unanswered, UNCHANGED hostVars, toDevice' = <<>>, buf' = <<>>,
         step = "load", LoadFails(Outstanding), UNCHANGED <<groupSize, memory>>
  PROVE  IInv' \/ Broken'
<1>1. /\ "write" \in DiskFaults /\ kernelValid' = FALSE /\ kernelfd' = "null"
      /\ kernelFile' = FileAt(Outstanding)
      /\ IF IsLastChunk(Outstanding) THEN Answer(<<Nak>>, "dead") ELSE Answer(<<Nak, Ack>>, devPc)
  BY DEF LoadFails
<1>2. /\ Outstanding.offset = transferred /\ devPc = "recv" /\ toHost = <<>>
      /\ hostImage \in Kernels /\ transferred \in 0 .. NChunks - 1
      /\ filePos = transferred + 1 /\ FileAt(Outstanding) = ChunksOf(hostImage, transferred)
  BY Precedes
<1>3. /\ kernelFile' \in Seq(Chunk) /\ Len(kernelFile') = transferred
      /\ transferred <= NChunks /\ transferred \in Nat
  BY <1>1, <1>2, Chunks, ChunksAssumption
<1>4. /\ toHost' = IF IsLastChunk(Outstanding) THEN <<Nak>> ELSE <<Nak, Ack>>
      /\ devPc' = IF IsLastChunk(Outstanding) THEN "dead" ELSE "recv"
  BY <1>1, <1>2 DEF Answer
<1>5. toHost' \in Seq(Reply)
  <2>1. Nak \in Reply /\ Ack \in Reply
    BY DEF Reply
  <2>2. <<Nak>> \in Seq(Reply) /\ <<Nak, Ack>> \in Seq(Reply)
    BY <2>1
  <2> QED BY <1>4, <2>2
<1>6. TypeOK'
  BY <1>1, <1>3, <1>4, <1>5, EmptySeq DEF IInv, TypeOK, hostVars
<1>7. CommandInv'
  BY DEF IInv, CommandInv, hostVars
<1>8. CASE IsLastChunk(Outstanding)
  <2>1. devPc' = "dead" /\ toHost' = <<Nak>>
    BY <1>4, <1>8
  <2>2. InStep' /\ LoadInv' /\ ValidInv' /\ OwnInv'
    BY <2>1 DEF IInv, InStep, LoadInv, ValidInv, OwnInv, OwnImage, hostVars
  <2>3. DeadInv' /\ SizeInv'
    BY <2>1 DEF IInv, DeadInv, SizeInv, hostVars
  <2> QED BY <1>6, <1>7, <2>2, <2>3 DEF IInv
<1>9. CASE ~IsLastChunk(Outstanding)
  <2>1. filePos < NChunks
    BY <1>2, <1>9, ChunksAssumption DEF IsLastChunk
  <2>2. devPc' = "recv" /\ toHost' = <<Nak, Ack>>
    BY <1>4, <1>9
  <2>3. Behind'
    BY <1>2, <2>1, <2>2 DEF Behind, Quiet, hostVars
  <2>4. <<>> \in Seq(LateUnits) /\ Len(<<>>) = 0
    BY EmptySeq
  <2>5. 2 * Len(kernelFile') + Len(buf') + Len(toDevice') <= 2 * filePos'
    BY <1>2, <1>3, <2>4 DEF hostVars
  <2>6. step' = "load" /\ SendersReturn /\ ~kernelValid' /\ buf' = <<>> /\ toDevice' = <<>>
    BY <1>1 DEF hostVars
  <2> QED BY <1>1, <1>6, <1>7, <2>2, <2>3, <2>4, <2>5, <2>6 DEF Broken, LateUnits
<1> QED BY <1>8, <1>9

LEMMA LoadStep ==
  ASSUME SendersReturn,
         IInv, awaiting, Unanswered, UNCHANGED hostVars, toDevice' = <<>>, buf' = <<>>,
         handleKernelLoad(Outstanding)
  PROVE  IInv' \/ Broken'
<1>1. step = "load" /\ toHost = <<>> /\ UNCHANGED <<groupSize, memory>>
  BY Reaches DEF handleKernelLoad, Unanswered
<1>2. CASE LoadChunk(Outstanding)
  BY <1>1, <1>2, LoadChunkStep
<1>3. CASE LoadFails(Outstanding)
  BY <1>1, <1>3, LoadFailsStep
<1>4. CASE LoadClosesGarbage(Outstanding) \/ LoadWithoutFile(Outstanding)
  <2>1. devPc' = "dead" /\ UNCHANGED kernelVars /\ toHost' \in {<<>>, <<Nak>>}
    BY <1>1, <1>4 DEF LoadClosesGarbage, LoadWithoutFile, Answer
  <2>2. toHost' \in Seq(Reply)
    <3>1. Nak \in Reply
      BY DEF Reply
    <3>2. <<Nak>> \in Seq(Reply) /\ <<>> \in Seq(Reply)
      BY <3>1
    <3> QED BY <2>1, <3>2
  <2>3. TypeOK'
    BY <1>1, <2>1, <2>2, EmptySeq DEF IInv, TypeOK, kernelVars, hostVars
  <2>4. InStep' /\ LoadInv' /\ ValidInv' /\ OwnInv'
    BY <1>1, <2>1 DEF IInv, InStep, LoadInv, ValidInv, OwnInv, OwnImage, hostVars
  <2>5. CommandInv' /\ DeadInv' /\ SizeInv'
    BY <1>1, <2>1 DEF IInv, CommandInv, DeadInv, SizeInv, hostVars
  <2> QED BY <2>3, <2>4, <2>5 DEF IInv
<1> QED BY <1>2, <1>3, <1>4 DEF handleKernelLoad

LEMMA RecvStep ==
  ASSUME SendersReturn, IInv, NEW n \in 1 .. Len(toDevice), Recv(n), UNCHANGED hostVars
  PROVE  IInv' \/ Broken'
<1>1. /\ awaiting /\ Unanswered /\ toDevice' \in Seq(Unit) /\ buf' \in Seq(Unit)
      /\ \/ buf' \o toDevice' = Units(Outstanding) /\ UNCHANGED <<toHost, deviceVars>>
         \/ processPacket(Outstanding) /\ toDevice' = <<>> /\ buf' = <<>>
  BY Processing
<1>2. CASE buf' \o toDevice' = Units(Outstanding) /\ UNCHANGED <<toHost, deviceVars>>
  BY <1>1, <1>2, PartialStep
<1>3. CASE processPacket(Outstanding) /\ toDevice' = <<>> /\ buf' = <<>>
  BY <1>1, <1>3, HandlerStep, StartStep, LoadStep DEF processPacket
<1> QED BY <1>1, <1>2, <1>3

LEMMA HostInv ==
  ASSUME IInv, (\E c \in Command : Begin(c)) \/ HostStep
  PROVE  IInv'
BY BeginStep, SendRequestStep, SendChunkStep, CompileStep, EndReplyStep, SizeReplyStep,
   LoadAckedStep, LoadRefusedStep DEF HostStep

LEMMA Stutter ==
  ASSUME UNCHANGED vars
  PROVE  /\ IInv => IInv'
         /\ Early => Early'
         /\ Broken => Broken'
         /\ Lost => Lost'
<1>1. UNCHANGED <<streamVars, deviceVars, hostVars>>
  BY DEF vars
<1>2. ASSUME IInv PROVE IInv'
  <2>1. TypeOK' /\ InStep'
    BY <1>1, <1>2 DEF IInv, TypeOK, InStep, Unanswered, Launching, Answered, Quiet, Outstanding,
                Request, ProperReply, streamVars, deviceVars, kernelVars, hostVars
  <2>2. CommandInv' /\ DeadInv' /\ SizeInv'
    BY <1>1, <1>2 DEF IInv, CommandInv, DeadInv, SizeInv, streamVars, deviceVars, kernelVars, hostVars
  <2>3. LoadInv' /\ ValidInv' /\ OwnInv'
    BY <1>1, <1>2 DEF IInv, LoadInv, Loaded, ValidInv, OwnInv, OwnImage,
                streamVars, deviceVars, kernelVars, hostVars
  <2> QED BY <2>1, <2>2, <2>3 DEF IInv
<1>3. Early => Early'
  BY <1>1 DEF Early, streamVars, deviceVars, hostVars
<1>4. (TypeOK => TypeOK') /\ (CommandInv => CommandInv')
  BY <1>1 DEF TypeOK, CommandInv, streamVars, deviceVars, kernelVars, hostVars
<1>5. Broken => Broken'
  BY <1>1, <1>4 DEF Broken, LateUnits, Behind, Quiet, streamVars, deviceVars, kernelVars, hostVars
<1>6. Lost => Lost'
  BY <1>1, <1>4 DEF Lost, streamVars, deviceVars, hostVars
<1> QED BY <1>2, <1>3, <1>5, <1>6

(* Where sendAck returns, the exchange stays in step or breaks. *)
LEMMA InStepStep ==
  ASSUME SendersReturn, IInv, [Next]_vars
  PROVE  IInv' \/ Broken'
<1>1. CASE (\E c \in Command : Begin(c)) \/ HostStep
  BY <1>1, HostInv
<1>2. CASE ControlLinkStep
  <2>1. UNCHANGED hostVars
    BY <1>2 DEF ControlLinkStep
  <2>2. ASSUME NEW n \in 1 .. Len(toDevice), Recv(n) PROVE IInv' \/ Broken'
    BY <2>1, <2>2, RecvStep
  <2>3. CASE LaunchDone
    BY <2>1, <2>3, LaunchDoneStep
  <2>4. CASE LaunchRefused
    BY <2>1, <2>4, LaunchRefusedStep
  <2> QED BY <1>2, <2>2, <2>3, <2>4 DEF ControlLinkStep, DeviceStep
<1>3. CASE UNCHANGED vars
  BY <1>3, Stutter
<1> QED BY <1>1, <1>2, <1>3 DEF Next

-----------------------------------------------------------------------------
(* The steps after a failed write. *)

LEMMA RestOf ==
  ASSUME NEW S, NEW s \in Seq(S), Len(s) >= 2
  PROVE  SubSeq(s, 3, Len(s)) \in Seq(S) /\ Len(SubSeq(s, 3, Len(s))) = Len(s) - 2
<1> DEFINE t == SubSeq(s, 3, Len(s))
<1>1. Len(s) \in Nat /\ \A i \in 3 .. Len(s) : s[i] \in S
  BY LenProperties, ElementOfSeq
<1>2. t \in Seq(S) /\ Len(t) = IF 3 <= Len(s) THEN Len(s) - 3 + 1 ELSE 0
  BY <1>1, SubSeqProperties
<1> HIDE DEF t
<1>3. \A l \in Nat : l >= 2 => (IF 3 <= l THEN l - 3 + 1 ELSE 0) = l - 2
  OBVIOUS
<1>4. Len(t) = Len(s) - 2
  BY <1>1, <1>2, <1>3, Zenon
<1> QED BY <1>2, <1>4 DEF t

(* However recv cuts what is on the way, there is nothing but late chunks. *)
LEMMA LateDelivery ==
  ASSUME Broken, NEW n \in 1 .. Len(toDevice)
  PROVE  /\ Delivered(n) \in Seq(LateUnits) /\ Left(n) \in Seq(LateUnits)
         /\ Len(Delivered(n)) \in Nat /\ Len(Left(n)) \in Nat
         /\ Len(Delivered(n)) + Len(Left(n)) = Len(buf) + Len(toDevice)
         /\ Len(Delivered(n)) >= 2 =>
              /\ Delivered(n)[2] \in LateUnits
              /\ SubSeq(Delivered(n), 3, Len(Delivered(n))) \in Seq(LateUnits)
              /\ Len(SubSeq(Delivered(n), 3, Len(Delivered(n)))) = Len(Delivered(n)) - 2
<1>1. buf \in Seq(LateUnits) /\ toDevice \in Seq(LateUnits)
  BY DEF Broken
<1>2. Len(toDevice) \in Nat /\ \A i \in 1 .. Len(toDevice) : toDevice[i] \in LateUnits
  BY <1>1, LenProperties, ElementOfSeq
<1>3. SubSeq(toDevice, 1, n) \in Seq(LateUnits) /\ Len(SubSeq(toDevice, 1, n)) = n
  BY <1>2, SubSeqProperties
<1>4. Left(n) \in Seq(LateUnits) /\ Len(Left(n)) = Len(toDevice) - n
  BY <1>2, SubSeqProperties DEF Left
<1>5. Delivered(n) \in Seq(LateUnits) /\ Len(Delivered(n)) = Len(buf) + n
  BY <1>1, <1>3, ConcatProperties DEF Delivered
<1>6. Len(Delivered(n)) \in Nat /\ Len(buf) \in Nat
      /\ \A i \in 1 .. Len(Delivered(n)) : Delivered(n)[i] \in LateUnits
  BY <1>1, <1>5, LenProperties, ElementOfSeq
<1> HIDE DEF Delivered, Left
<1>7. ASSUME Len(Delivered(n)) >= 2
      PROVE  /\ SubSeq(Delivered(n), 3, Len(Delivered(n))) \in Seq(LateUnits)
             /\ Len(SubSeq(Delivered(n), 3, Len(Delivered(n)))) = Len(Delivered(n)) - 2
  BY <1>5, <1>7, RestOf
<1> QED BY <1>2, <1>4, <1>5, <1>6, <1>7

(* What a late chunk does to the device. *)
LEMMA LateChunk ==
  ASSUME SendersReturn, TypeOK, devPc = "recv", ~kernelValid,
         NEW p \in LateUnits, processPacket(p)
  PROVE  /\ kernelFile' \in Seq(Chunk) /\ Len(kernelFile') <= Len(kernelFile) + 1
         /\ kernelValid' = FALSE /\ kernelfd' \in {"open", "null", "wild"}
         /\ toHost' \in Seq(Reply) /\ devPc' \in {"recv", "dead"}
         /\ UNCHANGED <<groupSize, memory>>
<1>1. /\ p.cmdId = "LOAD_KERNEL_IMAGE" /\ p.offset \in 0 .. NChunks - 2 /\ p.chunk \in Chunk
      /\ handleKernelLoad(p)
  <2>1. p # Partial
    BY DEF processPacket, handleMemoryWrite, handleMemoryRead, handleGlobalWorkSize,
           handleStartProcessing, handleKernelLoad, Partial
  <2>2. p \in [cmdId : {"LOAD_KERNEL_IMAGE"}, offset : 0 .. NChunks - 2, chunk : Chunk]
    BY <2>1 DEF LateUnits
  <2>3. p.cmdId = "LOAD_KERNEL_IMAGE" /\ p.offset \in 0 .. NChunks - 2 /\ p.chunk \in Chunk
    BY <2>2
  <2> QED BY <2>3 DEF processPacket, handleMemoryWrite, handleMemoryRead, handleGlobalWorkSize,
                      handleStartProcessing
<1>2. IsLastChunk(p) = FALSE
  BY <1>1, ChunksAssumption DEF IsLastChunk
<1>3. /\ FileAt(p) \in Seq(Chunk) /\ Len(FileAt(p)) <= Len(kernelFile) /\ Len(FileAt(p)) \in Nat
      /\ Len(kernelFile) \in Nat
  BY EmptySeq, LenProperties DEF FileAt, TypeOK
<1>4. /\ Append(FileAt(p), p.chunk) \in Seq(Chunk)
      /\ Len(Append(FileAt(p), p.chunk)) = Len(FileAt(p)) + 1
  BY <1>1, <1>3, AppendProperties
<1>5. /\ toHost \o <<Ack>> \in Seq(Reply) /\ toHost \o <<Nak, Ack>> \in Seq(Reply)
      /\ toHost \o <<Nak>> \in Seq(Reply)
  <2>1. Ack \in Reply /\ Nak \in Reply
    BY DEF Reply
  <2>2. <<Ack>> \in Seq(Reply) /\ <<Nak, Ack>> \in Seq(Reply) /\ <<Nak>> \in Seq(Reply)
    BY <2>1
  <2> QED BY <2>2, ConcatProperties DEF TypeOK
<1>6. UNCHANGED <<groupSize, memory>>
  BY <1>1 DEF handleKernelLoad
<1> HIDE DEF FileAt
<1>7. CASE LoadChunk(p)
  <2>1. kernelFile' = Append(FileAt(p), p.chunk) /\ kernelValid' = FALSE /\ kernelfd' = "open"
        /\ Answer(<<Ack>>, devPc)
    BY <1>2, <1>7 DEF LoadChunk
  <2> QED BY <1>3, <1>4, <1>5, <1>6, <2>1 DEF Answer
<1>8. CASE LoadFails(p)
  <2>1. kernelFile' = FileAt(p) /\ kernelValid' = FALSE /\ kernelfd' = "null"
        /\ Answer(<<Nak, Ack>>, devPc)
    BY <1>2, <1>8 DEF LoadFails
  <2>2. toHost' = toHost \o <<Nak, Ack>> /\ devPc' = "recv"
    BY <2>1 DEF Answer
  <2>3. Len(kernelFile') <= Len(kernelFile) + 1
    BY <1>3, <2>1
  <2>4. toHost' \in Seq(Reply)
    BY <1>5, <2>2, Zenon
  <2> QED BY <1>3, <1>6, <2>1, <2>2, <2>3, <2>4, Zenon
<1>9. CASE LoadClosesGarbage(p) \/ LoadWithoutFile(p)
  <2>1. devPc' = "dead" /\ UNCHANGED kernelVars /\ (toHost' = toHost \/ toHost' = toHost \o <<Nak>>)
    BY <1>9 DEF LoadClosesGarbage, LoadWithoutFile, Answer
  <2>2. toHost' \in Seq(Reply)
    BY <1>5, <2>1, Zenon DEF TypeOK
  <2>3. kernelFile' = kernelFile /\ kernelfd' = kernelfd /\ kernelValid' = kernelValid
    BY <2>1 DEF kernelVars
  <2>4. kernelValid = FALSE /\ kernelFile \in Seq(Chunk) /\ kernelfd \in {"open", "null", "wild"}
    BY Zenon DEF TypeOK
  <2>5. Len(kernelFile') <= Len(kernelFile) + 1
    BY <1>3, <2>3
  <2> QED BY <1>6, <2>1, <2>2, <2>3, <2>4, <2>5, Zenon
<1> QED BY <1>1, <1>7, <1>8, <1>9 DEF handleKernelLoad

LEMMA BrokenRecvStep ==
  ASSUME Broken, NEW n \in 1 .. Len(toDevice), Recv(n), UNCHANGED hostVars
  PROVE  Broken' /\ memory' = memory
<1>1. devPc = "recv" /\ toDevice' = Left(n)
      /\ \/ Len(Delivered(n)) < 2 /\ buf' = Delivered(n) /\ UNCHANGED <<toHost, deviceVars>>
         \/ /\ Len(Delivered(n)) >= 2 /\ processPacket(Delivered(n)[2])
            /\ buf' = SubSeq(Delivered(n), 3, Len(Delivered(n)))
  BY DEF Recv, Delivered, Left
<1>2. /\ SendersReturn /\ "write" \in DiskFaults /\ TypeOK /\ CommandInv /\ step = "load"
      /\ ~kernelValid /\ 2 * Len(kernelFile) + Len(buf) + Len(toDevice) <= 2 * filePos
      /\ Len(kernelFile) \in Nat /\ filePos \in 0 .. NChunks
  BY LenProperties DEF Broken, TypeOK
<1>3. transferred + (IF awaiting THEN 1 ELSE 0) < filePos
  <2>1. toDevice # <<>>
    BY DEF Broken
  <2> QED BY <2>1 DEF Broken, Behind, Quiet
<1>4. Behind' /\ CommandInv' /\ step' = "load"
  BY <1>2, <1>3 DEF Behind, CommandInv, hostVars
<1>5. /\ buf' \in Seq(LateUnits) /\ toDevice' \in Seq(LateUnits)
      /\ Len(buf') \in Nat /\ Len(toDevice') \in Nat
  BY <1>1, LateDelivery, LenProperties
<1>6. /\ kernelFile' \in Seq(Chunk) /\ Len(kernelFile') <= NChunks /\ Len(kernelFile') \in Nat
      /\ 2 * Len(kernelFile') + Len(buf') + Len(toDevice') <= 2 * filePos
      /\ kernelValid' = FALSE /\ kernelfd' \in {"open", "null", "wild"}
      /\ toHost' \in Seq(Reply) /\ devPc' \in {"recv", "dead"}
      /\ UNCHANGED <<groupSize, memory>>
  <2> DEFINE l == Len(Delivered(n))
             m == Len(Left(n))
  <2>1. l \in Nat /\ m \in Nat /\ l + m = Len(buf) + Len(toDevice)
    BY LateDelivery
  <2> HIDE DEF Delivered, Left, l, m
  <2>2. CASE l < 2 /\ buf' = Delivered(n) /\ UNCHANGED <<toHost, deviceVars>>
    <3>1. Len(buf') = l /\ Len(toDevice') = m
      BY <1>1, <2>2 DEF l, m
    <3>2. UNCHANGED <<toHost, kernelFile, kernelValid, kernelfd, devPc, groupSize, memory>>
      BY <2>2 DEF deviceVars, kernelVars
    <3>3. kernelValid' = FALSE
      BY <1>2, <3>2 DEF TypeOK
    <3> QED BY <1>1, <1>2, <2>1, <3>1, <3>2, <3>3, SMT DEF TypeOK
  <2>3. CASE l >= 2 /\ processPacket(Delivered(n)[2]) /\ buf' = SubSeq(Delivered(n), 3, l)
    <3>1. Delivered(n)[2] \in LateUnits /\ Len(buf') = l - 2 /\ Len(toDevice') = m
      BY <1>1, <2>3, LateDelivery DEF l, m
    <3>2. /\ kernelFile' \in Seq(Chunk) /\ Len(kernelFile') <= Len(kernelFile) + 1
          /\ kernelValid' = FALSE /\ kernelfd' \in {"open", "null", "wild"}
          /\ toHost' \in Seq(Reply) /\ devPc' \in {"recv", "dead"}
          /\ UNCHANGED <<groupSize, memory>>
      BY <1>1, <1>2, <2>3, <3>1, LateChunk
    <3>3. Len(kernelFile') \in Nat
      BY <3>2, LenProperties
    <3>4. 2 * Len(kernelFile') + Len(buf') + Len(toDevice') <= 2 * filePos
      BY <1>2, <2>1, <2>3, <3>1, <3>2, <3>3
    <3>5. Len(kernelFile') <= NChunks
      BY <1>2, <1>5, <3>3, <3>4, ChunksAssumption
    <3> QED BY <3>2, <3>3, <3>4, <3>5
  <2> QED BY <1>1, <2>2, <2>3 DEF l
<1>7. buf' \in Seq(Unit) /\ toDevice' \in Seq(Unit)
  <2>1. LateUnits \subseteq Unit
    BY ChunksAssumption DEF LateUnits, Unit, Packet
  <2> QED BY <1>5, <2>1, SeqMonotonic
<1>8. TypeOK'
  BY <1>2, <1>6, <1>7 DEF TypeOK, Unit, hostVars
<1>9. 2 * Len(kernelFile') + Len(buf') + Len(toDevice') <= 2 * filePos'
  BY <1>6 DEF hostVars
<1> QED BY <1>2, <1>4, <1>5, <1>6, <1>8, <1>9 DEF Broken, LateUnits

LEMMA BrokenSendStep ==
  ASSUME Broken, SendChunk
  PROVE  Broken'
<1> DEFINE p == [cmdId |-> "LOAD_KERNEL_IMAGE", offset |-> transferred,
                 chunk |-> <<hostImage, filePos + 1>>]
<1>1. /\ ~awaiting /\ awaiting' = TRUE /\ filePos < NChunks /\ filePos' = filePos + 1
      /\ toDevice' = toDevice \o Units(p)
      /\ UNCHANGED <<command, step, isNew, hostImage, transferred, ret, toHost, buf, deviceVars>>
  BY DEF SendChunk, Send
<1>2. /\ TypeOK /\ CommandInv /\ step = "load" /\ hostImage \in Kernels
      /\ transferred \in Nat /\ filePos \in Nat /\ transferred < filePos
  <2>1. TypeOK /\ CommandInv /\ step = "load"
    BY DEF Broken
  <2>2. transferred \in Nat /\ filePos \in Nat
    BY <2>1, ChunksAssumption DEF TypeOK
  <2>3. transferred < filePos
    BY <1>1, <2>2 DEF Broken, Behind
  <2> QED BY <2>1, <2>2, <2>3 DEF CommandInv
<1>3. p \in [cmdId : {"LOAD_KERNEL_IMAGE"}, offset : 0 .. NChunks - 2, chunk : Chunk]
  <2>1. transferred \in 0 .. NChunks - 2 /\ filePos + 1 \in 1 .. NChunks
    BY <1>1, <1>2, ChunksAssumption
  <2> QED BY <1>2, <2>1 DEF Chunk
<1>4. Units(p) \in Seq(LateUnits) /\ Len(Units(p)) = 2
  <2>1. Partial \in LateUnits /\ p \in LateUnits
    BY <1>3 DEF LateUnits
  <2> HIDE DEF p
  <2> QED BY <2>1 DEF Units
<1> HIDE DEF p
<1>5. toDevice \in Seq(LateUnits) /\ buf \in Seq(LateUnits) /\ LateUnits \subseteq Unit
  BY ChunksAssumption DEF Broken, LateUnits, Unit, Packet
<1>6. toDevice' \in Seq(LateUnits) /\ Len(toDevice') = Len(toDevice) + 2
  <2>1. toDevice \o Units(p) \in Seq(LateUnits)
        /\ Len(toDevice \o Units(p)) = Len(toDevice) + Len(Units(p))
    BY <1>4, <1>5, ConcatProperties, Zenon
  <2> QED BY <1>1, <1>4, <2>1, Zenon
<1>7. toDevice' \in Seq(Unit)
  BY <1>5, <1>6, SeqMonotonic
<1>8. TypeOK'
  BY <1>1, <1>2, <1>7, ChunksAssumption DEF TypeOK, Unit, deviceVars, kernelVars
<1>9. CommandInv'
  BY <1>1, <1>2 DEF CommandInv
<1>10. Behind'
  BY <1>1, <1>2 DEF Behind
<1>11. 2 * Len(kernelFile') + Len(buf') + Len(toDevice') <= 2 * filePos'
  <2>1. /\ Len(kernelFile) \in Nat /\ Len(buf) \in Nat /\ Len(toDevice) \in Nat
        /\ 2 * Len(kernelFile) + Len(buf) + Len(toDevice) <= 2 * filePos
    BY <1>2, <1>5, LenProperties DEF TypeOK, Broken
  <2>2. Len(kernelFile') = Len(kernelFile) /\ Len(buf') = Len(buf)
    BY <1>1 DEF deviceVars, kernelVars
  <2> QED BY <1>1, <1>2, <1>6, <2>1, <2>2
<1> QED BY <1>1, <1>5, <1>6, <1>8, <1>9, <1>10, <1>11 DEF Broken, LateUnits, deviceVars, kernelVars

(* The ACK that follows a NAK is taken for the answer to a later chunk.    *)
LEMMA BrokenReplyStep ==
  ASSUME Broken, LoadAcked \/ LoadRefused
  PROVE  Broken'
<1>1. /\ TypeOK /\ CommandInv /\ step = "load" /\ hostImage \in Kernels /\ Behind
      /\ transferred \in Nat /\ filePos \in 0 .. NChunks
  BY ChunksAssumption DEF Broken, CommandInv, TypeOK
<1>2. /\ awaiting /\ awaiting' = FALSE /\ toHost # <<>> /\ toHost' = Tail(toHost)
      /\ UNCHANGED <<toDevice, buf, deviceVars, hostImage, filePos, command, ret>>
  BY DEF LoadAcked, LoadRefused, TakeReply
<1>3. toHost' \in Seq(Reply)
  BY <1>1, <1>2, HeadTailProperties DEF TypeOK
<1>4. /\ UNCHANGED <<step, isNew>>
      /\ transferred' \in 0 .. NChunks - 1 /\ transferred' < filePos
  <2>1. CASE LoadAcked
    <3>1. Head(toHost) = Ack /\ transferred' = transferred + 1
          /\ (~TransferComplete(transferred') => UNCHANGED <<step, isNew>>)
      BY <2>1 DEF LoadAcked
    <3>2. toHost # <<Nak, Ack>>
      BY <3>1 DEF Ack, Nak
    <3>3. transferred + 1 < filePos
      BY <1>1, <1>2, <3>2 DEF Behind
    <3> QED BY <1>1, <3>1, <3>3, ChunksAssumption DEF TransferComplete
  <2>2. CASE LoadRefused
    <3>1. transferred' = transferred /\ UNCHANGED <<step, isNew>>
      BY <2>2 DEF LoadRefused
    <3>2. transferred < filePos
      BY <1>1, <1>2 DEF Behind
    <3> QED BY <1>1, <3>1, <3>2, ChunksAssumption
  <2> QED BY <2>1, <2>2
<1>5. TypeOK'
  <2>1. transferred' \in 0 .. NChunks
    BY <1>4, ChunksAssumption
  <2> QED BY <1>1, <1>2, <1>3, <1>4, <2>1 DEF TypeOK, deviceVars, kernelVars
<1>6. CommandInv'
  BY <1>1, <1>2, <1>4, ChunksAssumption DEF CommandInv
<1>7. Behind'
  <2>1. (IF awaiting' THEN 1 ELSE 0) = 0
    BY <1>2
  <2>2. transferred' \in Nat
    BY <1>4, ChunksAssumption
  <2>3. \A t \in Nat : t + 0 = t
    OBVIOUS
  <2>4. transferred' + (IF awaiting' THEN 1 ELSE 0) < filePos'
    BY <1>2, <1>4, <2>1, <2>2, <2>3, Zenon
  <2> QED BY <2>4 DEF Behind
<1> QED BY <1>1, <1>2, <1>4, <1>5, <1>6, <1>7 DEF Broken, LateUnits, deviceVars, kernelVars

(* Once broken, the exchange stays so: the transfer goes on for ever, no   *)
(* kernel becomes valid, and nothing of RemoteDevice moves.                *)
LEMMA BrokenStep ==
  ASSUME Broken, [Next]_vars
  PROVE  Broken' /\ UNCHANGED <<memory, command, ret>>
<1>1. step = "load" /\ devPc \in {"recv", "dead"}
  BY DEF Broken
<1>2. CASE (\E c \in Command : Begin(c)) \/ HostStep
  <2>1. SendChunk \/ LoadAcked \/ LoadRefused
    BY <1>1, <1>2 DEF Begin, HostStep, SendRequest, CompileKernel, EndReply, ReadReply, SizeReply
  <2>2. UNCHANGED <<memory, command, ret>>
    BY <2>1 DEF SendChunk, LoadAcked, LoadRefused, TakeReply, deviceVars
  <2> QED BY <2>1, <2>2, BrokenSendStep, BrokenReplyStep
<1>3. CASE ControlLinkStep
  <2>1. UNCHANGED hostVars /\ \E n \in 1 .. Len(toDevice) : Recv(n)
    BY <1>1, <1>3 DEF ControlLinkStep, DeviceStep, LaunchDone, LaunchRefused
  <2> QED BY <2>1, BrokenRecvStep DEF hostVars
<1>4. CASE UNCHANGED vars
  BY <1>4, Stutter DEF vars, deviceVars, hostVars
<1> QED BY <1>2, <1>3, <1>4 DEF Next

-----------------------------------------------------------------------------
(* The steps where sendAck does not return. *)

(* The device answers reads, and dies of the first other command.          *)
LEMMA EarlyHandlerStep ==
  ASSUME ~SendersReturn, IInv, Early, awaiting, Unanswered, UNCHANGED hostVars,
         toDevice' = <<>>, buf' = <<>>, processPacket(Outstanding)
  PROVE  (IInv /\ Early)' \/ Lost'
<1>1. step \in {"write", "read", "size"} /\ step' = step /\ awaiting' = awaiting
      /\ devPc = "recv" /\ toHost = <<>> /\ command \in Command
  BY Reaches DEF Early, Unanswered, hostVars
<1>2. CASE step = "read"
  <2>1. handleMemoryRead(Outstanding)
    BY <1>2, Reaches DEF processPacket, handleMemoryWrite, handleGlobalWorkSize,
                         handleStartProcessing, handleKernelLoad
  <2>2. IInv'
    BY <1>2, <2>1, HandlerStep
  <2>3. Early'
    BY <1>1, <1>2, <2>1 DEF Early, handleMemoryRead, deviceVars
  <2> QED BY <2>2, <2>3
<1>3. CASE step \in {"write", "size"}
  <2>1. handleMemoryWrite(Outstanding) \/ handleGlobalWorkSize(Outstanding)
    BY <1>3, Reaches DEF processPacket, handleMemoryRead, handleStartProcessing, handleKernelLoad
  <2>2. toHost' = <<Ack>> /\ devPc' = "dead" /\ UNCHANGED kernelVars
    BY <1>1, <2>1 DEF handleMemoryWrite, handleGlobalWorkSize, Answer
  <2>3. memory' \in Data /\ groupSize' \in Sizes
    <3>1. CASE step = "write"
      <4>1. handleMemoryWrite(Outstanding)
        BY <2>1, <3>1, Reaches DEF handleGlobalWorkSize
      <4>2. command.value \in Values
        BY <1>1, <3>1, CommandOp DEF IInv, CommandInv
      <4> QED BY <3>1, <4>1, <4>2, Reaches DEF handleMemoryWrite, Data, IInv, TypeOK
    <3>2. CASE step = "size"
      <4>1. handleGlobalWorkSize(Outstanding)
        BY <2>1, <3>2, Reaches DEF handleMemoryWrite
      <4>2. command.size \in Sizes
        BY <1>1, <3>2, CommandOp DEF IInv, CommandInv
      <4> QED BY <3>2, <4>1, <4>2, Reaches DEF handleGlobalWorkSize, IInv, TypeOK
    <3> QED BY <1>3, <3>1, <3>2
  <2>4. toHost' \in Seq(Reply)
    <3>1. Ack \in Reply
      BY DEF Reply
    <3> QED BY <2>2, <3>1
  <2>5. TypeOK'
    BY <2>2, <2>3, <2>4, EmptySeq DEF IInv, TypeOK, kernelVars, hostVars
  <2>6. CommandInv'
    BY DEF IInv, CommandInv, hostVars
  <2> QED BY <1>1, <1>3, <2>2, <2>5, <2>6 DEF Lost
<1> QED BY <1>1, <1>2, <1>3

LEMMA EarlyStep ==
  ASSUME ~SendersReturn, IInv, Early, [Next]_vars
  PROVE  (IInv /\ Early)' \/ Lost'
<1>1. devPc # "dead" /\ step \in {"idle", "write", "read", "size"} /\ (step = "size" => toHost = <<>>)
  BY DEF Early
<1>2. devPc # "launch"
  BY <1>1 DEF IInv, InStep, Unanswered, Launching, Answered
<1>3. CASE (\E c \in Command : Begin(c)) \/ HostStep
  <2>1. devPc' # "dead" /\ step' \in {"idle", "write", "read", "size"}
        /\ (step' = "size" => toHost' = <<>>)
    <3>1. ASSUME NEW c \in Command, Begin(c)
          PROVE  devPc' = devPc /\ step' \in {"write", "read", "size"} /\ toHost' = <<>>
      <4>1. c.op \in {"write", "read", "run"}
        BY DEF Command, Remote!Command
      <4>2. toHost = <<>>
        BY <1>1, <3>1 DEF Begin, IInv, CommandInv, InStep
      <4> QED BY <3>1, <4>1, <4>2 DEF Begin, FirstStep, streamVars, deviceVars
    <3>2. CASE SendRequest
      BY <1>1, <3>2 DEF SendRequest, deviceVars
    <3>3. CASE EndReply \/ ReadReply
      BY <1>1, <3>3 DEF EndReply, ReadReply, TakeReply, End, deviceVars
    <3>4. ~SendChunk /\ ~CompileKernel /\ ~SizeReply /\ ~LoadAcked /\ ~LoadRefused
      BY <1>1 DEF SendChunk, CompileKernel, SizeReply, LoadAcked, LoadRefused, TakeReply
    <3> QED BY <1>1, <1>3, <3>1, <3>2, <3>3, <3>4 DEF HostStep
  <2> QED BY <1>3, <2>1, HostInv DEF Early
<1>4. CASE ControlLinkStep
  <2>1. UNCHANGED hostVars
    BY <1>4 DEF ControlLinkStep
  <2>2. PICK n \in 1 .. Len(toDevice) : Recv(n)
    BY <1>2, <1>4 DEF ControlLinkStep, DeviceStep, LaunchDone, LaunchRefused
  <2>3. /\ awaiting /\ Unanswered /\ toDevice' \in Seq(Unit) /\ buf' \in Seq(Unit)
        /\ \/ buf' \o toDevice' = Units(Outstanding) /\ UNCHANGED <<toHost, deviceVars>>
           \/ processPacket(Outstanding) /\ toDevice' = <<>> /\ buf' = <<>>
    BY <2>2, Processing
  <2>4. CASE buf' \o toDevice' = Units(Outstanding) /\ UNCHANGED <<toHost, deviceVars>>
    <3>1. IInv'
      BY <2>1, <2>3, <2>4, PartialStep
    <3>2. Early'
      BY <2>1, <2>4 DEF Early, hostVars, deviceVars
    <3> QED BY <3>1, <3>2
  <2>5. CASE processPacket(Outstanding) /\ toDevice' = <<>> /\ buf' = <<>>
    BY <2>1, <2>3, <2>5, EarlyHandlerStep
  <2> QED BY <2>3, <2>4, <2>5
<1>5. CASE UNCHANGED vars
  BY <1>5, Stutter
<1> QED BY <1>3, <1>4, <1>5 DEF Next

(* The host of a dead device gets the one answer that is on the way. *)
LEMMA LostStep ==
  ASSUME Lost, [Next]_vars
  PROVE  Lost'
<1>1. /\ ~SendersReturn /\ devPc = "dead" /\ TypeOK /\ CommandInv
      /\ toHost # <<>> => awaiting /\ toHost = <<Ack>> /\ step \in {"write", "size"}
  BY DEF Lost
<1>2. ASSUME NEW c \in Command, Begin(c) PROVE Lost'
  <2>1. c.op \in {"write", "read", "run"} /\ c # NoCommand
    BY DEF Command, NoCommand, Remote!Command, Remote!NoCommand
  <2>2. /\ step = "idle" /\ command' = c /\ step' \in {"write", "read", "size"}
        /\ (step' \in {"write", "read"} => c.op = step') /\ (step' = "size" => c.op = "run")
        /\ UNCHANGED <<awaiting, isNew, hostImage, transferred, filePos, ret, streamVars, deviceVars>>
    BY <1>2, <2>1 DEF Begin, FirstStep
  <2>3. TypeOK'
    BY <1>1, <2>2 DEF TypeOK, streamVars, deviceVars, kernelVars
  <2>4. CommandInv'
    BY <2>1, <2>2 DEF CommandInv
  <2> QED BY <1>1, <2>2, <2>3, <2>4 DEF Lost, streamVars, deviceVars
<1>3. CASE SendRequest
  <2>1. /\ step \in {"write", "read", "size", "start"} /\ ~awaiting /\ awaiting' = TRUE
        /\ Send(Request)
        /\ UNCHANGED <<command, step, isNew, hostImage, transferred, filePos, ret, toHost, buf, deviceVars>>
    BY <1>3 DEF SendRequest, Send
  <2>2. command \in Command
    BY <1>1, <2>1 DEF CommandInv, TypeOK
  <2>3. Request \in Packet
    BY <1>1, <2>1, <2>2, CommandOp DEF Request, Packet, CommandInv
  <2>4. toDevice' \in Seq({Partial} \cup Packet)
    BY <1>1, <2>1, <2>3, SendType
  <2>5. TypeOK' /\ CommandInv'
    BY <1>1, <2>1, <2>4 DEF TypeOK, CommandInv, deviceVars, kernelVars
  <2> QED BY <1>1, <2>1, <2>5 DEF Lost, deviceVars
<1>4. CASE SendChunk
  <2> DEFINE p == [cmdId |-> "LOAD_KERNEL_IMAGE", offset |-> transferred,
                   chunk |-> <<hostImage, filePos + 1>>]
  <2>1. /\ step = "load" /\ ~awaiting /\ awaiting' = TRUE /\ filePos < NChunks
        /\ filePos' = filePos + 1 /\ Send(p)
        /\ UNCHANGED <<command, step, isNew, hostImage, transferred, ret, toHost, buf, deviceVars>>
    BY <1>4 DEF SendChunk, Send
  <2>2. hostImage \in Kernels /\ transferred \in 0 .. NChunks - 1 /\ filePos + 1 \in 1 .. NChunks
    BY <1>1, <2>1, ChunksAssumption DEF CommandInv, TypeOK
  <2>3. p \in Packet
    BY <2>2 DEF Packet, Chunk
  <2>4. toDevice' \in Seq({Partial} \cup Packet)
    BY <1>1, <2>1, <2>3, SendType
  <2> HIDE DEF p
  <2>5. TypeOK' /\ CommandInv'
    BY <1>1, <2>1, <2>2, <2>4, ChunksAssumption DEF TypeOK, CommandInv, deviceVars, kernelVars
  <2> QED BY <1>1, <2>1, <2>5 DEF Lost, deviceVars
<1>5. CASE CompileKernel
  <2>1. /\ step = "compile" /\ transferred' = 0 /\ filePos' = 0
        /\ UNCHANGED <<awaiting, isNew, ret, streamVars, deviceVars>>
    BY <1>5 DEF CompileKernel, Rewound
  <2>2. command \in Command /\ command.op = "run" /\ command.kernel \in Kernels /\ command # NoCommand
    BY <1>1, <2>1, CommandOp DEF CommandInv, TypeOK
  <2>3. \/ step' = "load" /\ command' = command /\ hostImage' \in Kernels
        \/ step' = "idle" /\ command' = NoCommand /\ hostImage' = hostImage
    BY <1>1, <1>5, <2>2 DEF CompileKernel, End, TypeOK
  <2>4. TypeOK'
    BY <1>1, <2>1, <2>3, ChunksAssumption DEF TypeOK, streamVars, deviceVars, kernelVars
  <2>5. CommandInv'
    BY <1>1, <2>1, <2>2, <2>3, ChunksAssumption DEF CommandInv
  <2> QED BY <1>1, <2>1, <2>4, <2>5 DEF Lost, streamVars, deviceVars
<1>6. CASE EndReply \/ ReadReply \/ SizeReply \/ LoadAcked \/ LoadRefused
  <2>1. /\ toHost = <<Ack>> /\ awaiting /\ awaiting' = FALSE /\ toHost' = <<>>
        /\ step \in {"write", "size"}
        /\ UNCHANGED <<toDevice, buf, deviceVars, hostImage, filePos>>
    <3>1. TakeReply
      BY <1>6 DEF EndReply, ReadReply, SizeReply, LoadAcked, LoadRefused
    <3> QED BY <1>1, <3>1 DEF TakeReply
  <2>2. \/ step = "write" /\ EndReply
        \/ step = "size" /\ SizeReply
    BY <1>6, <2>1 DEF EndReply, ReadReply, SizeReply, LoadAcked, LoadRefused
  <2>3. /\ \/ step' = "idle" /\ command' = NoCommand
           \/ step = "size" /\ step' \in {"compile", "start"} /\ command' = command
        /\ UNCHANGED <<isNew, transferred, ret>>
    BY <2>2 DEF EndReply, SizeReply, End
  <2>4. TypeOK'
    BY <1>1, <2>1, <2>3, EmptySeq DEF TypeOK, deviceVars, kernelVars
  <2>5. CommandInv'
    BY <1>1, <2>1, <2>3 DEF CommandInv
  <2> QED BY <1>1, <2>1, <2>4, <2>5 DEF Lost, deviceVars
<1>7. ~ControlLinkStep
  BY <1>1 DEF ControlLinkStep, DeviceStep, Recv, LaunchDone, LaunchRefused
<1>8. CASE UNCHANGED vars
  BY <1>8, Stutter
<1> QED BY <1>2, <1>3, <1>4, <1>5, <1>6, <1>7, <1>8 DEF Next, HostStep

-----------------------------------------------------------------------------
LEMMA StepInv == Invariant /\ [Next]_vars => Invariant'
<1> SUFFICES ASSUME Invariant, [Next]_vars PROVE Invariant'
  OBVIOUS
<1>1. CASE IInv /\ SendersReturn
  <2>1. IInv' \/ Broken'
    BY <1>1, InStepStep
  <2> QED BY <1>1, <2>1 DEF Invariant, Early
<1>2. CASE IInv /\ Early /\ ~SendersReturn
  BY <1>2, EarlyStep DEF Invariant
<1>3. CASE Broken
  BY <1>3, BrokenStep DEF Invariant
<1>4. CASE Lost
  BY <1>4, LostStep DEF Invariant
<1> QED BY <1>1, <1>2, <1>3, <1>4 DEF Invariant

(* The exchange is in step, broken or lost in every reachable state,       *)
(* whatever fails.                                                         *)
THEOREM Invariance == Spec => []Invariant
<1>1. Init => Invariant
  BY InitInv DEF Init, DeviceInit, Early, Invariant
<1>2. Invariant /\ [Next]_vars => Invariant'
  BY StepInv
<1> QED BY <1>1, <1>2, PTL DEF Spec

(* Every variable of the connection and its two ends keeps its type.       *)
THEOREM TypeCorrect == Spec => []TypeOK
<1>1. Invariant => TypeOK
  BY DEF Invariant, IInv, Broken, Lost
<1> QED BY <1>1, Invariance, PTL

(* Request and reply stay in step: every request is answered exactly once, *)
(* with the answer that belongs to it, as long as the device lives, where  *)
(* writes to kernel.so do not fail.                                        *)
THEOREM RequestsAndRepliesInStep ==
  ASSUME "write" \notin DiskFaults
  PROVE  Spec => []InStep
<1>1. Invariant => InStep
  BY DEF Invariant, IInv, Broken, Lost, InStep
<1> QED BY <1>1, Invariance, PTL

(* A chunk but the last whose write fails, answered by a NAK and an ACK,   *)
(* costs the queue its worker: the dispatch never leaves transferKernel,   *)
(* and no kernel becomes valid any more.                                   *)
THEOREM BrokenForGood ==
  Spec => [](Broken => [](step = "load" /\ ~kernelValid))
<1>1. Broken /\ [Next]_vars => Broken'
  BY BrokenStep
<1>2. Broken => step = "load" /\ ~kernelValid
  BY DEF Broken
<1> QED BY <1>1, <1>2, PTL DEF Spec

(* START_KERNEL reaches only a device that holds a valid kernel.           *)
THEOREM StartsAreAnswered == Spec => []StartIsAnswered
<1>1. Invariant => StartIsAnswered
  <2> SUFFICES ASSUME Invariant, step = "start", devPc = "recv" PROVE kernelValid
    BY DEF StartIsAnswered
  <2>1. IInv
    BY DEF Invariant, Broken, Lost
  <2>2. command.kernel \in Kernels
    BY <2>1, CommandOp DEF IInv, TypeOK, CommandInv
  <2> QED BY <2>1, <2>2 DEF IInv, ValidInv
<1> QED BY <1>1, Invariance, PTL

(* A launch is of a command that has not been answered, in a device that   *)
(* is in step.                                                             *)
LEMMA Launch ==
  ASSUME Invariant, devPc = "launch"
  PROVE  /\ IInv /\ step = "start" /\ awaiting /\ toHost = <<>>
         /\ command.kernel \in Kernels /\ kernelValid
<1>1. IInv
  BY DEF Invariant, Broken, Lost
<1>2. step = "start" /\ awaiting /\ toHost = <<>>
  BY <1>1 DEF IInv, InStep, Unanswered, Launching, Answered
<1>3. command.kernel \in Kernels
  BY <1>1, <1>2, CommandOp DEF IInv, TypeOK, CommandInv
<1> QED BY <1>1, <1>2, <1>3 DEF IInv, ValidInv

(* A launch runs the kernel of its own command over its own size, where    *)
(* the application does not go back to a kernel after using another one    *)
(* and failed builds are reported.                                         *)
THEOREM KernelsAreTheirOwn ==
  ASSUME OwnImage
  PROVE  Spec => []RunsOwnKernel
<1>1. Invariant => RunsOwnKernel
  <2> SUFFICES ASSUME Invariant, devPc = "launch", kernelFile \in Images
               PROVE  kernelFile = Image(command.kernel) /\ groupSize = command.size
    BY DEF RunsOwnKernel
  <2>1. IInv /\ step = "start" /\ command.kernel \in Kernels
    BY Launch
  <2>2. hostImage = command.kernel /\ hostImage # NoKernel
    BY <2>1, NoKernelAssumption DEF IInv, OwnInv
  <2> QED BY <2>1, <2>2 DEF IInv, OwnInv, SizeInv
<1> QED BY <1>1, Invariance, PTL

(* A valid kernel is a whole image: only the handler of the last chunk     *)
(* sets kernelValid, and by then all the others have been written.         *)
WholeInv == kernelValid => kernelFile \in Images

LEMMA WholeStep ==
  ASSUME "close" \notin DiskFaults
  PROVE  Invariant /\ WholeInv /\ [Next]_vars => WholeInv'
<1> SUFFICES ASSUME Invariant, WholeInv, [Next]_vars, kernelValid'
             PROVE  kernelFile' \in Images
  BY DEF WholeInv
<1>1. CASE UNCHANGED kernelVars
  BY <1>1 DEF WholeInv, kernelVars
<1>2. ASSUME NEW n \in 1 .. Len(toDevice), Recv(n), UNCHANGED hostVars, ~UNCHANGED kernelVars
      PROVE  kernelFile' \in Images
  <2>1. IInv
    <3>1. devPc # "dead"
      BY <1>2 DEF Recv
    <3>2. ~Broken
      BY <1>2, BrokenRecvStep DEF Broken
    <3> QED BY <3>1, <3>2 DEF Invariant, Lost
  <2>2. /\ awaiting /\ Unanswered /\ toDevice' = <<>> /\ buf' = <<>>
        /\ processPacket(Outstanding)
    BY <1>2, <2>1, Processing DEF deviceVars
  <2>3. handleKernelLoad(Outstanding)
    BY <1>2, <2>2 DEF processPacket, handleMemoryWrite, handleMemoryRead, handleGlobalWorkSize,
                      handleStartProcessing, deviceVars
  <2>4. step = "load"
    BY <2>1, <2>2, <2>3, Reaches DEF handleKernelLoad
  <2>5. SendersReturn
    BY <1>2, <2>4 DEF Invariant, Early, Broken, Lost, Recv
  <2>6. LoadChunk(Outstanding)
    BY <1>2, <2>3 DEF handleKernelLoad, LoadFails, LoadClosesGarbage, LoadWithoutFile
  <2>7. UNCHANGED <<groupSize, memory>>
    BY <2>3 DEF handleKernelLoad
  <2> QED BY <1>2, <2>1, <2>2, <2>4, <2>5, <2>6, <2>7, LoadChunkStep
<1>3. (\E c \in Command : Begin(c)) \/ HostStep \/ UNCHANGED vars => UNCHANGED kernelVars
  BY DEF Begin, HostStep, SendRequest, SendChunk, CompileKernel, EndReply, ReadReply, SizeReply,
         LoadAcked, LoadRefused, TakeReply, deviceVars, vars
<1>4. LaunchDone \/ LaunchRefused => UNCHANGED kernelVars
  BY DEF LaunchDone, LaunchRefused
<1> QED BY <1>1, <1>2, <1>3, <1>4 DEF Next, ControlLinkStep, DeviceStep

(* The device never launches a file that is not a whole image, whatever    *)
(* writes fail, where closing the file does not.                           *)
THEOREM WholeImages ==
  ASSUME "close" \notin DiskFaults
  PROVE  Spec => []WholeImage
<1>1. Init => WholeInv
  BY DEF Init, DeviceInit, WholeInv
<1>2. Invariant /\ WholeInv /\ [Next]_vars => WholeInv'
  BY WholeStep
<1>3. Invariant /\ WholeInv => WholeImage
  BY Launch DEF WholeInv, WholeImage
<1> QED BY <1>1, <1>2, <1>3, Invariance, PTL DEF Spec

-----------------------------------------------------------------------------
(* The exchange implements the promise of RemoteDevice. *)

LEMMA RefinedInit == Init => Remote!Init
<1> SUFFICES ASSUME Init PROVE Remote!Init
  OBVIOUS
<1>1. (toHost # <<>> /\ step \in {"write", "read", "start"}) = FALSE
  BY DEF Init, DeviceInit
<1> QED BY <1>1 DEF Init, DeviceInit, NoCommand, Remote!Init

(* There is at most one reply, to a worker that waits for it, and it is    *)
(* the proper one or the last word of a dead device.                       *)
OneReply ==
  toHost # <<>> =>
    awaiting /\ (toHost = <<ProperReply>> \/ (step = "load" /\ toHost = <<Nak>>))

LEMMA Replies ==
  ASSUME IInv \/ Lost
  PROVE  OneReply /\ CommandInv
<1>1. CASE IInv
  <2>1. CommandInv /\ (toHost # <<>> => awaiting)
    BY <1>1 DEF IInv, DeadInv, InStep
  <2>2. toHost # <<>> => toHost = <<ProperReply>> \/ (step = "load" /\ toHost = <<Nak>>)
    BY <1>1, <2>1, Replied, DeadReply DEF Answered
  <2> QED BY <2>1, <2>2 DEF OneReply
<1>2. CASE Lost
  BY <1>2 DEF Lost, OneReply, ProperReply
<1> QED BY <1>1, <1>2

(* When the host works on a command and there is no reply, the command has *)
(* not had its effect.                                                     *)
LEMMA RefinedHostStep ==
  ASSUME OneReply, CommandInv, (\E c \in Command : Begin(c)) \/ HostStep
  PROVE  [Remote!Next]_Remote!vars
<1>1. ASSUME NEW c \in Command, Begin(c) PROVE Remote!Next
  <2>1. step = "idle" /\ command = NoCommand /\ toHost = <<>> /\ toHost' = toHost
    BY <1>1 DEF Begin, OneReply, CommandInv, streamVars
  <2>2. command' = c /\ UNCHANGED <<memory, ret>>
    BY <1>1 DEF Begin, deviceVars
  <2>3. Remote!Begin(c)
    BY <2>1, <2>2 DEF NoCommand, Remote!Begin
  <2> QED BY <2>3 DEF Command, Remote!Next
<1>2. CASE SendRequest \/ SendChunk
  BY <1>2 DEF SendRequest, SendChunk, deviceVars, Remote!vars
<1>3. CASE CompileKernel
  <2>1. step = "compile" /\ command.op = "run" /\ UNCHANGED <<toHost, memory, ret>>
    BY <1>3 DEF CompileKernel, CommandInv, streamVars, deviceVars
  <2>2. CASE step' = "load" /\ command' = command
    BY <2>1, <2>2 DEF Remote!vars
  <2>3. CASE step' = "idle" /\ command' = NoCommand
    <3>1. Remote!Drop
      BY <2>1, <2>3 DEF NoCommand, Remote!Drop
    <3> QED BY <3>1 DEF Remote!Next
  <2> QED BY <1>3, <2>2, <2>3 DEF CompileKernel, End
<1>4. CASE EndReply
  <2>1. step \in {"write", "start"} /\ toHost # <<>> /\ step' = "idle" /\ command' = NoCommand
        /\ UNCHANGED <<memory, ret>>
    BY <1>4 DEF EndReply, TakeReply, End, deviceVars
  <2>2. command.op # "read"
    BY <2>1 DEF CommandInv
  <2>3. Remote!Finish
    BY <2>1, <2>2 DEF NoCommand, Remote!Finish
  <2> QED BY <2>3 DEF Remote!Next
<1>5. CASE ReadReply
  <2>1. step = "read" /\ toHost # <<>> /\ awaiting /\ step' = "idle" /\ command' = NoCommand
        /\ ret' = Head(toHost).data /\ memory' = memory
    BY <1>5 DEF ReadReply, TakeReply, End, deviceVars
  <2>2. toHost = <<Rsp(memory)>>
    BY <2>1 DEF OneReply, ProperReply
  <2>3. ret' = memory /\ command.op = "read"
    BY <2>1, <2>2 DEF Rsp, CommandInv
  <2>4. Remote!Finish
    BY <2>1, <2>3 DEF NoCommand, Remote!Finish
  <2> QED BY <2>4 DEF Remote!Next
<1>6. CASE SizeReply \/ LoadAcked \/ LoadRefused
  <2>1. step \in {"size", "load"} /\ awaiting /\ toHost # <<>> /\ toHost' = Tail(toHost)
        /\ UNCHANGED <<command, memory, ret>>
    BY <1>6 DEF SizeReply, LoadAcked, LoadRefused, TakeReply, deviceVars
  <2>2. toHost = <<Ack>> \/ toHost = <<Nak>>
    BY <2>1 DEF OneReply, ProperReply
  <2>3. toHost' = <<>>
    BY <2>1, <2>2
  <2> QED BY <2>1, <2>3 DEF Remote!vars
<1> QED BY <1>1, <1>2, <1>3, <1>4, <1>5, <1>6 DEF HostStep

LEMMA RefinedPacket ==
  ASSUME IInv, awaiting, Unanswered, UNCHANGED hostVars, processPacket(Outstanding)
  PROVE  [Remote!Next]_Remote!vars
<1>1. toHost = <<>> /\ UNCHANGED <<command, step, ret>>
  BY DEF Unanswered, hostVars
<1>2. CASE handleMemoryWrite(Outstanding)
  <2>1. step = "write" /\ Outstanding = Request
    BY <1>2, Reaches DEF handleMemoryWrite, Outstanding
  <2>2. command # NoCommand /\ command.op = "write"
    BY <2>1 DEF IInv, CommandInv
  <2>3. memory' = command.value /\ toHost' = <<Ack>>
    BY <1>1, <1>2, <2>1 DEF handleMemoryWrite, Request, Answer
  <2>4. Remote!Execute
    BY <1>1, <2>1, <2>2, <2>3 DEF NoCommand, Remote!Execute
  <2> QED BY <2>4 DEF Remote!Next
<1>3. CASE handleMemoryRead(Outstanding)
  <2>1. step = "read"
    BY <1>3, Reaches DEF handleMemoryRead
  <2>2. command # NoCommand /\ command.op = "read"
    BY <2>1 DEF IInv, CommandInv
  <2>3. memory' = memory /\ toHost' = <<Rsp(memory)>>
    BY <1>1, <1>3 DEF handleMemoryRead, deviceVars
  <2>4. Remote!Execute
    BY <1>1, <2>1, <2>2, <2>3 DEF NoCommand, Remote!Execute
  <2> QED BY <2>4 DEF Remote!Next
<1>4. CASE handleGlobalWorkSize(Outstanding) \/ handleKernelLoad(Outstanding)
  <2>1. step \in {"size", "load"} /\ memory' = memory
    BY <1>4, Reaches DEF handleGlobalWorkSize, handleKernelLoad
  <2> QED BY <1>1, <2>1 DEF Remote!vars
<1>5. CASE handleStartProcessing(Outstanding)
  BY <1>1, <1>5 DEF handleStartProcessing, Remote!vars
<1> QED BY <1>2, <1>3, <1>4, <1>5 DEF processPacket

LEMMA RefinedLaunch ==
  ASSUME Invariant, OwnImage, LaunchDone, UNCHANGED hostVars
  PROVE  Remote!Next
<1>1. IInv /\ step = "start" /\ toHost = <<>> /\ UNCHANGED <<command, step, ret>>
  BY Launch DEF LaunchDone, hostVars
<1>2. command \in Command /\ command # NoCommand /\ command.op = "run" /\ command.kernel \in Kernels
  BY <1>1, CommandOp DEF IInv, TypeOK, CommandInv
<1>3. hostImage = command.kernel /\ hostImage # NoKernel /\ groupSize = command.size
  BY <1>1, <1>2, NoKernelAssumption DEF LaunchDone, IInv, OwnInv, SizeInv
<1>4. PICK k \in Kernels : kernelFile = Image(k) /\ memory' = <<k, groupSize>>
  BY DEF LaunchDone
<1>5. kernelFile = Image(command.kernel)
  BY <1>1, <1>3, <1>4 DEF LaunchDone, IInv, OwnInv, Images
<1>6. k = command.kernel
  BY <1>4, <1>5, Chunks
<1>7. toHost' = <<Ack>>
  BY <1>1 DEF LaunchDone, Answer
<1>8. Remote!Execute
  BY <1>1, <1>2, <1>3, <1>4, <1>6, <1>7 DEF NoCommand, Remote!Execute
<1> QED BY <1>8 DEF Remote!Next

LEMMA RefinedStep ==
  ASSUME Invariant, OwnImage, [Next]_vars
  PROVE  [Remote!Next]_Remote!vars
<1>1. CASE Broken
  <2>1. step = "load" /\ step' = "load" /\ UNCHANGED <<memory, command, ret>>
    BY <1>1, BrokenStep DEF Broken
  <2> QED BY <2>1 DEF Remote!vars
<1>2. CASE IInv \/ Lost
  <2>1. CASE (\E c \in Command : Begin(c)) \/ HostStep
    BY <1>2, <2>1, Replies, RefinedHostStep
  <2>2. CASE ControlLinkStep
    <3>1. UNCHANGED hostVars
      BY <2>2 DEF ControlLinkStep
    <3>2. ASSUME NEW n \in 1 .. Len(toDevice), Recv(n) PROVE [Remote!Next]_Remote!vars
      <4>1. IInv
        BY <1>2, <3>2 DEF Lost, Recv
      <4>2. /\ awaiting /\ Unanswered
            /\ UNCHANGED <<toHost, deviceVars>> \/ processPacket(Outstanding)
        BY <3>2, <4>1, Processing
      <4>3. CASE UNCHANGED <<toHost, deviceVars>>
        BY <3>1, <4>3 DEF hostVars, deviceVars, Remote!vars
      <4>4. CASE processPacket(Outstanding)
        BY <3>1, <4>1, <4>2, <4>4, RefinedPacket
      <4> QED BY <4>2, <4>3, <4>4
    <3>3. CASE LaunchDone
      BY <3>1, <3>3, RefinedLaunch
    <3>4. CASE LaunchRefused
      BY <3>1, <3>4 DEF LaunchRefused, hostVars, streamVars, Remote!vars
    <3> QED BY <2>2, <3>2, <3>3, <3>4 DEF ControlLinkStep, DeviceStep
  <2>3. CASE UNCHANGED vars
    BY <2>3 DEF vars, streamVars, deviceVars, hostVars, Remote!vars
  <2> QED BY <2>1, <2>2, <2>3 DEF Next
<1> QED BY <1>1, <1>2 DEF Invariant

(* Every dispatched command has its effect on the device's memory exactly  *)
(* once within its dispatch, and a read returns what the commands before   *)
(* it have left, whatever packets the exchange takes, however recv cuts    *)
(* them, and whatever fails: a failure can stop the exchange, but lets no  *)
(* command end without its effect.                                         *)
THEOREM ExchangeImplementsDevice ==
  ASSUME OwnImage
  PROVE  Spec => ImplementsDevice
<1>1. Invariant /\ [Next]_vars => [Remote!Next]_Remote!vars
  BY RefinedStep
<1> QED BY RefinedInit, <1>1, Invariance, PTL DEF Spec, ImplementsDevice, Remote!Spec
=============================================================================
