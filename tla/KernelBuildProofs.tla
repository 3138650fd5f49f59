------------------------- MODULE KernelBuildProofs --------------------------
(***************************************************************************)
(* Proofs about KernelBuild, for any programs, kernels, arguments and      *)
(* number of pending commands: where gcc succeeds, an application with the *)
(* habits of the demos gets every launch as it enqueued it, and of each    *)
(* program its own binary; every application gets what has the types of    *)
(* TypeOK.                                                                 *)
(***************************************************************************)
EXTENDS KernelBuild, SequenceTheorems, WellFoundedInduction, TLAPS

-----------------------------------------------------------------------------
(* The inductive invariant. *)

KernelOf(i) == queue[i].kernel
KernelObject == [program : Programs, args : Seq(ArgSizes), isNew : BOOLEAN]
ProgramObject ==
  [status : {"none", "in_progress", "success", "error"}, createdWithBinary : BOOLEAN,
   binary : Content \cup {NoFile}]
Built(k) == [kernel |-> k, offsets |-> Offsets(kernels[k].args), object |-> kernels[k].program]

(* Objects are absent or have the fields the proof looks at; a program     *)
(* whose binary was measured or given has its own.                         *)
ProgramInv ==
  /\ programs \in [Programs -> {NoFile} \cup ProgramObject]
  /\ \A p \in Programs :
       programs[p] # NoFile /\ (programs[p].createdWithBinary \/ programs[p].status = "success")
         => programs[p].binary = p

(* program.o is the latest program's, except during the calls that write   *)
(* it, in which it is theirs when they are done.                           *)
FileInv ==
  /\ call \in {NoCall} \cup [op : {"store", "build", "measure"}, program : Programs]
  /\ latest \in Programs \cup {NoFile} /\ saved \in [Programs -> Content \cup {NoFile}]
  /\ call.op \in {"none", "build"} => latest = NoFile \/ objectFile = latest
  /\ call.op = "measure" => objectFile = call.program
  /\ call.op \in {"build", "measure"} =>
       programs[call.program] \in ProgramObject /\ ~programs[call.program].createdWithBinary
  /\ call.op = "store" => saved[call.program] = call.program

(* Commands have the arguments and the program of their kernels; while     *)
(* there are any, program.o is this program's and no call writes it.       *)
QueueInv ==
  /\ kernels \in [Kernels -> {NoFile} \cup KernelObject]
  /\ queue \in Seq([kernel : Kernels, args : Seq(ArgSizes)])
  /\ last \in Kernels \cup {NoFile}
  /\ queue # <<>> => call = NoCall /\ latest \in Programs /\ last = KernelOf(Len(queue))
  /\ \A i \in 1 .. Len(queue) :
       /\ kernels[KernelOf(i)] \in KernelObject
       /\ queue[i].args = kernels[KernelOf(i)].args
       /\ kernels[KernelOf(i)].program = latest

(* The commands of one kernel follow one another, and only the first       *)
(* commands' kernel may have been transferred.                             *)
BlockInv ==
  /\ \A i, j, m \in 1 .. Len(queue) :
       i < j /\ j < m /\ KernelOf(i) = KernelOf(m) => KernelOf(j) = KernelOf(i)
  /\ \A i \in 1 .. Len(queue) : KernelOf(i) # KernelOf(1) => kernels[KernelOf(i)].isNew

(* The device has the image of the kernel that may run without a transfer. *)
Current == IF queue = <<>> THEN last ELSE KernelOf(1)
DeviceInv ==
  Current \in Kernels /\ kernels[Current] # NoFile /\ ~kernels[Current].isNew
    => deviceImage = Built(Current)

(* What the worker has made for the first command so far. *)
WorkerInv ==
  /\ step \in {"idle", "wrap", "link", "transfer", "start"}
  /\ step # "idle" => queue # <<>>
  /\ step \in {"wrap", "link", "transfer"} => kernels[KernelOf(1)].isNew
  /\ step = "wrap" => argsFile = Built(KernelOf(1)).offsets
  /\ step = "link" => wrapper = [kernel |-> KernelOf(1), offsets |-> Built(KernelOf(1)).offsets]
  /\ step = "transfer" => image = Built(KernelOf(1))
  /\ step = "start" => deviceImage = Built(KernelOf(1))

IInv ==
  ProgramInv /\ FileInv /\ BinaryIsOwn /\ QueueInv /\ BlockInv /\ DeviceInv /\ WorkerInv

-----------------------------------------------------------------------------
(* What the proofs assume of the application and of gcc. *)
Demos == Orderly /\ GccOutcomes = {"built"}

LEMMA TailFacts ==
  ASSUME NEW S, NEW q \in Seq(S), q # <<>>
  PROVE  /\ Head(q) = q[1] /\ Len(q) \in Nat \ {0} /\ Tail(q) \in Seq(S)
         /\ Len(Tail(q)) = Len(q) - 1
         /\ \A i \in 1 .. Len(q) - 1 : Tail(q)[i] = q[i + 1]
OBVIOUS

LEMMA SeqDomain == ASSUME NEW S, NEW q \in Seq(S) PROVE DOMAIN q = 1 .. Len(q)
OBVIOUS

LEMMA AppendFacts ==
  ASSUME NEW S, NEW q \in Seq(S), NEW e \in S
  PROVE  /\ Append(q, e) \in Seq(S) /\ Append(q, e) # <<>> /\ Len(q) \in Nat
         /\ Len(Append(q, e)) = Len(q) + 1 /\ Append(q, e)[Len(q) + 1] = e
         /\ \A i \in 1 .. Len(q) : Append(q, e)[i] = q[i]
OBVIOUS

(* The steps of the application's calls on programs leave the commands     *)
(* alone, and while there are commands the latest program too.             *)
LEMMA ProgramCallFrame ==
  ASSUME Demos, IInv, ProgramCall
  PROVE  /\ UNCHANGED <<kernels, queue, last, workerVars>>
         /\ queue # <<>> => UNCHANGED <<call, latest>>
<1>1. queue # <<>> => call.op = "none"
  BY DEF IInv, QueueInv, NoCall
<1>2. ASSUME NEW p \in Programs,
             CreateWithSource(p) \/ BuildFromBinary(p) \/ GetBinary(p) \/ ReleaseProgram(p)
      PROVE  UNCHANGED <<kernels, queue, last, workerVars, call, latest>>
  BY <1>2 DEF CreateWithSource, BuildFromBinary, GetBinary, ReleaseProgram
<1>3. ASSUME NEW p \in Programs, CreateWithBinary(p) \/ BuildFromSource(p)
      PROVE  UNCHANGED <<kernels, queue, last, workerVars>> /\ queue = <<>>
  BY <1>3 DEF CreateWithBinary, BuildFromSource, Settled, Demos
<1>4. ASSUME StoreBinary \/ BuildRefused \/ RunScript \/ MeasureBinary
      PROVE  UNCHANGED <<kernels, queue, last, workerVars>> /\ call.op # "none"
  BY <1>4 DEF StoreBinary, BuildRefused, RunScript, MeasureBinary
<1> QED BY <1>1, <1>2, <1>3, <1>4 DEF ProgramCall

LEMMA WorkerFrame == Worker => UNCHANGED programVars /\ last' = last
BY DEF Worker, SetKernelArguments, CreateWrapper, WrapperRefused, CompileKernel, TransferKernel,
       StartKernel, Complete

LEMMA KernelCallFrame == KernelCall => UNCHANGED <<programVars, workerVars>> /\ call = NoCall
BY DEF KernelCall, CreateKernel, ReleaseKernel, EnqueueNDRangeKernel, SetKernelArg, Idle

-----------------------------------------------------------------------------
(* The programs, and program.o. *)

LEMMA ProgramStep ==
  ASSUME Demos, IInv, Next
  PROVE  ProgramInv'
<1>1. /\ ProgramInv /\ FileInv /\ BinaryIsOwn
      /\ \A p \in Programs : p # NoFile /\ p # Torn
      /\ call.op \in {"store", "build", "measure"} => call.program \in Programs
  BY FileAssumption DEF IInv, FileInv, NoCall
<1> USE DEF ProgramInv, ProgramObject, Content
<1>2. ASSUME NEW p \in Programs, CreateWithSource(p) PROVE ProgramInv'
  BY <1>1, <1>2 DEF CreateWithSource
<1>3. ASSUME NEW p \in Programs, CreateWithBinary(p) PROVE ProgramInv'
  BY <1>1, <1>3 DEF CreateWithBinary
<1>4. ASSUME StoreBinary PROVE ProgramInv'
  BY <1>1, <1>4 DEF StoreBinary, FileInv
<1>5. ASSUME NEW p \in Programs, BuildFromBinary(p) PROVE ProgramInv'
  BY <1>1, <1>5 DEF BuildFromBinary
<1>6. ASSUME NEW p \in Programs, BuildFromSource(p) PROVE ProgramInv'
  BY <1>1, <1>6 DEF BuildFromSource
<1>7. ASSUME BuildRefused PROVE ProgramInv'
  BY <1>1, <1>7 DEF BuildRefused, FileInv
<1>8. ASSUME RunScript PROVE ProgramInv'
  BY <1>1, <1>8 DEF RunScript
<1>9. ASSUME MeasureBinary PROVE ProgramInv'
  BY <1>1, <1>9 DEF MeasureBinary, FileInv
<1>10. ASSUME NEW p \in Programs, GetBinary(p) PROVE ProgramInv'
  BY <1>1, <1>10 DEF GetBinary
<1>11. ASSUME NEW p \in Programs, ReleaseProgram(p) PROVE ProgramInv'
  BY <1>1, <1>11 DEF ReleaseProgram
<1>12. ASSUME KernelCall \/ Worker PROVE ProgramInv'
  BY <1>1, <1>12, KernelCallFrame, WorkerFrame DEF programVars
<1> QED BY <1>2, <1>3, <1>4, <1>5, <1>6, <1>7, <1>8, <1>9, <1>10, <1>11, <1>12
        DEF Next, ProgramCall

LEMMA FileStep ==
  ASSUME Demos, IInv, Next
  PROVE  FileInv' /\ BinaryIsOwn'
<1>1. /\ ProgramInv /\ FileInv /\ BinaryIsOwn
      /\ \A p \in Programs : p # NoFile /\ p # Torn
      /\ call.op \in {"store", "build", "measure"} => call.program \in Programs
      /\ Idle => call.op = "none"
  BY FileAssumption DEF IInv, FileInv, NoCall, Idle
<1> USE DEF FileInv, BinaryIsOwn, Content, NoCall, ProgramObject
<1>2. ASSUME NEW p \in Programs, CreateWithSource(p) PROVE FileInv' /\ BinaryIsOwn'
  BY <1>1, <1>2 DEF CreateWithSource
<1>3. ASSUME NEW p \in Programs, CreateWithBinary(p) PROVE FileInv' /\ BinaryIsOwn'
  BY <1>1, <1>3 DEF CreateWithBinary
<1>4. ASSUME StoreBinary PROVE FileInv' /\ BinaryIsOwn'
  BY <1>1, <1>4 DEF StoreBinary
<1>5. ASSUME NEW p \in Programs, BuildFromBinary(p) PROVE FileInv' /\ BinaryIsOwn'
  BY <1>1, <1>5 DEF BuildFromBinary
<1>6. ASSUME NEW p \in Programs, BuildFromSource(p) PROVE FileInv' /\ BinaryIsOwn'
  BY <1>1, <1>6 DEF BuildFromSource, ProgramInv
<1>7. ASSUME BuildRefused PROVE FileInv' /\ BinaryIsOwn'
  BY <1>1, <1>7 DEF BuildRefused
<1>8. ASSUME RunScript PROVE FileInv' /\ BinaryIsOwn'
  <2>1. /\ objectFile' = call.program /\ call' = [call EXCEPT !.op = "measure"]
        /\ call \in [op : {"build"}, program : Programs]
        /\ UNCHANGED <<programs, saved, latest>>
    BY <1>1, <1>8 DEF RunScript, Demos
  <2> QED BY <1>1, <2>1
<1>9. ASSUME MeasureBinary PROVE FileInv' /\ BinaryIsOwn'
  BY <1>1, <1>9 DEF MeasureBinary
<1>10. ASSUME NEW p \in Programs, GetBinary(p) PROVE FileInv' /\ BinaryIsOwn'
  <2>1. objectFile = p /\ programs[p].binary = p
    BY <1>1, <1>10 DEF GetBinary, Demos, ProgramInv
  <2>2. saved' = [saved EXCEPT ![p] = p] /\ UNCHANGED <<programs, objectFile, call, latest>>
    BY <1>10, <2>1 DEF GetBinary
  <2> QED BY <1>1, <2>2
<1>11. ASSUME NEW p \in Programs, ReleaseProgram(p) PROVE FileInv' /\ BinaryIsOwn'
  BY <1>1, <1>11 DEF ReleaseProgram
<1>12. ASSUME KernelCall \/ Worker PROVE FileInv' /\ BinaryIsOwn'
  BY <1>1, <1>12, KernelCallFrame, WorkerFrame DEF programVars
<1> QED BY <1>2, <1>3, <1>4, <1>5, <1>6, <1>7, <1>8, <1>9, <1>10, <1>11, <1>12
        DEF Next, ProgramCall

-----------------------------------------------------------------------------
(* Kernels and their commands.  A step leaves them alone, completes the    *)
(* first command, transfers its kernel, or is a call on one kernel.        *)

Quiet ==
  UNCHANGED <<kernels, queue, last, deviceImage>> /\ (queue # <<>> => UNCHANGED <<call, latest>>)

Completes ==
  queue # <<>> /\ Complete /\ UNCHANGED <<kernels, last, programVars, deviceImage>>

Transfers ==
  /\ step = "transfer" /\ queue # <<>>
  /\ kernels' = [kernels EXCEPT ![Running].isNew = FALSE]
  /\ deviceImage' = image
  /\ UNCHANGED <<queue, last, programVars>>

LEMMA Kinds ==
  ASSUME Demos, IInv, ProgramCall \/ Worker
  PROVE  Quiet \/ Completes \/ Transfers
<1>1. step # "idle" => queue # <<>>
  BY DEF IInv, WorkerInv
<1>2. CASE ProgramCall
  BY <1>2, ProgramCallFrame DEF Quiet, workerVars
<1>3. CASE SetKernelArguments \/ CreateWrapper \/ CompileKernel
  BY <1>3 DEF SetKernelArguments, CreateWrapper, CompileKernel, Quiet, programVars
<1>4. CASE WrapperRefused \/ StartKernel
  BY <1>1, <1>4 DEF WrapperRefused, StartKernel, Completes
<1>5. CASE TransferKernel
  BY <1>1, <1>5 DEF TransferKernel, Completes, Transfers
<1> QED BY <1>2, <1>3, <1>4, <1>5 DEF Worker

LEMMA KernelsOfCommands ==
  ASSUME QueueInv
  PROVE  /\ \A i \in 1 .. Len(queue) : KernelOf(i) \in Kernels
         /\ queue # <<>> => 1 \in 1 .. Len(queue) /\ Running = KernelOf(1)
<1> DEFINE Command == [kernel : Kernels, args : Seq(ArgSizes)]
<1>1. \A c \in Command : c.kernel \in Kernels
  OBVIOUS
<1>2. queue \in Seq(Command)
  BY DEF QueueInv
<1> HIDE DEF Command
<1>3. \A i \in 1 .. Len(queue) : queue[i] \in Command
  BY <1>2
<1>4. queue # <<>> => Head(queue) = queue[1] /\ Len(queue) \in Nat \ {0}
  BY <1>2
<1> QED BY <1>1, <1>3, <1>4 DEF KernelOf, Running

(* What a transfer changes: the first command's kernel is not new.         *)
LEMMA TransferFacts ==
  ASSUME IInv, Transfers
  PROVE  /\ KernelOf(1) \in Kernels /\ kernels[KernelOf(1)] \in KernelObject
         /\ kernels \in [Kernels -> {NoFile} \cup KernelObject]
         /\ kernels' \in [Kernels -> {NoFile} \cup KernelObject]
         /\ \A k \in Kernels : k # KernelOf(1) => kernels'[k] = kernels[k]
         /\ kernels'[KernelOf(1)] \in KernelObject
         /\ kernels'[KernelOf(1)].args = kernels[KernelOf(1)].args
         /\ kernels'[KernelOf(1)].program = kernels[KernelOf(1)].program
<1>1. queue \in Seq([kernel : Kernels, args : Seq(ArgSizes)]) /\ queue # <<>>
  BY DEF IInv, QueueInv, Transfers
<1>2. Running = KernelOf(1) /\ 1 \in 1 .. Len(queue) /\ KernelOf(1) \in Kernels
  BY <1>1, KernelsOfCommands DEF IInv
<1>3. KernelOf(1) \in Kernels /\ kernels[KernelOf(1)] \in KernelObject
      /\ kernels \in [Kernels -> {NoFile} \cup KernelObject]
  BY <1>2 DEF IInv, QueueInv, KernelOf
<1>4. kernels' = [kernels EXCEPT ![KernelOf(1)].isNew = FALSE]
  BY <1>2 DEF Transfers
<1> HIDE DEF KernelOf
<1>5. [kernels[KernelOf(1)] EXCEPT !.isNew = FALSE] \in KernelObject
  BY <1>3 DEF KernelObject
<1>6. /\ kernels'[KernelOf(1)] = [kernels[KernelOf(1)] EXCEPT !.isNew = FALSE]
      /\ \A k \in Kernels : k # KernelOf(1) => kernels'[k] = kernels[k]
      /\ kernels' \in [Kernels -> {NoFile} \cup KernelObject]
  BY <1>3, <1>4, <1>5
<1>7. /\ [kernels[KernelOf(1)] EXCEPT !.isNew = FALSE].args = kernels[KernelOf(1)].args
      /\ [kernels[KernelOf(1)] EXCEPT !.isNew = FALSE].program = kernels[KernelOf(1)].program
  BY <1>3 DEF KernelObject
<1> QED BY <1>3, <1>5, <1>6, <1>7

(* A kernel object that a call creates, changes or releases is in no       *)
(* command.                                                                *)
LEMMA EditFacts ==
  ASSUME Demos, IInv, NEW k \in Kernels,
         \/ \E p \in Programs : CreateKernel(k, p)
         \/ ReleaseKernel(k)
         \/ \E i \in 1 .. MaxArgs, size \in ArgSizes : SetKernelArg(k, i, size)
  PROVE  /\ \A i \in 1 .. Len(queue) : KernelOf(i) # k
         /\ \A j \in Kernels : j # k => kernels'[j] = kernels[j]
         /\ kernels' \in [Kernels -> {NoFile} \cup KernelObject]
         /\ kernels'[k] = NoFile \/ kernels'[k].isNew
         /\ UNCHANGED <<queue, last, programVars, workerVars>>
<1>1. kernels \in [Kernels -> {NoFile} \cup KernelObject]
      /\ queue \in Seq([kernel : Kernels, args : Seq(ArgSizes)])
      /\ \A i \in 1 .. Len(queue) : kernels[KernelOf(i)] \in KernelObject
  BY DEF IInv, QueueInv
<1>2. NoFile \notin KernelObject
  BY ObjectAssumption DEF KernelObject
<1> HIDE DEF KernelOf
<1>3. ASSUME NEW p \in Programs, CreateKernel(k, p)
      PROVE  /\ \A i \in 1 .. Len(queue) : KernelOf(i) # k
             /\ \A j \in Kernels : j # k => kernels'[j] = kernels[j]
             /\ kernels' \in [Kernels -> {NoFile} \cup KernelObject]
             /\ kernels'[k].isNew
             /\ UNCHANGED <<queue, last, programVars, workerVars>>
  <2>1. /\ kernels[k] = NoFile
        /\ kernels' = [kernels EXCEPT ![k] = [program |-> p, args |-> <<>>, isNew |-> TRUE]]
        /\ UNCHANGED <<queue, last, programVars, workerVars>>
    BY <1>3 DEF CreateKernel
  <2>2. [program |-> p, args |-> <<>>, isNew |-> TRUE] \in KernelObject
    BY DEF KernelObject
  <2> QED BY <1>1, <1>2, <2>1, <2>2
<1>4. ASSUME ReleaseKernel(k)
      PROVE  /\ \A i \in 1 .. Len(queue) : KernelOf(i) # k
             /\ \A j \in Kernels : j # k => kernels'[j] = kernels[j]
             /\ kernels' \in [Kernels -> {NoFile} \cup KernelObject]
             /\ kernels'[k] = NoFile
             /\ UNCHANGED <<queue, last, programVars, workerVars>>
  BY <1>1, <1>4 DEF ReleaseKernel, Settled, Demos
<1>5. ASSUME NEW i \in 1 .. MaxArgs, NEW size \in ArgSizes, SetKernelArg(k, i, size)
      PROVE  /\ \A n \in 1 .. Len(queue) : KernelOf(n) # k
             /\ \A j \in Kernels : j # k => kernels'[j] = kernels[j]
             /\ kernels' \in [Kernels -> {NoFile} \cup KernelObject]
             /\ kernels'[k].isNew
             /\ UNCHANGED <<queue, last, programVars, workerVars>>
  <2> DEFINE old == kernels[k].args
             new == IF i <= Len(old) THEN [old EXCEPT ![i] = size] ELSE Append(old, size)
  <2>1. /\ kernels[k] \in KernelObject /\ queue = <<>> /\ kernels[k].isNew
        /\ kernels' = [kernels EXCEPT ![k].args = new]
        /\ UNCHANGED <<queue, last, programVars, workerVars>>
    BY <1>1, <1>5 DEF SetKernelArg, Demos
  <2>2. old \in Seq(ArgSizes)
    BY <2>1 DEF KernelObject
  <2>3. new \in Seq(ArgSizes)
    BY <2>2, ArgsAssumption
  <2> HIDE DEF new
  <2>4. [kernels[k] EXCEPT !.args = new] \in KernelObject
        /\ [kernels[k] EXCEPT !.args = new].isNew
    BY <2>1, <2>3 DEF KernelObject
  <2> QED BY <1>1, <2>1, <2>4
<1> QED BY <1>3, <1>4, <1>5

(* A command is put behind those of the same kernel, or is the first of a  *)
(* new one.                                                                *)
LEMMA EnqueueFacts ==
  ASSUME Demos, IInv, NEW k \in Kernels, EnqueueNDRangeKernel(k)
  PROVE  LET n == Len(queue) + 1
         IN  /\ step = "idle" /\ call = NoCall /\ kernels[k] \in KernelObject
             /\ latest = kernels[k].program
             /\ last = k \/ (kernels[k].isNew /\ \A i \in 1 .. Len(queue) : KernelOf(i) # k)
             /\ queue' \in Seq([kernel : Kernels, args : Seq(ArgSizes)])
             /\ Len(queue) \in Nat /\ Len(queue') = n /\ queue' # <<>>
             /\ queue'[n].kernel = k /\ queue'[n].args = kernels[k].args
             /\ \A i \in 1 .. Len(queue) : queue'[i] = queue[i]
             /\ last' = k
             /\ UNCHANGED <<programVars, kernels, workerVars>>
<1> DEFINE c == [kernel |-> k, args |-> kernels[k].args]
<1>1. /\ kernels[k] \in KernelObject
      /\ queue \in Seq([kernel : Kernels, args : Seq(ArgSizes)])
  BY DEF IInv, QueueInv, EnqueueNDRangeKernel
<1>2. c \in [kernel : Kernels, args : Seq(ArgSizes)]
  BY <1>1 DEF KernelObject
<1>3. /\ step = "idle" /\ call = NoCall /\ latest = kernels[k].program /\ last' = k
      /\ last = k \/ (kernels[k].isNew /\ \A i \in DOMAIN queue : queue[i].kernel # k)
      /\ UNCHANGED <<programVars, kernels, workerVars>> /\ queue' = Append(queue, c)
  BY DEF EnqueueNDRangeKernel, Idle, Demos
<1>4. DOMAIN queue = 1 .. Len(queue)
  BY <1>1, SeqDomain
<1>5. c.kernel = k /\ c.args = kernels[k].args
  OBVIOUS
<1> HIDE DEF c
<1>6. /\ queue' \in Seq([kernel : Kernels, args : Seq(ArgSizes)]) /\ queue' # <<>>
      /\ Len(queue) \in Nat /\ Len(queue') = Len(queue) + 1 /\ queue'[Len(queue) + 1] = c
      /\ \A i \in 1 .. Len(queue) : queue'[i] = queue[i]
  <2> DEFINE T == [kernel : Kernels, args : Seq(ArgSizes)]
             longer == Append(queue, c)
  <2>1. queue \in Seq(T) /\ c \in T
    BY <1>1, <1>2
  <2>2. queue' = longer
    BY <1>3
  <2> HIDE DEF T
  <2>3. /\ longer \in Seq(T) /\ longer # <<>> /\ Len(queue) \in Nat
        /\ Len(longer) = Len(queue) + 1 /\ longer[Len(queue) + 1] = c
        /\ \A i \in 1 .. Len(queue) : longer[i] = queue[i]
    BY <2>1, AppendFacts
  <2> HIDE DEF longer
  <2> QED BY <2>2, <2>3 DEF T
<1> QED BY <1>1, <1>3, <1>4, <1>5, <1>6 DEF KernelOf

-----------------------------------------------------------------------------
(* The invariants of the kernels and their commands. *)

(* The first command is taken from the list. *)
LEMMA CompleteFacts ==
  ASSUME IInv, queue # <<>>, Complete
  PROVE  /\ queue' \in Seq([kernel : Kernels, args : Seq(ArgSizes)])
         /\ Len(queue) \in Nat \ {0} /\ Len(queue') = Len(queue) - 1
         /\ queue' # <<>> <=> Len(queue) > 1
         /\ \A i \in 1 .. Len(queue') : i + 1 \in 1 .. Len(queue) /\ queue'[i] = queue[i + 1]
         /\ Running = KernelOf(1) /\ step' = "idle"
<1>1. queue \in Seq([kernel : Kernels, args : Seq(ArgSizes)]) /\ queue' = Tail(queue)
  BY DEF IInv, QueueInv, Complete
<1>2. /\ Head(queue) = queue[1] /\ Len(queue) \in Nat \ {0}
      /\ queue' \in Seq([kernel : Kernels, args : Seq(ArgSizes)])
      /\ Len(queue') = Len(queue) - 1
      /\ \A i \in 1 .. Len(queue) - 1 : queue'[i] = queue[i + 1]
  BY <1>1, TailFacts
<1>3. queue' # <<>> <=> Len(queue') > 0
  BY <1>2
<1> QED BY <1>2, <1>3 DEF Complete, Running, KernelOf

LEMMA QueueStep ==
  ASSUME Demos, IInv, Next
  PROVE  QueueInv'
<1>1. QueueInv
  BY DEF IInv
<1>2. CASE Quiet
  <2>1. /\ UNCHANGED <<kernels, queue, last>>
        /\ queue # <<>> => UNCHANGED <<call, latest>>
    BY <1>2 DEF Quiet
  <2>2. \A i \in 1 .. Len(queue) : latest' = latest
    BY <1>1, <2>1 DEF QueueInv
  <2>3. queue # <<>> => call' = NoCall /\ latest' \in Programs /\ last = KernelOf(Len(queue))
    BY <1>1, <2>1 DEF QueueInv
  <2>4. \A i \in 1 .. Len(queue) :
          /\ kernels[KernelOf(i)] \in KernelObject
          /\ queue[i].args = kernels[KernelOf(i)].args
          /\ kernels[KernelOf(i)].program = latest'
    BY <1>1, <2>2 DEF QueueInv
  <2> QED BY <1>1, <2>1, <2>3, <2>4 DEF QueueInv, KernelOf
<1>3. CASE Completes
  <2>1. /\ queue' \in Seq([kernel : Kernels, args : Seq(ArgSizes)])
        /\ Len(queue) \in Nat \ {0} /\ Len(queue') = Len(queue) - 1
        /\ \A i \in 1 .. Len(queue') : i + 1 \in 1 .. Len(queue) /\ queue'[i] = queue[i + 1]
        /\ UNCHANGED <<kernels, last, call, latest>> /\ queue # <<>>
        /\ queue' # <<>> => Len(queue') \in 1 .. Len(queue')
    BY <1>3, CompleteFacts DEF Completes, programVars
  <2>2. queue' # <<>> => last = queue'[Len(queue')].kernel
    BY <1>1, <2>1 DEF QueueInv, KernelOf
  <2> QED BY <1>1, <2>1, <2>2 DEF QueueInv, KernelOf
<1>4. CASE Transfers
  <2>1. /\ kernels' \in [Kernels -> {NoFile} \cup KernelObject]
        /\ KernelOf(1) \in Kernels
        /\ \A k \in Kernels : k # KernelOf(1) => kernels'[k] = kernels[k]
        /\ kernels'[KernelOf(1)] \in KernelObject
        /\ kernels'[KernelOf(1)].args = kernels[KernelOf(1)].args
        /\ kernels'[KernelOf(1)].program = kernels[KernelOf(1)].program
        /\ UNCHANGED <<queue, last, call, latest>>
    BY <1>4, TransferFacts DEF Transfers, programVars
  <2>2. \A i \in 1 .. Len(queue) : KernelOf(i) \in Kernels
    BY <1>1, KernelsOfCommands
  <2>3. \A i \in 1 .. Len(queue) :
          /\ kernels'[KernelOf(i)] \in KernelObject
          /\ queue[i].args = kernels'[KernelOf(i)].args
          /\ kernels'[KernelOf(i)].program = latest
    BY <1>1, <2>1, <2>2 DEF QueueInv
  <2> QED BY <1>1, <2>1, <2>3 DEF QueueInv, KernelOf
<1>5. ASSUME NEW k \in Kernels,
             \/ \E p \in Programs : CreateKernel(k, p)
             \/ ReleaseKernel(k)
             \/ \E i \in 1 .. MaxArgs, size \in ArgSizes : SetKernelArg(k, i, size)
      PROVE  QueueInv'
  <2>1. /\ \A i \in 1 .. Len(queue) : KernelOf(i) # k
        /\ \A j \in Kernels : j # k => kernels'[j] = kernels[j]
        /\ kernels' \in [Kernels -> {NoFile} \cup KernelObject]
        /\ UNCHANGED <<queue, last, call, latest>>
    BY <1>5, EditFacts DEF programVars
  <2>2. \A i \in 1 .. Len(queue) :
          KernelOf(i) \in Kernels /\ kernels'[KernelOf(i)] = kernels[KernelOf(i)]
    BY <1>1, <2>1, KernelsOfCommands
  <2> QED BY <1>1, <2>1, <2>2 DEF QueueInv, KernelOf
<1>6. ASSUME NEW k \in Kernels, EnqueueNDRangeKernel(k) PROVE QueueInv'
  <2>1. /\ call = NoCall /\ kernels[k] \in KernelObject /\ latest = kernels[k].program
        /\ queue' \in Seq([kernel : Kernels, args : Seq(ArgSizes)])
        /\ Len(queue) \in Nat /\ Len(queue') = Len(queue) + 1
        /\ queue'[Len(queue) + 1].kernel = k /\ queue'[Len(queue) + 1].args = kernels[k].args
        /\ \A i \in 1 .. Len(queue) : queue'[i] = queue[i]
        /\ last' = k
        /\ UNCHANGED <<kernels, call, latest>>
    BY <1>6, EnqueueFacts DEF programVars
  <2>2. latest \in Programs
    BY <2>1 DEF KernelObject
  <2>3. \A i \in 1 .. Len(queue') : i \in 1 .. Len(queue) \/ i = Len(queue) + 1
    BY <2>1
  <2> QED BY <1>1, <2>1, <2>2, <2>3 DEF QueueInv, KernelOf
<1> QED BY <1>2, <1>3, <1>4, <1>5, <1>6, Kinds DEF Next, KernelCall

LEMMA BlockStep ==
  ASSUME Demos, IInv, Next
  PROVE  BlockInv'
<1>1. QueueInv /\ BlockInv
  BY DEF IInv
<1>2. CASE Quiet
  BY <1>1, <1>2 DEF BlockInv, Quiet, KernelOf
<1>3. CASE Completes
  <2>1. /\ Len(queue) \in Nat \ {0} /\ Len(queue') = Len(queue) - 1
        /\ \A i \in 1 .. Len(queue') :
             i + 1 \in 1 .. Len(queue) /\ queue'[i].kernel = KernelOf(i + 1)
        /\ kernels' = kernels
    BY <1>3, CompleteFacts DEF Completes, KernelOf
  <2>2. ASSUME NEW i \in 1 .. Len(queue'), NEW j \in 1 .. Len(queue'), NEW m \in 1 .. Len(queue'),
               i < j, j < m, queue'[i].kernel = queue'[m].kernel
        PROVE  queue'[j].kernel = queue'[i].kernel
    <3>1. i + 1 < j + 1 /\ j + 1 < m + 1 /\ i + 1 \in 1 .. Len(queue)
          /\ j + 1 \in 1 .. Len(queue) /\ m + 1 \in 1 .. Len(queue)
          /\ KernelOf(i + 1) = KernelOf(m + 1)
      BY <2>1, <2>2
    <3> QED BY <1>1, <2>1, <3>1 DEF BlockInv
  <2>3. ASSUME NEW i \in 1 .. Len(queue'), queue'[i].kernel # queue'[1].kernel
        PROVE  kernels[queue'[i].kernel].isNew
    <3>1. /\ i > 1 /\ 1 \in 1 .. Len(queue') /\ 1 \in 1 .. Len(queue) /\ 2 \in 1 .. Len(queue)
          /\ i + 1 \in 1 .. Len(queue) /\ 2 < i + 1
          /\ queue'[i].kernel = KernelOf(i + 1) /\ queue'[1].kernel = KernelOf(2)
      BY <2>1, <2>3
    <3>2. KernelOf(i + 1) # KernelOf(1)
      BY <1>1, <2>3, <3>1 DEF BlockInv
    <3> QED BY <1>1, <3>1, <3>2 DEF BlockInv
  <2> QED BY <2>1, <2>2, <2>3 DEF BlockInv, KernelOf
<1>4. CASE Transfers
  <2>1. /\ \A k \in Kernels : k # KernelOf(1) => kernels'[k] = kernels[k]
        /\ UNCHANGED queue
    BY <1>4, TransferFacts DEF Transfers
  <2>2. \A i \in 1 .. Len(queue) : KernelOf(i) \in Kernels
    BY <1>1, KernelsOfCommands
  <2> QED BY <1>1, <2>1, <2>2 DEF BlockInv, KernelOf
<1>5. ASSUME NEW k \in Kernels,
             \/ \E p \in Programs : CreateKernel(k, p)
             \/ ReleaseKernel(k)
             \/ \E i \in 1 .. MaxArgs, size \in ArgSizes : SetKernelArg(k, i, size)
      PROVE  BlockInv'
  <2>1. /\ \A i \in 1 .. Len(queue) : KernelOf(i) # k
        /\ \A j \in Kernels : j # k => kernels'[j] = kernels[j]
        /\ UNCHANGED queue
    BY <1>5, EditFacts
  <2>2. \A i \in 1 .. Len(queue) :
          KernelOf(i) \in Kernels /\ kernels'[KernelOf(i)] = kernels[KernelOf(i)]
    BY <1>1, <2>1, KernelsOfCommands
  <2> QED BY <1>1, <2>1, <2>2 DEF BlockInv, KernelOf
<1>6. ASSUME NEW k \in Kernels, EnqueueNDRangeKernel(k) PROVE BlockInv'
  <2> DEFINE n == Len(queue) + 1
  <2>1. /\ last = k \/ (kernels[k].isNew /\ \A i \in 1 .. Len(queue) : KernelOf(i) # k)
        /\ Len(queue) \in Nat /\ Len(queue') = n
        /\ queue'[n].kernel = k
        /\ \A i \in 1 .. Len(queue) : queue'[i].kernel = KernelOf(i)
        /\ kernels' = kernels
        /\ queue # <<>> => last = KernelOf(Len(queue))
    BY <1>1, <1>6, EnqueueFacts DEF QueueInv, KernelOf
  <2>2. queue \in Seq([kernel : Kernels, args : Seq(ArgSizes)])
    BY <1>1 DEF QueueInv
  <2>3. queue = <<>> <=> Len(queue) = 0
    BY <2>2
  <2>4. ASSUME NEW i \in 1 .. n, NEW j \in 1 .. n, NEW m \in 1 .. n,
               i < j, j < m, queue'[i].kernel = queue'[m].kernel
        PROVE  queue'[j].kernel = queue'[i].kernel
    <3>1. i \in 1 .. Len(queue) /\ j \in 1 .. Len(queue) /\ Len(queue) \in 1 .. Len(queue)
      BY <2>1, <2>4
    <3>2. CASE m \in 1 .. Len(queue)
      BY <1>1, <2>1, <2>4, <3>1, <3>2 DEF BlockInv
    <3>3. CASE m = n
      <4>1. KernelOf(i) = k /\ KernelOf(Len(queue)) = k
        BY <2>1, <2>3, <2>4, <3>1, <3>3
      <4>2. KernelOf(j) = k
        BY <1>1, <2>1, <2>4, <3>1, <4>1 DEF BlockInv
      <4> QED BY <2>1, <3>1, <4>1, <4>2
    <3> QED BY <2>1, <2>4, <3>2, <3>3
  <2>5. ASSUME NEW i \in 1 .. n, queue'[i].kernel # queue'[1].kernel
        PROVE  kernels[queue'[i].kernel].isNew
    <3>1. CASE i \in 1 .. Len(queue)
      BY <1>1, <2>1, <2>5, <3>1 DEF BlockInv
    <3>2. CASE i = n
      <4>1. Len(queue) \in 1 .. Len(queue) /\ 1 \in 1 .. Len(queue)
        BY <2>1, <2>5, <3>2
      <4> QED BY <1>1, <2>1, <2>3, <2>5, <3>2, <4>1 DEF BlockInv
    <3> QED BY <2>1, <3>1, <3>2
  <2> QED BY <2>1, <2>4, <2>5 DEF BlockInv, KernelOf
<1> QED BY <1>2, <1>3, <1>4, <1>5, <1>6, Kinds DEF Next, KernelCall

-----------------------------------------------------------------------------
(* What the device has and what the worker is about to give it. *)

LEMMA DeviceStep ==
  ASSUME Demos, IInv, Next
  PROVE  DeviceInv'
<1>1. QueueInv /\ BlockInv /\ DeviceInv /\ WorkerInv
  BY DEF IInv
<1>2. queue = <<>> <=> ~(1 \in 1 .. Len(queue))
  BY <1>1 DEF QueueInv
<1>3. CASE Quiet
  BY <1>1, <1>3 DEF DeviceInv, Quiet, Current, KernelOf, Built
<1>4. CASE Completes
  <2>1. /\ Len(queue) \in Nat \ {0} /\ Len(queue') = Len(queue) - 1
        /\ queue' # <<>> <=> Len(queue) > 1
        /\ \A i \in 1 .. Len(queue') :
             i + 1 \in 1 .. Len(queue) /\ queue'[i].kernel = KernelOf(i + 1)
        /\ UNCHANGED <<kernels, last, deviceImage>> /\ queue # <<>>
    BY <1>4, CompleteFacts DEF Completes, KernelOf
  <2>2. CASE queue' = <<>>
    <3>1. Len(queue) = 1 /\ last = KernelOf(1)
      BY <1>1, <2>1, <2>2 DEF QueueInv
    <3> QED BY <1>1, <2>1, <2>2, <3>1 DEF DeviceInv, Current, Built
  <2>3. CASE queue' # <<>>
    <3>1. 2 \in 1 .. Len(queue) /\ queue'[1].kernel = KernelOf(2)
      BY <2>1, <2>3
    <3>2. CASE KernelOf(2) = KernelOf(1)
      BY <1>1, <2>1, <2>3, <3>1, <3>2 DEF DeviceInv, Current, Built, KernelOf
    <3>3. CASE KernelOf(2) # KernelOf(1)
      <4>1. kernels[KernelOf(2)].isNew
        BY <1>1, <3>1, <3>3 DEF BlockInv
      <4> QED BY <2>1, <2>3, <3>1, <4>1 DEF DeviceInv, Current, KernelOf
    <3> QED BY <3>2, <3>3
  <2> QED BY <2>2, <2>3
<1>5. CASE Transfers
  <2>1. /\ deviceImage' = Built(KernelOf(1)) /\ queue' = queue /\ queue # <<>>
        /\ kernels'[KernelOf(1)].args = kernels[KernelOf(1)].args
        /\ kernels'[KernelOf(1)].program = kernels[KernelOf(1)].program
    BY <1>1, <1>5, TransferFacts DEF Transfers, WorkerInv
  <2> QED BY <2>1 DEF DeviceInv, Current, KernelOf, Built
<1>6. ASSUME NEW k \in Kernels,
             \/ \E p \in Programs : CreateKernel(k, p)
             \/ ReleaseKernel(k)
             \/ \E i \in 1 .. MaxArgs, size \in ArgSizes : SetKernelArg(k, i, size)
      PROVE  DeviceInv'
  <2>1. /\ \A i \in 1 .. Len(queue) : KernelOf(i) # k
        /\ \A j \in Kernels : j # k => kernels'[j] = kernels[j]
        /\ kernels'[k] = NoFile \/ kernels'[k].isNew
        /\ UNCHANGED <<queue, last, deviceImage>>
    BY <1>6, EditFacts DEF workerVars
  <2>2. Current' = Current
    BY <1>1, <1>2, <2>1, KernelsOfCommands DEF Current, QueueInv, KernelOf
  <2> QED BY <1>1, <2>1, <2>2 DEF DeviceInv, Built
<1>7. ASSUME NEW k \in Kernels, EnqueueNDRangeKernel(k) PROVE DeviceInv'
  <2>1. /\ last = k \/ kernels[k].isNew
        /\ Len(queue) \in Nat /\ queue' # <<>>
        /\ queue'[Len(queue) + 1].kernel = k
        /\ \A i \in 1 .. Len(queue) : queue'[i] = queue[i]
        /\ UNCHANGED <<kernels, deviceImage>>
    BY <1>7, EnqueueFacts DEF workerVars
  <2>2. CASE queue = <<>>
    BY <1>1, <2>1, <2>2 DEF DeviceInv, Current, KernelOf, Built
  <2>3. CASE queue # <<>>
    BY <1>1, <1>2, <2>1, <2>3 DEF DeviceInv, Current, KernelOf, Built
  <2> QED BY <2>2, <2>3
<1> QED BY <1>3, <1>4, <1>5, <1>6, <1>7, Kinds DEF Next, KernelCall

LEMMA WorkerStep ==
  ASSUME Demos, IInv, Next
  PROVE  WorkerInv'
<1>1. QueueInv /\ BlockInv /\ DeviceInv /\ WorkerInv /\ FileInv
  BY DEF IInv
<1>2. queue # <<>> =>
        /\ 1 \in 1 .. Len(queue) /\ Running = KernelOf(1) /\ KernelOf(1) \in Kernels
        /\ kernels[KernelOf(1)] \in KernelObject /\ kernels[KernelOf(1)].program = latest
        /\ call = NoCall /\ latest \in Programs /\ Current = KernelOf(1)
  BY <1>1, KernelsOfCommands DEF QueueInv, Current
<1>3. NoFile \notin KernelObject
  BY ObjectAssumption DEF KernelObject
<1>4. CASE ProgramCall
  BY <1>1, <1>4, ProgramCallFrame DEF WorkerInv, workerVars, KernelOf, Built
<1>5. ASSUME NEW k \in Kernels,
             \/ \E p \in Programs : CreateKernel(k, p)
             \/ ReleaseKernel(k)
             \/ \E i \in 1 .. MaxArgs, size \in ArgSizes : SetKernelArg(k, i, size)
      PROVE  WorkerInv'
  <2>1. /\ \A i \in 1 .. Len(queue) : KernelOf(i) # k
        /\ \A j \in Kernels : j # k => kernels'[j] = kernels[j]
        /\ UNCHANGED <<queue, workerVars>>
    BY <1>5, EditFacts
  <2>2. queue # <<>> => kernels'[KernelOf(1)] = kernels[KernelOf(1)]
    BY <1>2, <2>1
  <2> QED BY <1>1, <2>1, <2>2 DEF WorkerInv, workerVars, KernelOf, Built
<1>6. ASSUME NEW k \in Kernels, EnqueueNDRangeKernel(k) PROVE WorkerInv'
  <2>1. step = "idle" /\ UNCHANGED workerVars
    BY <1>6, EnqueueFacts
  <2> QED BY <2>1 DEF WorkerInv, workerVars
<1>7. CASE SetKernelArguments
  <2>1. /\ queue # <<>> /\ argsFile' = Offsets(kernels[Running].args)
        /\ step' = IF kernels[Running].isNew THEN "wrap" ELSE "start"
        /\ UNCHANGED <<kernels, queue, deviceImage>>
    BY <1>7 DEF SetKernelArguments, NeedsBuild
  <2>2. ~kernels[KernelOf(1)].isNew => deviceImage = Built(KernelOf(1))
    BY <1>1, <1>2, <1>3, <2>1 DEF DeviceInv
  <2> QED BY <1>2, <2>1, <2>2 DEF WorkerInv, KernelOf, Built
<1>8. CASE CreateWrapper
  <2>1. /\ step = "wrap" /\ wrapper' = [kernel |-> Running, offsets |-> argsFile]
        /\ step' = "link" /\ UNCHANGED <<kernels, queue>>
    BY <1>8 DEF CreateWrapper
  <2> QED BY <1>1, <1>2, <2>1 DEF WorkerInv, KernelOf, Built
<1>9. CASE CompileKernel
  <2>1. objectFile = latest /\ objectFile \notin {NoFile, Torn}
    BY <1>1, <1>2, <1>9, FileAssumption DEF FileInv, CompileKernel, WorkerInv, NoCall
  <2>2. /\ step = "link" /\ step' = "transfer" /\ UNCHANGED <<kernels, queue>>
        /\ image' = [kernel |-> wrapper.kernel, offsets |-> wrapper.offsets,
                     object |-> objectFile]
    BY <1>9, <2>1 DEF CompileKernel, Demos
  <2>3. wrapper = [kernel |-> KernelOf(1), offsets |-> Built(KernelOf(1)).offsets]
        /\ kernels[KernelOf(1)].isNew /\ queue # <<>>
    BY <1>1, <2>2 DEF WorkerInv
  <2>4. image' = Built(KernelOf(1))
    BY <1>2, <2>1, <2>2, <2>3 DEF Built
  <2> QED BY <2>2, <2>3, <2>4 DEF WorkerInv, KernelOf, Built
<1>10. CASE TransferKernel
  <2>1. CASE step' = "idle"
    BY <2>1 DEF WorkerInv
  <2>2. CASE step' # "idle"
    <3>1. Transfers /\ step' = "start"
      BY <1>1, <1>10, <2>2 DEF TransferKernel, Complete, Transfers, WorkerInv
    <3>2. /\ deviceImage' = Built(KernelOf(1)) /\ queue' = queue /\ queue # <<>>
          /\ kernels'[KernelOf(1)].args = kernels[KernelOf(1)].args
          /\ kernels'[KernelOf(1)].program = kernels[KernelOf(1)].program
      BY <1>1, <3>1, TransferFacts DEF Transfers, WorkerInv
    <3> QED BY <3>1, <3>2 DEF WorkerInv, KernelOf, Built
  <2> QED BY <2>1, <2>2
<1>11. CASE WrapperRefused \/ StartKernel
  <2>1. step' = "idle"
    BY <1>11 DEF WrapperRefused, StartKernel, Complete
  <2> QED BY <2>1 DEF WorkerInv
<1> QED BY <1>4, <1>5, <1>6, <1>7, <1>8, <1>9, <1>10, <1>11 DEF Next, KernelCall, Worker

-----------------------------------------------------------------------------
LEMMA InitInv == Init => IInv
<1> SUFFICES ASSUME Init PROVE IInv
  OBVIOUS
<1>1. ProgramInv
  BY DEF Init, ProgramInv
<1>2. FileInv /\ BinaryIsOwn
  BY DEF Init, FileInv, BinaryIsOwn, NoCall, Content
<1>3. QueueInv /\ BlockInv /\ WorkerInv
  BY DEF Init, QueueInv, BlockInv, WorkerInv
<1>4. DeviceInv
  BY DEF Init, DeviceInv, Current
<1> QED BY <1>1, <1>2, <1>3, <1>4 DEF IInv

LEMMA StutterInv == IInv /\ UNCHANGED vars => IInv'
BY DEF vars, programVars, workerVars, IInv, ProgramInv, FileInv, BinaryIsOwn, QueueInv, BlockInv,
       DeviceInv, WorkerInv, KernelOf, Built, Current

(* The invariant holds in every state of every execution.                  *)
THEOREM Invariance == Demos /\ Spec => []IInv
<1> SUFFICES ASSUME Demos PROVE Spec => []IInv
  OBVIOUS
<1>1. IInv /\ [Next]_vars => IInv'
  BY ProgramStep, FileStep, QueueStep, BlockStep, DeviceStep, WorkerStep, StutterInv DEF IInv
<1> QED BY InitInv, <1>1, PTL DEF Spec

(* Where gcc succeeds and the application has the habits of the demos, the *)
(* device runs each launch with the kernel, the arguments and the program  *)
(* it was enqueued with, through every interleaving of the worker's files  *)
(* with the application's.                                                 *)
THEOREM LaunchesAreAsEnqueued == Demos /\ Spec => []LaunchesAsEnqueued
<1>1. IInv => LaunchesAsEnqueued
  <2> SUFFICES ASSUME IInv, step = "start" PROVE LaunchesAsEnqueued
    BY DEF LaunchesAsEnqueued
  <2>1. deviceImage = Built(KernelOf(1)) /\ queue # <<>> /\ QueueInv
    BY DEF IInv, WorkerInv
  <2>2. Running = KernelOf(1) /\ queue[1].args = kernels[KernelOf(1)].args
    BY <2>1, KernelsOfCommands DEF QueueInv
  <2>3. Head(queue) = queue[1]
    BY <2>1 DEF QueueInv
  <2> QED BY <2>1, <2>2, <2>3 DEF Built, LaunchesAsEnqueued
<1> QED BY Invariance, <1>1, PTL

(* And what it reads back as a program's binary is this program's, whole.  *)
THEOREM BinariesAreOwn == Demos /\ Spec => []BinaryIsOwn
<1>1. IInv => BinaryIsOwn
  BY DEF IInv
<1> QED BY Invariance, <1>1, PTL

-----------------------------------------------------------------------------
(* Types.  They hold whatever the application does, and gcc.               *)

(* A set of numbers that is not empty has a least one. *)
LEMMA Least ==
  ASSUME NEW T, T \subseteq Nat, T # {}
  PROVE  \E x \in T : \A y \in T : x <= y
<1> DEFINE R == {ss \in Nat \X Nat : ss[1] < ss[2]}
<1>1. IsWellFoundedOn(R, Nat)
  BY NatLessThanWellFounded, Zenon DEF OpToRel
<1>2. \A x, y \in Nat : <<x, y>> \in R <=> x < y
  OBVIOUS
<1> HIDE DEF R
<1>3. PICK x \in T : \A y \in T : ~ (<<y, x>> \in R)
  BY <1>1, WFMin
<1>4. \A y \in T : y \in Nat /\ x \in Nat /\ ~(y < x)
  BY <1>2, <1>3
<1> QED BY <1>3, <1>4

(* What get_kernel_args has summed up before each of the first n arguments. *)
IsSums(g, args, n) ==
  g = [i \in 1 .. n |-> IF i = 1 THEN 0 ELSE g[i - 1] + args[i - 1]]

LEMMA SumsType ==
  ASSUME NEW args \in Seq(Nat), NEW n \in 0 .. Len(args), NEW g, IsSums(g, args, n)
  PROVE  /\ g \in Seq(Nat) /\ Len(g) = n
         /\ n > 0 => g[1] = 0
<1>1. /\ g = [i \in 1 .. n |-> g[i]]
      /\ \A i \in 1 .. n : i # 1 => g[i] = g[i - 1] + args[i - 1]
      /\ 1 \in 1 .. n => g[1] = 0
  <2>1. \A i \in 1 .. n : g[i] = IF i = 1 THEN 0 ELSE g[i - 1] + args[i - 1]
    BY Zenon DEF IsSums
  <2>2. g = [i \in 1 .. n |-> g[i]]
    BY <2>1, Zenon DEF IsSums
  <2> QED BY <2>1, <2>2, Zenon
<1>2. Len(args) \in Nat /\ n \in Nat /\ \A i \in 1 .. Len(args) : args[i] \in Nat
  OBVIOUS
<1>3. \A i \in 1 .. n : g[i] \in Nat
  <2> DEFINE T == {i \in 1 .. n : g[i] \notin Nat}
  <2> SUFFICES ASSUME T # {} PROVE FALSE
    OBVIOUS
  <2>1. PICK x \in T : \A y \in T : x <= y
    <3>1. T \subseteq Nat
      OBVIOUS
    <3> HIDE DEF T
    <3> QED BY <3>1, Least
  <2>2. x \in 1 .. n /\ g[x] \notin Nat
    OBVIOUS
  <2>3. x # 1
    BY <1>1, <2>2
  <2>4. x - 1 \in 1 .. n /\ x - 1 \in 1 .. Len(args) /\ ~(x <= x - 1)
    BY <2>2, <2>3, <1>2
  <2>5. x - 1 \notin T
    <3> HIDE DEF T
    <3> QED BY <2>1, <2>4, Zenon
  <2>6. g[x - 1] \in Nat /\ args[x - 1] \in Nat
    BY <2>4, <2>5, <1>2, Zenon
  <2>7. g[x] = g[x - 1] + args[x - 1]
    BY <1>1, <2>2, <2>3, Zenon
  <2>8. \A a, b \in Nat : a + b \in Nat
    OBVIOUS
  <2> QED BY <2>2, <2>6, <2>7, <2>8, Zenon
<1>4. g \in [1 .. n -> Nat]
  <2> \A f : f = [i \in 1 .. n |-> f[i]] /\ (\A i \in 1 .. n : f[i] \in Nat) => f \in [1 .. n -> Nat]
    BY Zenon
  <2> QED BY <1>1, <1>3, Zenon
<1>5. g \in Seq(Nat) /\ Len(g) = n
  BY <1>2, <1>4
<1> QED BY <1>1, <1>2, <1>5

LEMMA SumsExist ==
  ASSUME NEW args \in Seq(Nat)
  PROVE  \E g : IsSums(g, args, Len(args))
<1> DEFINE T == {n \in 0 .. Len(args) : ~ \E g : IsSums(g, args, n)}
<1>0. Len(args) \in Nat
  OBVIOUS
<1>1. T = {}
  <2> SUFFICES ASSUME T # {} PROVE FALSE
    OBVIOUS
  <2>1. PICK n \in T : \A m \in T : n <= m
    <3>1. T \subseteq Nat
      BY <1>0
    <3> HIDE DEF T
    <3> QED BY <3>1, Least
  <2>2. n \in 0 .. Len(args) /\ ~ \E g : IsSums(g, args, n)
    OBVIOUS
  <2>3. n # 0
    <3>1. \A g : <<>> = [i \in 1 .. 0 |-> g[i]]
      OBVIOUS
    <3>2. IsSums(<<>>, args, 0)
      BY DEF IsSums
    <3> QED BY <2>2, <3>2
  <2>4. n - 1 \in 0 .. Len(args) /\ n \in Nat \ {0} /\ ~(n <= n - 1)
    BY <2>2, <2>3, <1>0
  <2>5. n - 1 \notin T
    <3> HIDE DEF T
    <3> QED BY <2>1, <2>4, Zenon
  <2>6. PICK g : IsSums(g, args, n - 1)
    BY <2>4, <2>5, Zenon
  <2> DEFINE h == [i \in 1 .. n |->
                     IF i < n THEN g[i] ELSE IF n = 1 THEN 0 ELSE g[n - 1] + args[n - 1]]
  <2>7. \A i \in 1 .. n - 1 : g[i] = IF i = 1 THEN 0 ELSE g[i - 1] + args[i - 1]
    BY <2>6, Zenon DEF IsSums
  <2>8. \A i \in 1 .. n : h[i] = IF i = 1 THEN 0 ELSE h[i - 1] + args[i - 1]
    BY <2>4, <2>7
  <2>9. h = [i \in 1 .. n |-> h[i]]
    OBVIOUS
  <2> HIDE DEF h
  <2>10. IsSums(h, args, n)
    BY <2>8, <2>9, Zenon DEF IsSums
  <2> QED BY <2>2, <2>10, Zenon
<1>2. Len(args) \in 0 .. Len(args)
  BY <1>0
<1> QED BY <1>1, <1>2, Zenon

(* The offsets are numbers, as many as there are arguments, the first 0. *)
LEMMA OffsetsType ==
  ASSUME NEW args \in Seq(Nat)
  PROVE  /\ Offsets(args) \in Seq(Nat) /\ Len(Offsets(args)) = Len(args)
         /\ Len(args) > 0 => Offsets(args)[1] = 0
<1>1. DOMAIN args = 1 .. Len(args) /\ Len(args) \in 0 .. Len(args)
  OBVIOUS
<1>2. Offsets(args) = CHOOSE g : IsSums(g, args, Len(args))
  BY <1>1, Zenon DEF Offsets, IsSums
<1>3. IsSums(Offsets(args), args, Len(args))
  BY <1>2, SumsExist, Zenon
<1> QED BY <1>1, <1>3, SumsType

-----------------------------------------------------------------------------
(* The type invariant.  A call that is on has its program, a worker that   *)
(* is not idle its command, and the file the step before has written.      *)

KernelType == [program : Programs, args : Args, isNew : BOOLEAN]

ProgramType ==
  /\ programs \in [Programs -> {NoFile} \cup ProgramObject]
  /\ objectFile \in Content \cup {NoFile}
  /\ saved \in [Programs -> Content \cup {NoFile}]
  /\ latest \in Programs \cup {NoFile}
  /\ call \in {NoCall} \cup [op : {"store", "build", "measure"}, program : Programs]
  /\ call.op \in {"build", "measure"} => programs[call.program] \in ProgramObject

QueueType ==
  /\ kernels \in [Kernels -> {NoFile} \cup KernelType]
  /\ queue \in Seq([kernel : Kernels, args : Args]) /\ Len(queue) <= MaxPending
  /\ last \in Kernels \cup {NoFile}

WorkerType ==
  /\ step \in {"idle", "wrap", "link", "transfer", "start"}
  /\ step # "idle" => queue # <<>>
  /\ argsFile = NoFile \/ IsOffsets(argsFile)
  /\ step = "wrap" => IsOffsets(argsFile)
  /\ wrapper = NoFile \/ IsWrapper(wrapper)
  /\ step = "link" => IsWrapper(wrapper)
  /\ image = NoFile \/ IsImage(image)
  /\ deviceImage = NoFile \/ IsImage(deviceImage)

TInv == ProgramType /\ QueueType /\ WorkerType

LEMMA BoundedFacts ==
  ASSUME NEW S, NEW n \in Nat, NEW s
  PROVE  s \in BoundedSeq(S, n) <=> s \in Seq(S) /\ Len(s) <= n
<1>1. ASSUME s \in BoundedSeq(S, n) PROVE s \in Seq(S) /\ Len(s) <= n
  <2>1. PICK m \in 0 .. n : s \in [1 .. m -> S]
    BY <1>1 DEF BoundedSeq, SeqOf
  <2> QED BY <2>1
<1>2. ASSUME s \in Seq(S), Len(s) <= n PROVE s \in BoundedSeq(S, n)
  <2>1. Len(s) \in 0 .. n /\ s \in [1 .. Len(s) -> S]
    BY <1>2
  <2>2. \A m \in 0 .. n : s \in [1 .. m -> S] => s \in UNION {[1 .. i -> S] : i \in 0 .. n}
    BY Zenon
  <2> QED BY <2>1, <2>2, Zenon DEF BoundedSeq, SeqOf
<1> QED BY <1>1, <1>2

LEMMA ArgsFacts == \A s : s \in Args <=> s \in Seq(ArgSizes) /\ Len(s) <= MaxArgs
<1> SUFFICES ASSUME NEW s PROVE s \in Args <=> s \in Seq(ArgSizes) /\ Len(s) <= MaxArgs
  OBVIOUS
<1> QED BY BoundedFacts, ArgsAssumption DEF Args

(* Arguments are set one after another. *)
LEMMA ArgsSet ==
  ASSUME NEW args \in Args, NEW index \in 1 .. MaxArgs, NEW size \in ArgSizes,
         index \in 1 .. Len(args) + 1
  PROVE  (IF index <= Len(args) THEN [args EXCEPT ![index] = size] ELSE Append(args, size)) \in Args
<1>1. args \in Seq(ArgSizes) /\ Len(args) \in Nat /\ Len(args) <= MaxArgs /\ MaxArgs \in Nat
  BY ArgsFacts, ArgsAssumption
<1>2. \A s : s \in Seq(ArgSizes) /\ Len(s) <= MaxArgs => s \in Args
  BY ArgsFacts
<1>3. CASE index <= Len(args)
  <2>1. /\ [args EXCEPT ![index] = size] \in Seq(ArgSizes)
        /\ Len([args EXCEPT ![index] = size]) = Len(args)
    BY <1>1, <1>3
  <2> QED BY <1>1, <1>2, <1>3, <2>1
<1>4. CASE ~(index <= Len(args))
  <2>1. Append(args, size) \in Seq(ArgSizes) /\ Len(Append(args, size)) = Len(args) + 1
    BY <1>1
  <2>2. Len(args) + 1 <= MaxArgs
    BY <1>1, <1>4
  <2> QED BY <1>2, <1>4, <2>1, <2>2
<1> QED BY <1>3, <1>4

LEMMA OffsetsOfArgs == \A args \in Args : IsOffsets(Offsets(args))
<1> SUFFICES ASSUME NEW args \in Args PROVE IsOffsets(Offsets(args))
  OBVIOUS
<1>1. args \in Seq(Nat) /\ Len(args) \in Nat /\ Len(args) <= MaxArgs
  <2>1. args \in Seq(ArgSizes) /\ Len(args) <= MaxArgs
    BY ArgsFacts
  <2>2. \A i \in 1 .. Len(args) : args[i] \in ArgSizes
    BY <2>1
  <2>3. \A i \in 1 .. Len(args) : args[i] \in Nat
    BY <2>2, ArgsAssumption, Zenon
  <2> QED BY <2>1, <2>3
<1> DEFINE o == Offsets(args)
<1>2. o \in Seq(Nat) /\ Len(o) = Len(args) /\ (Len(args) > 0 => o[1] = 0)
  BY <1>1, OffsetsType
<1> HIDE DEF o
<1>3. o # <<>> => Len(args) > 0
  BY <1>1, <1>2
<1>4. IsOffsets(o)
  BY <1>1, <1>2, <1>3 DEF IsOffsets
<1> QED BY <1>4 DEF o

LEMMA TypeInit == Init => TInv
<1> SUFFICES ASSUME Init PROVE TInv
  OBVIOUS
<1> USE DEF Init
<1>1. saved \in [Programs -> Content \cup {NoFile}]
  BY DEF Content
<1>2. ProgramType
  BY <1>1 DEF ProgramType, NoCall
<1>3. QueueType
  BY PendingAssumption DEF QueueType
<1>4. WorkerType
  BY DEF WorkerType
<1> QED BY <1>2, <1>3, <1>4 DEF TInv

LEMMA ProgramTypeStep ==
  ASSUME ProgramType, ProgramCall
  PROVE  ProgramType'
<1>1. /\ \A p \in Programs : p # NoFile /\ p # Torn
      /\ call.op \in {"store", "build", "measure"} => call.program \in Programs
      /\ NoCall.op = "none"
  BY FileAssumption DEF ProgramType, NoCall
<1> USE DEF ProgramType, ProgramObject, Content
<1>2. ASSUME NEW p \in Programs, CreateWithSource(p) PROVE ProgramType'
  BY <1>1, <1>2 DEF CreateWithSource, Idle
<1>3. ASSUME NEW p \in Programs, CreateWithBinary(p) PROVE ProgramType'
  BY <1>1, <1>3 DEF CreateWithBinary
<1>4. ASSUME StoreBinary PROVE ProgramType'
  BY <1>1, <1>4 DEF StoreBinary
<1>5. ASSUME NEW p \in Programs, BuildFromBinary(p) PROVE ProgramType'
  BY <1>1, <1>5 DEF BuildFromBinary, Idle
<1>6. ASSUME NEW p \in Programs, BuildFromSource(p) PROVE ProgramType'
  BY <1>1, <1>6 DEF BuildFromSource
<1>7. ASSUME BuildRefused PROVE ProgramType'
  BY <1>1, <1>7 DEF BuildRefused
<1>8. ASSUME RunScript PROVE ProgramType'
  BY <1>1, <1>8 DEF RunScript
<1>9. ASSUME MeasureBinary PROVE ProgramType'
  BY <1>1, <1>9 DEF MeasureBinary
<1>10. ASSUME NEW p \in Programs, GetBinary(p) PROVE ProgramType'
  BY <1>1, <1>10 DEF GetBinary
<1>11. ASSUME NEW p \in Programs, ReleaseProgram(p) PROVE ProgramType'
  BY <1>1, <1>11 DEF ReleaseProgram, Idle
<1> QED
  BY <1>2, <1>3, <1>4, <1>5, <1>6, <1>7, <1>8, <1>9, <1>10, <1>11, Zenon DEF ProgramCall

LEMMA KernelTypeStep ==
  ASSUME QueueType, KernelCall
  PROVE  QueueType' /\ (queue # <<>> => queue' # <<>>)
<1>1. /\ \A k \in Kernels : kernels[k] # NoFile => kernels[k] \in KernelType
      /\ kernels \in [Kernels -> {NoFile} \cup KernelType] /\ last \in Kernels \cup {NoFile}
      /\ queue \in Seq([kernel : Kernels, args : Args]) /\ Len(queue) <= MaxPending
      /\ Len(queue) \in Nat /\ MaxPending \in Nat
  BY PendingAssumption DEF QueueType
<1>2. ASSUME NEW k \in Kernels, NEW p \in Programs, CreateKernel(k, p)
      PROVE  kernels' \in [Kernels -> {NoFile} \cup KernelType] /\ UNCHANGED <<queue, last>>
  <2>1. <<>> \in Args
    <3> <<>> \in Seq(ArgSizes) /\ Len(<<>>) <= MaxArgs
      BY ArgsAssumption
    <3> QED BY ArgsFacts
  <2>2. [program |-> p, args |-> <<>>, isNew |-> TRUE] \in KernelType
    BY <2>1 DEF KernelType
  <2> QED BY <1>1, <1>2, <2>2 DEF CreateKernel
<1>3. ASSUME NEW k \in Kernels, ReleaseKernel(k)
      PROVE  kernels' \in [Kernels -> {NoFile} \cup KernelType] /\ UNCHANGED <<queue, last>>
  BY <1>1, <1>3 DEF ReleaseKernel
<1>4. ASSUME NEW k \in Kernels, NEW i \in 1 .. MaxArgs, NEW size \in ArgSizes,
             SetKernelArg(k, i, size)
      PROVE  kernels' \in [Kernels -> {NoFile} \cup KernelType] /\ UNCHANGED <<queue, last>>
  <2> DEFINE args == kernels[k].args
             new == IF i <= Len(args) THEN [args EXCEPT ![i] = size] ELSE Append(args, size)
  <2>1. kernels[k] \in KernelType /\ args \in Args /\ i \in 1 .. Len(args) + 1
    BY <1>1, <1>4 DEF SetKernelArg, KernelType
  <2>2. new \in Args
    BY <2>1, ArgsSet
  <2>3. kernels' = [kernels EXCEPT ![k].args = new] /\ UNCHANGED <<queue, last>>
    BY <1>4 DEF SetKernelArg
  <2> HIDE DEF new, args
  <2> QED BY <1>1, <2>1, <2>2, <2>3 DEF KernelType
<1>5. ASSUME NEW k \in Kernels, EnqueueNDRangeKernel(k)
      PROVE  /\ queue' \in Seq([kernel : Kernels, args : Args]) /\ Len(queue') <= MaxPending
             /\ queue' # <<>> /\ last' \in Kernels /\ UNCHANGED kernels
  <2>1. kernels[k] \in KernelType /\ Len(queue) < MaxPending
    BY <1>1, <1>5 DEF EnqueueNDRangeKernel
  <2> DEFINE e == [kernel |-> k, args |-> kernels[k].args]
  <2>2. e \in [kernel : Kernels, args : Args]
    BY <2>1 DEF KernelType
  <2>3. queue' = Append(queue, e) /\ last' = k /\ UNCHANGED kernels
    BY <1>5 DEF EnqueueNDRangeKernel
  <2> HIDE DEF e
  <2>4. /\ Append(queue, e) \in Seq([kernel : Kernels, args : Args]) /\ Append(queue, e) # <<>>
        /\ Len(Append(queue, e)) = Len(queue) + 1
    BY <1>1, <2>2, AppendFacts
  <2> QED BY <1>1, <2>1, <2>3, <2>4
<1> QED
  BY <1>1, <1>2, <1>3, <1>4, <1>5 DEF KernelCall, QueueType

LEMMA WorkerTypeStep ==
  ASSUME ProgramType, QueueType, WorkerType, Worker
  PROVE  QueueType' /\ WorkerType'
<1>1. /\ queue # <<>> => Running \in Kernels
      /\ queue # <<>> => /\ Tail(queue) \in Seq([kernel : Kernels, args : Args])
                        /\ Len(Tail(queue)) <= MaxPending
      /\ \A k \in Kernels : kernels[k] # NoFile => kernels[k] \in KernelType
  <2>1. ASSUME queue # <<>>
        PROVE  /\ Running \in Kernels /\ Tail(queue) \in Seq([kernel : Kernels, args : Args])
               /\ Len(Tail(queue)) <= MaxPending
    <3>1. /\ Head(queue) = queue[1] /\ Len(queue) \in Nat \ {0}
          /\ Tail(queue) \in Seq([kernel : Kernels, args : Args])
          /\ Len(Tail(queue)) = Len(queue) - 1 /\ Len(queue) <= MaxPending
      BY <2>1, TailFacts DEF QueueType
    <3>2. queue[1] \in [kernel : Kernels, args : Args]
      <4> 1 \in 1 .. Len(queue) /\ queue \in Seq([kernel : Kernels, args : Args])
        BY <3>1 DEF QueueType
      <4> QED BY ElementOfSeq
    <3> QED BY <3>1, <3>2, PendingAssumption DEF Running
  <2> QED BY <2>1 DEF QueueType
<1>2. ASSUME SetKernelArguments PROVE QueueType' /\ WorkerType'
  <2>1. kernels[Running] \in KernelType
    BY <1>1, <1>2 DEF SetKernelArguments
  <2>2. IsOffsets(Offsets(kernels[Running].args))
    BY <2>1, OffsetsOfArgs DEF KernelType
  <2> QED BY <1>2, <2>2 DEF SetKernelArguments, QueueType, WorkerType
<1>3. ASSUME CreateWrapper PROVE QueueType' /\ WorkerType'
  <2>1. Running \in Kernels /\ IsOffsets(argsFile)
    BY <1>1, <1>3 DEF CreateWrapper, WorkerType
  <2>2. IsWrapper([kernel |-> Running, offsets |-> argsFile])
    BY <2>1 DEF IsWrapper
  <2> QED BY <1>3, <2>2 DEF CreateWrapper, QueueType, WorkerType
<1>4. ASSUME WrapperRefused PROVE QueueType' /\ WorkerType'
  BY <1>1, <1>4 DEF WrapperRefused, Complete, QueueType, WorkerType
<1>5. ASSUME CompileKernel PROVE QueueType' /\ WorkerType'
  <2> DEFINE linked == [kernel |-> wrapper.kernel, offsets |-> wrapper.offsets,
                        object |-> objectFile]
  <2>1. objectFile \notin {NoFile, Torn} => IsImage(linked)
    BY <1>5 DEF CompileKernel, WorkerType, ProgramType, Content, IsImage, IsWrapper
  <2>2. image' = image \/ (objectFile \notin {NoFile, Torn} /\ image' = linked)
    BY <1>5 DEF CompileKernel
  <2> HIDE DEF linked
  <2> QED BY <1>5, <2>1, <2>2 DEF CompileKernel, QueueType, WorkerType
<1>6. ASSUME TransferKernel PROVE QueueType' /\ WorkerType'
  <2>1. queue # <<>> /\ Running \in Kernels /\ kernels[Running] \in KernelType
    BY <1>1, <1>6 DEF TransferKernel, WorkerType
  <2>2. CASE image = NoFile
    BY <1>1, <1>6, <2>1, <2>2 DEF TransferKernel, Complete, QueueType, WorkerType
  <2>3. CASE image # NoFile
    <3>1. kernels' \in [Kernels -> {NoFile} \cup KernelType]
      BY <1>6, <2>1, <2>3 DEF TransferKernel, QueueType, KernelType
    <3> QED BY <1>6, <2>1, <2>3, <3>1 DEF TransferKernel, QueueType, WorkerType
  <2> QED BY <2>2, <2>3
<1>7. ASSUME StartKernel PROVE QueueType' /\ WorkerType'
  BY <1>1, <1>7 DEF StartKernel, Complete, QueueType, WorkerType
<1> QED BY <1>2, <1>3, <1>4, <1>5, <1>6, <1>7 DEF Worker

LEMMA TypeStep == TInv /\ [Next]_vars => TInv'
<1> SUFFICES ASSUME TInv, [Next]_vars PROVE TInv'
  OBVIOUS
<1> USE DEF TInv
<1>1. ASSUME ProgramCall PROVE TInv'
  <2>1. ProgramType'
    BY <1>1, ProgramTypeStep
  <2>2. UNCHANGED <<kernels, queue, last, workerVars>>
    BY <1>1 DEF ProgramCall, CreateWithSource, CreateWithBinary, BuildFromBinary,
                BuildFromSource, GetBinary, ReleaseProgram, StoreBinary, BuildRefused,
                RunScript, MeasureBinary
  <2> QED BY <2>1, <2>2 DEF QueueType, WorkerType, workerVars
<1>2. ASSUME KernelCall PROVE TInv'
  <2>1. QueueType' /\ (queue # <<>> => queue' # <<>>)
    BY <1>2, KernelTypeStep
  <2>2. UNCHANGED <<programVars, workerVars>>
    BY <1>2, KernelCallFrame
  <2> QED BY <2>1, <2>2 DEF ProgramType, WorkerType, workerVars, programVars
<1>3. ASSUME Worker PROVE TInv'
  <2>1. QueueType' /\ WorkerType'
    BY <1>3, WorkerTypeStep
  <2>2. UNCHANGED programVars
    BY <1>3, WorkerFrame
  <2> QED BY <2>1, <2>2 DEF ProgramType, programVars
<1>4. CASE UNCHANGED vars
  BY <1>4 DEF ProgramType, QueueType, WorkerType, vars, programVars, workerVars
<1> QED BY <1>1, <1>2, <1>3, <1>4 DEF Next

(* The build files, the program and kernel objects and the commands have   *)
(* their types, whatever the application does and whether gcc fails or     *)
(* not; in particular kernelwrapper.c and kernel.so are only ever made     *)
(* from offsets that begin with 0, and kernel.so from a whole program.o.   *)
THEOREM TypeCorrect == Spec => []TypeOK
<1>1. TInv => TypeOK
  <2> SUFFICES ASSUME TInv PROVE TypeOK
    OBVIOUS
  <2>1. queue \in BoundedSeq([kernel : Kernels, args : Args], MaxPending)
    BY BoundedFacts, PendingAssumption DEF TInv, QueueType
  <2>2. \A p \in Programs : programs[p] = NoFile \/ programs[p] \in ProgramObject
    BY DEF TInv, ProgramType
  <2>3. \A k \in Kernels : kernels[k] = NoFile \/ kernels[k] \in KernelType
    BY DEF TInv, QueueType
  <2>4. call = NoCall \/ call \in [op : {"store", "build", "measure"}, program : Programs]
    BY DEF TInv, ProgramType
  <2> QED
    BY <2>1, <2>2, <2>3, <2>4, Zenon
    DEF TInv, ProgramType, QueueType, WorkerType, TypeOK, ProgramObject, KernelType
<1> QED BY <1>1, TypeInit, TypeStep, PTL DEF Spec

=============================================================================
