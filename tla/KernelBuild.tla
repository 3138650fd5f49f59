---------------------------- MODULE KernelBuild ----------------------------
(***************************************************************************)
(* How a kernel's code comes about: programs are created and built by the  *)
(* application (cl_program.c), kernels are compiled around them by the     *)
(* queue's worker when their first command is dispatched (cl_kernel.c and  *)
(* cl_cqueue.c with the scripts).  The two meet in files of the working    *)
(* directory that exist once for all programs and kernels: program.o,      *)
(* kernelargs, kernelwrapper.c and kernel.so.                              *)
(*                                                                         *)
(* The content of program.o is named after the program it was built from.  *)
(* A source text has one binary, which the application may also have kept  *)
(* from an earlier run.  The transfer of kernel.so and the launch are one  *)
(* step each; HostDevice has them in detail.                               *)
(***************************************************************************)
EXTENDS Naturals, SequencesExt

CONSTANTS
  Programs,     \* program objects; each has a source of its own
  Kernels,      \* kernel objects
  ArgSizes,     \* values of arg_size
  MaxArgs,      \* bound on the arguments of a kernel
  MaxPending,   \* bound on the commands in the queue
  GccOutcomes,  \* "built", and "nothing" where gcc may fail, which neither
                \* script reports
  Orderly,      \* the application keeps the habits below
  NoFile,       \* there is no such file, object or image
  Torn          \* a file that is being written, or part of one

ASSUME ArgsAssumption == ArgSizes \subseteq Nat /\ MaxArgs \in Nat
ASSUME PendingAssumption == MaxPending \in Nat
ASSUME GccAssumption == GccOutcomes \subseteq {"built", "nothing"}
ASSUME HabitsAssumption == Orderly \in BOOLEAN
ASSUME FileAssumption == NoFile # Torn /\ {NoFile, Torn} \cap Programs = {}
ASSUME ObjectAssumption ==
  NoFile \notin [program : Programs, args : Seq(ArgSizes), isNew : BOOLEAN]

VARIABLES
  programs,     \* program objects: status, createdWithBinary and, for its
                \* binarySize, whose binary was measured
  objectFile,   \* program.o
  saved,        \* what the application has of each program's binary
  call,         \* the call of clBuildProgram or clCreateProgramWithBinary
                \* that is on
  kernels,      \* kernel objects: the sizes of their arguments, isNew; and,
                \* which the code does not keep, the program
  queue,        \* commands to run a kernel; the first may be in dispatch
  step,         \* where the worker is in it
  argsFile,     \* kernelargs
  wrapper,      \* kernelwrapper.c
  image,        \* kernel.so of the host
  deviceImage,  \* kernel.so of the device
  latest,       \* the program whose creation or build was last to end well
                \* after writing program.o
  last          \* the kernel enqueued last

programVars == <<programs, objectFile, saved, call, latest>>
workerVars == <<step, argsFile, wrapper, image, deviceImage>>
vars == <<programVars, kernels, queue, last, workerVars>>

NoCall == [op |-> "none"]

Init ==
  /\ programs = [p \in Programs |-> NoFile]
  /\ objectFile = NoFile
  /\ saved \in {s \in [Programs -> Programs \cup {NoFile}] :
                 \A p \in Programs : s[p] \in {p, NoFile}}
  /\ call = NoCall
  /\ kernels = [k \in Kernels |-> NoFile]
  /\ queue = <<>>
  /\ step = "idle"
  /\ argsFile = NoFile
  /\ wrapper = NoFile
  /\ image = NoFile
  /\ deviceImage = NoFile
  /\ latest = NoFile
  /\ last = NoFile

-----------------------------------------------------------------------------
(* What the demos do and the runtime depends on: the application has one   *)
(* program at a time and runs only its kernels, after it was built; it     *)
(* calls clFinish before it touches program.o or a kernel object, sets the *)
(* arguments of a kernel before its first launch, and runs no kernel again *)
(* after another one.                                                      *)
OneProgram == Orderly => \A p \in Programs : programs[p] = NoFile
Settled == Orderly => queue = <<>>
Idle == call = NoCall

(* clCreateProgramWithSource copies the source. *)
CreateWithSource(p) ==
  /\ Idle
  /\ OneProgram
  /\ programs[p] = NoFile
  /\ programs' = [programs EXCEPT ![p] =
                    [status |-> "none", createdWithBinary |-> FALSE, binary |-> NoFile]]
  /\ UNCHANGED <<objectFile, saved, call, latest, kernels, queue, last, workerVars>>

(* clCreateProgramWithBinary truncates program.o when it opens it, ...     *)
CreateWithBinary(p) ==
  /\ Idle
  /\ OneProgram /\ Settled
  /\ programs[p] = NoFile
  /\ saved[p] # NoFile
  /\ objectFile' = Torn
  /\ call' = [op |-> "store", program |-> p]
  /\ UNCHANGED <<programs, saved, latest, kernels, queue, last, workerVars>>

(* ... and has written it when it closes it. *)
StoreBinary ==
  /\ call.op = "store"
  /\ LET p == call.program IN
       /\ objectFile' = saved[p]
       /\ programs' = [programs EXCEPT ![p] =
                         [status |-> "none", createdWithBinary |-> TRUE, binary |-> saved[p]]]
       /\ latest' = p
  /\ call' = NoCall
  /\ UNCHANGED <<saved, kernels, queue, last, workerVars>>

(* clBuildProgram looks at no file for a program created with a binary. *)
BuildFromBinary(p) ==
  /\ Idle
  /\ programs[p] # NoFile
  /\ programs[p].createdWithBinary
  /\ programs' = [programs EXCEPT ![p].status = "success"]
  /\ UNCHANGED <<objectFile, saved, call, latest, kernels, queue, last, workerVars>>

BuildFromSource(p) ==
  /\ Idle
  /\ Settled
  /\ programs[p] # NoFile
  /\ ~programs[p].createdWithBinary
  /\ programs' = [programs EXCEPT ![p].status = "in_progress"]
  /\ call' = [op |-> "build", program |-> p]
  /\ UNCHANGED <<objectFile, saved, latest, kernels, queue, last, workerVars>>

(* tmp.options or tmp.cl cannot be opened. *)
BuildRefused ==
  /\ call.op = "build"
  /\ programs' = [programs EXCEPT ![call.program].status = "error"]
  /\ call' = NoCall
  /\ UNCHANGED <<objectFile, saved, latest, kernels, queue, last, workerVars>>

(* buildprogram.sh moves what gcc has built to program.o; where gcc fails  *)
(* there is nothing to move, and its exit status is 0 all the same.        *)
RunScript_NoMove ==
  /\ call.op = "build"
  /\ call' = [call EXCEPT !.op = "measure"]
  /\ UNCHANGED <<objectFile, programs, saved, latest, kernels, queue, last, workerVars>>
RunScript ==
  /\ call.op = "build"
  /\ \E gcc \in GccOutcomes :
       objectFile' = IF gcc = "built" THEN call.program ELSE objectFile
  /\ call' = [call EXCEPT !.op = "measure"]
  /\ UNCHANGED <<programs, saved, latest, kernels, queue, last, workerVars>>

(* The end of clBuildProgram: the size of whatever program.o there is. *)
MeasureBinary ==
  /\ call.op = "measure"
  /\ LET p == call.program IN
       IF objectFile = NoFile
         THEN /\ programs' = [programs EXCEPT ![p].status = "error"]
              /\ UNCHANGED latest
         ELSE /\ programs' = [programs EXCEPT ![p].status = "success", ![p].binary = objectFile]
              /\ latest' = p
  /\ call' = NoCall
  /\ UNCHANGED <<objectFile, saved, kernels, queue, last, workerVars>>

(* clGetProgramInfo, CL_PROGRAM_BINARIES: as many bytes of program.o as    *)
(* were measured for this program.  Another program's file, if it is not   *)
(* shorter, is handed out whole or in part.                                *)
GetBinary(p) ==
  /\ Idle
  /\ Orderly => latest = p
  /\ programs[p] # NoFile
  /\ programs[p].status = "success"
  /\ \E b \in {objectFile} \cup (IF objectFile = programs[p].binary THEN {} ELSE {Torn}) :
       saved' = [saved EXCEPT ![p] = b]
  /\ UNCHANGED <<programs, objectFile, call, latest, kernels, queue, last, workerVars>>

(* The last reference to a program is released: program.o stays. *)
ReleaseProgram(p) ==
  /\ Idle
  /\ programs[p] # NoFile
  /\ programs' = [programs EXCEPT ![p] = NoFile]
  /\ UNCHANGED <<objectFile, saved, call, latest, kernels, queue, last, workerVars>>

-----------------------------------------------------------------------------
(* A kernel object has a name, which may be that of a kernel in another    *)
(* program too.                                                            *)
CreateKernel(k, p) ==
  /\ Idle
  /\ programs[p] # NoFile
  /\ kernels[k] = NoFile
  /\ kernels' = [kernels EXCEPT ![k] = [program |-> p, args |-> <<>>, isNew |-> TRUE]]
  /\ UNCHANGED <<programVars, queue, last, workerVars>>

SetKernelArg(k, index, size) ==
  /\ Idle
  /\ kernels[k] # NoFile
  /\ Orderly => queue = <<>> /\ kernels[k].isNew
  /\ index \in 1 .. Len(kernels[k].args) + 1
  /\ kernels' = [kernels EXCEPT ![k].args =
                   IF index <= Len(@) THEN [@ EXCEPT ![index] = size] ELSE Append(@, size)]
  /\ UNCHANGED <<programVars, queue, last, workerVars>>

(* The last reference to a kernel is released.  Commands hold none. *)
ReleaseKernel(k) ==
  /\ Idle
  /\ Settled
  /\ kernels[k] # NoFile
  /\ kernels' = [kernels EXCEPT ![k] = NoFile]
  /\ UNCHANGED <<programVars, queue, last, workerVars>>

(* clEnqueueNDRangeKernel keeps the pointer to the kernel object.  The     *)
(* arguments in the command record what they were when it was enqueued;    *)
(* no step of the program reads them.  The worker holds queue_mutex while  *)
(* it dispatches.                                                          *)
EnqueueNDRangeKernel(k) ==
  /\ Idle
  /\ step = "idle"
  /\ kernels[k] # NoFile
  /\ Len(queue) < MaxPending
  /\ Orderly =>
       /\ latest = kernels[k].program
       /\ last = k \/ (kernels[k].isNew /\ \A i \in DOMAIN queue : queue[i].kernel # k)
  /\ queue' = Append(queue, [kernel |-> k, args |-> kernels[k].args])
  /\ last' = k
  /\ UNCHANGED <<programVars, kernels, workerVars>>

-----------------------------------------------------------------------------
(* get_kernel_args: an argument lies behind the ones before it. *)
Offsets_Inclusive(args) ==
  LET offset[i \in DOMAIN args] == args[i] + (IF i = 1 THEN 0 ELSE offset[i - 1])
  IN  offset
Offsets(args) ==
  LET offset[i \in DOMAIN args] == IF i = 1 THEN 0 ELSE offset[i - 1] + args[i - 1]
  IN  offset

Running == Head(queue).kernel

NeedsBuild_NoImage(k) == image = NoFile
NeedsBuild(k) == kernels[k].isNew

(* dispatchNDRangeKernel up to setKernelArguments, which writes kernelargs *)
(* whether the kernel is compiled or not.                                  *)
SetKernelArguments ==
  /\ step = "idle"
  /\ queue # <<>>
  /\ kernels[Running] # NoFile
  /\ argsFile' = Offsets(kernels[Running].args)
  /\ step' = IF NeedsBuild(Running) THEN "wrap" ELSE "start"
  /\ UNCHANGED <<programVars, kernels, queue, last, wrapper, image, deviceImage>>

Complete ==
  /\ step' = "idle"
  /\ queue' = Tail(queue)

(* compileKernel, first script: createwrapper.py writes kernelwrapper.c.   *)
CreateWrapper ==
  /\ step = "wrap"
  /\ wrapper' = [kernel |-> Running, offsets |-> argsFile]
  /\ step' = "link"
  /\ UNCHANGED <<programVars, kernels, queue, last, argsFile, image, deviceImage>>

(* The script cannot be run. *)
WrapperRefused ==
  /\ step = "wrap"
  /\ Complete
  /\ UNCHANGED <<programVars, kernels, last, argsFile, wrapper, image, deviceImage>>

(* compileKernel, second script: compilekernel.sh links the wrapper with   *)
(* program.o, or leaves the kernel.so of before, and reports success.      *)
CompileKernel ==
  /\ step = "link"
  /\ \E gcc \in GccOutcomes :
       image' = IF gcc = "built" /\ objectFile \notin {NoFile, Torn}
                  THEN [kernel |-> wrapper.kernel, offsets |-> wrapper.offsets,
                        object |-> objectFile]
                  ELSE image
  /\ argsFile' = NoFile
  /\ wrapper' = NoFile
  /\ step' = "transfer"
  /\ UNCHANGED <<programVars, kernels, queue, last, deviceImage>>

TransferKernel ==
  /\ step = "transfer"
  /\ kernels[Running] # NoFile
  /\ IF image = NoFile
       THEN Complete /\ UNCHANGED <<kernels, deviceImage>>
       ELSE /\ deviceImage' = image
            /\ kernels' = [kernels EXCEPT ![Running].isNew = FALSE]
            /\ step' = "start"
            /\ UNCHANGED queue
  /\ UNCHANGED <<programVars, last, argsFile, wrapper, image>>

StartKernel ==
  /\ step = "start"
  /\ Complete
  /\ UNCHANGED <<programVars, kernels, last, argsFile, wrapper, image, deviceImage>>

-----------------------------------------------------------------------------
ProgramCall ==
  \/ \E p \in Programs :
       \/ CreateWithSource(p) \/ CreateWithBinary(p)
       \/ BuildFromBinary(p) \/ BuildFromSource(p)
       \/ GetBinary(p) \/ ReleaseProgram(p)
  \/ StoreBinary \/ BuildRefused \/ RunScript \/ MeasureBinary

KernelCall ==
  \E k \in Kernels :
    \/ \E p \in Programs : CreateKernel(k, p)
    \/ ReleaseKernel(k) \/ EnqueueNDRangeKernel(k)
    \/ \E i \in 1 .. MaxArgs, size \in ArgSizes : SetKernelArg(k, i, size)

Worker ==
  \/ SetKernelArguments \/ CreateWrapper \/ WrapperRefused
  \/ CompileKernel \/ TransferKernel \/ StartKernel

Next == ProgramCall \/ KernelCall \/ Worker
Spec == Init /\ [][Next]_vars
-----------------------------------------------------------------------------
Content == Programs \cup {Torn}
Args == BoundedSeq(ArgSizes, MaxArgs)
IsOffsets(o) == o \in Seq(Nat) /\ Len(o) <= MaxArgs /\ (o # <<>> => o[1] = 0)
IsWrapper(w) == w.kernel \in Kernels /\ IsOffsets(w.offsets)
IsImage(i) == IsWrapper(i) /\ i.object \in Programs

(* Type invariant of the build files, the program and kernel objects, and  *)
(* the commands that wait for them.                                        *)
TypeOK ==
  /\ \A p \in Programs :
       programs[p] = NoFile \/
       programs[p] \in [status : {"none", "in_progress", "success", "error"},
                        createdWithBinary : BOOLEAN, binary : Content \cup {NoFile}]
  /\ objectFile \in Content \cup {NoFile}
  /\ saved \in [Programs -> Content \cup {NoFile}]
  /\ call = NoCall \/ call \in [op : {"store", "build", "measure"}, program : Programs]
  /\ \A k \in Kernels :
       kernels[k] = NoFile \/
       kernels[k] \in [program : Programs, args : Args, isNew : BOOLEAN]
  /\ queue \in BoundedSeq([kernel : Kernels, args : Args], MaxPending)
  /\ step \in {"idle", "wrap", "link", "transfer", "start"}
  /\ argsFile = NoFile \/ IsOffsets(argsFile)
  /\ wrapper = NoFile \/ IsWrapper(wrapper)
  /\ image = NoFile \/ IsImage(image)
  /\ deviceImage = NoFile \/ IsImage(deviceImage)
  /\ latest \in Programs \cup {NoFile}
  /\ last \in Kernels \cup {NoFile}

(* What START_KERNEL makes the device run is the kernel of the command, at *)
(* the argument offsets it had when it was enqueued, linked with the       *)
(* program it was created for, however many programs and kernels have used *)
(* the same files before.                                                  *)
LaunchesAsEnqueued ==
  step = "start" =>
    deviceImage = [kernel |-> Running, offsets |-> Offsets(Head(queue).args),
                   object |-> kernels[Running].program]

(* The binary an application has read back from a program, perhaps to      *)
(* create the program from it the next time, is the program's own and      *)
(* whole.                                                                  *)
BinaryIsOwn == \A p \in Programs : saved[p] \in {p, NoFile}
=============================================================================
