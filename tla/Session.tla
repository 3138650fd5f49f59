------------------------------ MODULE Session -------------------------------
(***************************************************************************)
(* Connections between hosts and the device: clCreateCommandQueue and      *)
(* clReleaseCommandQueue (src/host/cl_cqueue.c) over dev_interface.c on    *)
(* one side, the loop of core.cpp around SocketConnector and               *)
(* ControlLink::act_func on the other.                                     *)
(*                                                                         *)
(* A thread creates a queue on one of the process's device objects, uses   *)
(* it and releases it; clGetDeviceIDs makes a new object at every call, so *)
(* one device may have several.  The queue's worker sends one request at a *)
(* time over whatever connection device->fd_ctrl holds and waits for the   *)
(* answer.  The device listens, accepts one connection, serves it to its   *)
(* end, closes both sockets and starts again; its listening socket stays   *)
(* open while it serves, and closing it resets the connections that were   *)
(* waiting in the backlog.                                                 *)
(*                                                                         *)
(* Of TCP this needs: connect succeeds when the backlog has room; a        *)
(* process that ends or closes a socket with unread data resets the        *)
(* connection, else it sends an end of file; the first call on a reset     *)
(* connection fails, after it a read finds the end of file and a write     *)
(* raises SIGPIPE, which kills either process.                             *)
(***************************************************************************)
EXTENDS Naturals, Sequences

CONSTANTS
  Threads,      \* application threads of one process
  Objects,      \* its device objects
  MaxConn,      \* bound: connections
  HostMayDie,   \* whether the process may be killed, and started again
  BindMayFail   \* whether bind may find the port still in use

ASSUME ConnAssumption == MaxConn \in Nat
ASSUME FaultAssumption == HostMayDie \in BOOLEAN /\ BindMayFail \in BOOLEAN

VARIABLES
  connected,    \* device->connected
  fd_ctrl,      \* device->fd_ctrl, a connection or 0
  pc,           \* where each thread is
  dev,          \* the device object of its queue, or 0
  fd,           \* what dev_connect returned to it
  worker,       \* its queue's worker: "none", "idle", "reading" or "spinning"
  workerFd,     \* the connection of the worker's exchange
  made,         \* how many connections there have been
  hostOpen,     \* the host has the socket open
  wire,         \* what the host finds when it uses the connection
  peer,         \* what the device finds
  requests, replies,    \* on their way, as the threads they belong to
  devPc,        \* "start", "accept", "serve" or "ended"
  conn,         \* connfd
  backlog,      \* connections nobody has accepted yet
  doubled,      \* history: two threads were past the test of one object
  overlapped,   \* history: a connection was made before the last one's end
  lost          \* history: a command was completed, or spins, unanswered

objectVars == <<connected, fd_ctrl>>
threadVars == <<pc, dev, fd>>
workerVars == <<worker, workerFd>>
connVars == <<made, hostOpen, wire, peer, requests, replies>>
deviceVars == <<devPc, conn, backlog>>
historyVars == <<doubled, overlapped, lost>>
vars == <<objectVars, threadVars, workerVars, connVars, deviceVars, historyVars>>

Conn == 1 .. MaxConn
None == 0

Init ==
  /\ connected = [d \in Objects |-> FALSE] /\ fd_ctrl = [d \in Objects |-> None]
  /\ pc = [t \in Threads |-> "out"]
  /\ dev = [t \in Threads |-> None]
  /\ fd = [t \in Threads |-> None]
  /\ worker = [t \in Threads |-> "none"] /\ workerFd = [t \in Threads |-> None]
  /\ made = 0
  /\ hostOpen = [c \in Conn |-> FALSE]
  /\ wire = [c \in Conn |-> "open"] /\ peer = [c \in Conn |-> "open"]
  /\ requests = [c \in Conn |-> <<>>] /\ replies = [c \in Conn |-> <<>>]
  /\ devPc = "start" /\ conn = None /\ backlog = <<>>
  /\ doubled = FALSE /\ overlapped = FALSE /\ lost = FALSE

-----------------------------------------------------------------------------
(* clCreateCommandQueue: the test, the connect and the stores are separate *)
(* steps; nothing locks them.                                              *)

NotConnected_Untested(d) == TRUE
NotConnected(d) == ~connected[d]

Creating(d) == {t \in Threads : pc[t] \in {"connect", "store"} /\ dev[t] = d}

TestConnected(t, d) ==
  /\ pc[t] = "out"
  /\ NotConnected(d)
  /\ pc' = [pc EXCEPT ![t] = "connect"]
  /\ dev' = [dev EXCEPT ![t] = d]
  /\ doubled' = (doubled \/ Creating(d) # {})
  /\ UNCHANGED <<objectVars, fd, workerVars, connVars, deviceVars, overlapped, lost>>

(* listen(fd, 1): two connections fit into the backlog. *)
HasRoom_Always == devPc \in {"accept", "serve"}
HasRoom == devPc \in {"accept", "serve"} /\ Len(backlog) < 2

Connect(t) ==
  /\ pc[t] = "connect"
  /\ HasRoom
  /\ made < MaxConn
  /\ made' = made + 1
  /\ hostOpen' = [hostOpen EXCEPT ![made + 1] = TRUE]
  /\ backlog' = Append(backlog, made + 1)
  /\ fd' = [fd EXCEPT ![t] = made + 1]
  /\ pc' = [pc EXCEPT ![t] = "store"]
  /\ overlapped' = (overlapped \/ devPc # "accept" \/ backlog # <<>>)
  /\ UNCHANGED <<objectVars, dev, workerVars, wire, peer, requests, replies, devPc, conn,
                 doubled, lost>>

ConnectFails(t) ==
  /\ pc[t] = "connect"
  /\ ~HasRoom
  /\ pc' = [pc EXCEPT ![t] = "out"]
  /\ dev' = [dev EXCEPT ![t] = None]
  /\ UNCHANGED <<objectVars, fd, workerVars, connVars, deviceVars, historyVars>>

StoreConnection(t) ==
  /\ pc[t] = "store"
  /\ connected' = [connected EXCEPT ![dev[t]] = TRUE]
  /\ fd_ctrl' = [fd_ctrl EXCEPT ![dev[t]] = fd[t]]
  /\ pc' = [pc EXCEPT ![t] = "use"]
  /\ worker' = [worker EXCEPT ![t] = "idle"]
  /\ UNCHANGED <<dev, fd, workerFd, connVars, deviceVars, historyVars>>

(* clReleaseCommandQueue of the last reference, and what follows the join. *)
Release(t) ==
  /\ pc[t] = "use"
  /\ pc' = [pc EXCEPT ![t] = "join"]
  /\ UNCHANGED <<objectVars, dev, fd, workerVars, connVars, deviceVars, historyVars>>

Close(closing) ==
  /\ hostOpen' = [c \in Conn |-> hostOpen[c] /\ c \notin closing]
  /\ peer' = [c \in Conn |-> IF c \notin closing \/ ~hostOpen[c] THEN peer[c]
                             ELSE IF replies[c] = <<>> THEN "eof" ELSE "reset"]

FlagAfterRelease_Kept == TRUE
FlagAfterRelease == FALSE

Joined(t) == worker[t] = "idle"

ReleaseJoined(t) ==
  /\ pc[t] = "join"
  /\ Joined(t)
  /\ Close({fd_ctrl[dev[t]]})
  /\ connected' = [connected EXCEPT ![dev[t]] = FlagAfterRelease]
  /\ worker' = [worker EXCEPT ![t] = "none"]
  /\ pc' = [pc EXCEPT ![t] = "out"]
  /\ fd' = [fd EXCEPT ![t] = None] /\ dev' = [dev EXCEPT ![t] = None]
  /\ UNCHANGED <<fd_ctrl, workerFd, made, wire, requests, replies, deviceVars, historyVars>>

(* The process is gone, and another one begins. *)
Restarted ==
  /\ Close(Conn)
  /\ connected' = [d \in Objects |-> FALSE]
  /\ fd_ctrl' = [d \in Objects |-> None]
  /\ pc' = [t \in Threads |-> "out"]
  /\ worker' = [t \in Threads |-> "none"]
  /\ fd' = [t \in Threads |-> None] /\ dev' = [t \in Threads |-> None]
  /\ workerFd' = [t \in Threads |-> None]
  /\ UNCHANGED <<made, wire, requests, replies, deviceVars, doubled, overlapped>>

HostDies ==
  /\ HostMayDie
  /\ \E t \in Threads : pc[t] # "out"
  /\ Restarted
  /\ UNCHANGED lost

-----------------------------------------------------------------------------
(* The worker of t's queue: dev_write and dev_read, whose results nobody   *)
(* looks at.                                                               *)

Fd(t) == fd_ctrl[dev[t]]

Send(t) ==
  /\ worker[t] = "idle"
  /\ hostOpen[Fd(t)] /\ wire[Fd(t)] = "open"
  /\ requests' = [requests EXCEPT ![Fd(t)] = Append(@, t)]
  /\ worker' = [worker EXCEPT ![t] = "reading"]
  /\ workerFd' = [workerFd EXCEPT ![t] = Fd(t)]
  /\ UNCHANGED <<objectVars, threadVars, made, hostOpen, wire, peer, replies, deviceVars, historyVars>>

(* The connection was reset: the write reports it, the read finds the end. *)
SendToReset(t) ==
  /\ worker[t] = "idle"
  /\ hostOpen[Fd(t)] /\ wire[Fd(t)] = "reset"
  /\ wire' = [wire EXCEPT ![Fd(t)] = "eof"]
  /\ worker' = [worker EXCEPT ![t] = "reading"]
  /\ workerFd' = [workerFd EXCEPT ![t] = Fd(t)]
  /\ UNCHANGED <<objectVars, threadVars, made, hostOpen, peer, requests, replies, deviceVars, historyVars>>

(* SIGPIPE. *)
SendAfterReset(t) ==
  /\ worker[t] = "idle"
  /\ hostOpen[Fd(t)] /\ wire[Fd(t)] = "eof"
  /\ Restarted
  /\ lost' = TRUE

(* Two queues had one connection, and the other one has closed it. *)
SendToClosed(t) ==
  /\ worker[t] = "idle"
  /\ ~hostOpen[Fd(t)]
  /\ lost' = TRUE
  /\ UNCHANGED <<objectVars, threadVars, workerVars, connVars, deviceVars, doubled, overlapped>>

Read(t) ==
  /\ worker[t] = "reading"
  /\ replies[workerFd[t]] # <<>>
  /\ replies' = [replies EXCEPT ![workerFd[t]] = Tail(@)]
  /\ worker' = [worker EXCEPT ![t] = "idle"]
  /\ workerFd' = [workerFd EXCEPT ![t] = None]
  /\ UNCHANGED <<objectVars, threadVars, made, hostOpen, wire, peer, requests, deviceVars,
                 historyVars>>

(* dev_read returns -1, and the command counts as executed. *)
ReadReset(t) ==
  /\ worker[t] = "reading"
  /\ replies[workerFd[t]] = <<>> /\ wire[workerFd[t]] = "reset"
  /\ wire' = [wire EXCEPT ![workerFd[t]] = "eof"]
  /\ worker' = [worker EXCEPT ![t] = "idle"]
  /\ workerFd' = [workerFd EXCEPT ![t] = None]
  /\ lost' = TRUE
  /\ UNCHANGED <<objectVars, threadVars, made, hostOpen, peer, requests, replies, deviceVars,
                 doubled, overlapped>>

(* read returns 0, for ever. *)
ReadEof(t) ==
  /\ worker[t] = "reading"
  /\ replies[workerFd[t]] = <<>> /\ wire[workerFd[t]] = "eof"
  /\ worker' = [worker EXCEPT ![t] = "spinning"]
  /\ lost' = TRUE
  /\ UNCHANGED <<objectVars, threadVars, workerFd, connVars, deviceVars, doubled, overlapped>>

WorkerStep(t) ==
  \/ Send(t) \/ SendToReset(t) \/ SendAfterReset(t) \/ SendToClosed(t)
  \/ Read(t) \/ ReadReset(t) \/ ReadEof(t)

-----------------------------------------------------------------------------
(* The device. *)

Listen ==
  /\ devPc = "start"
  /\ devPc' = "accept"
  /\ UNCHANGED <<objectVars, threadVars, workerVars, connVars, conn, backlog, historyVars>>

(* start throws and main returns. *)
BindFails ==
  /\ BindMayFail
  /\ devPc = "start"
  /\ devPc' = "ended"
  /\ UNCHANGED <<objectVars, threadVars, workerVars, connVars, conn, backlog, historyVars>>

AcceptConnection ==
  /\ devPc = "accept"
  /\ backlog # <<>>
  /\ conn' = Head(backlog)
  /\ backlog' = Tail(backlog)
  /\ devPc' = "serve"
  /\ UNCHANGED <<objectVars, threadVars, workerVars, connVars, historyVars>>

Answered_Silently(c) == replies[c]
Answered(c) == Append(replies[c], Head(requests[c]))

(* A reply to a socket the host has closed is answered with a reset. *)
HandleRequest ==
  /\ devPc = "serve"
  /\ requests[conn] # <<>>
  /\ peer[conn] # "reset"
  /\ requests' = [requests EXCEPT ![conn] = Tail(@)]
  /\ IF peer[conn] = "open"
       THEN replies' = [replies EXCEPT ![conn] = Answered(conn)] /\ UNCHANGED peer
       ELSE peer' = [peer EXCEPT ![conn] = "reset"] /\ UNCHANGED replies
  /\ UNCHANGED <<objectVars, threadVars, workerVars, made, hostOpen, wire, deviceVars, historyVars>>

(* recv returns 0, or -1 after a reset; in either case the listening       *)
(* socket is closed, which resets what waits in its backlog, and core.cpp  *)
(* starts the device again.                                                *)
SessionOver_OnlyAtEof == peer[conn] = "eof" /\ requests[conn] = <<>>
SessionOver_WhenIdle == requests[conn] = <<>>
SessionOver == peer[conn] = "reset" \/ (peer[conn] = "eof" /\ requests[conn] = <<>>)

Waiting == {backlog[i] : i \in 1 .. Len(backlog)}

EndSession ==
  /\ devPc = "serve"
  /\ SessionOver
  /\ devPc' = "start"
  /\ wire' = [c \in Conn |-> IF c \in Waiting THEN "reset" ELSE IF c = conn THEN "eof" ELSE wire[c]]
  /\ requests' = [c \in Conn |-> IF c \in Waiting THEN <<>> ELSE requests[c]]
  /\ backlog' = <<>>
  /\ conn' = None
  /\ UNCHANGED <<objectVars, threadVars, workerVars, made, hostOpen, peer, replies, historyVars>>

DeviceStep == Listen \/ BindFails \/ AcceptConnection \/ HandleRequest \/ EndSession

ThreadStep(t) ==
  \/ Connect(t) \/ ConnectFails(t) \/ StoreConnection(t) \/ ReleaseJoined(t)

Next ==
  \/ \E t \in Threads :
       \/ \E d \in Objects : TestConnected(t, d)
       \/ ThreadStep(t) \/ Release(t) \/ WorkerStep(t)
  \/ HostDies
  \/ DeviceStep

Spec == Init /\ [][Next]_vars

(* The device, the workers and threads inside a call run.  Nothing obliges *)
(* an application to create or release a queue.  A worker whose queue is   *)
(* released looks at the reference count between two exchanges (SF).       *)
Fairness ==
  /\ WF_vars(DeviceStep)
  /\ \A t \in Threads :
       WF_vars(ThreadStep(t)) /\ WF_vars(WorkerStep(t)) /\ SF_vars(ReleaseJoined(t))

FairSpec == Spec /\ Fairness

-----------------------------------------------------------------------------
(* Properties. *)

(* The type invariant of connections, queues and the device. *)
TypeOK ==
  /\ connected \in [Objects -> BOOLEAN] /\ fd_ctrl \in [Objects -> 0 .. made]
  /\ pc \in [Threads -> {"out", "connect", "store", "use", "join"}]
  /\ dev \in [Threads -> Objects \cup {None}] /\ fd \in [Threads -> 0 .. made]
  /\ worker \in [Threads -> {"none", "idle", "reading", "spinning"}]
  /\ workerFd \in [Threads -> 0 .. made]
  /\ made \in 0 .. MaxConn
  /\ hostOpen \in [Conn -> BOOLEAN]
  /\ wire \in [Conn -> {"open", "eof", "reset"}] /\ peer \in [Conn -> {"open", "eof", "reset"}]
  /\ requests \in [Conn -> Seq(Threads)] /\ replies \in [Conn -> Seq(Threads)]
  /\ devPc \in {"start", "accept", "serve", "ended"} /\ conn \in 0 .. made
  /\ backlog \in Seq(1 .. made) /\ Len(backlog) <= 2
  /\ doubled \in BOOLEAN /\ overlapped \in BOOLEAN /\ lost \in BOOLEAN

Owners(d) == {t \in Threads : pc[t] \in {"use", "join"} /\ dev[t] = d}

(* cl_cqueue.c:45, "only one control and data connection to device         *)
(* allowed": a device object is connected exactly while one queue is alive *)
(* on it, and then its connection is open, unless two threads have passed  *)
(* the unlocked test at the same time.                                     *)
OneQueuePerObject ==
  ~doubled =>
    \A d \in Objects :
      /\ connected[d] <=> Owners(d) # {}
      /\ \A t \in Owners(d) : Owners(d) = {t} /\ fd_ctrl[d] = fd[t] /\ hostOpen[fd[t]]

(* No queue reads the answer to another one's request, however many queues *)
(* there are, unless two threads have passed the test at the same time.    *)
OwnAnswers ==
  ~doubled =>
    \A c \in Conn : hostOpen[c] =>
      \A i \in 1 .. Len(requests[c] \o replies[c]) :
        LET t == (requests[c] \o replies[c])[i]
        IN  i = 1 /\ worker[t] = "reading" /\ workerFd[t] = c

(* A command is answered by the device, unless its queue's connection was  *)
(* made before the device had noticed the end of the previous one (or two  *)
(* threads have passed the test at the same time).                         *)
LostByOverlap == lost => overlapped \/ doubled

(* The report, section 2.2.1: an application "should be able to create and *)
(* destroy its OpenCL context with the framework without causing the       *)
(* framework to stop functioning".                                         *)
NothingLost == ~lost

(* The report, section 2.2.1, "the termination of the host-side runtime    *)
(* should not cause the device to cease functioning": however a host ends, *)
(* the device listens again, unless bind fails.                            *)
DeviceReturns ==
  (devPc = "serve" /\ ~hostOpen[conn]) ~> devPc \in {"accept", "ended"}

(* clReleaseCommandQueue returns, unless the answer its worker waits for   *)
(* was lost or has to wait for another session's end.                      *)
ReleaseReturns ==
  \A t \in Threads :
    pc[t] = "join" ~> (pc[t] # "join" \/ overlapped \/ doubled)
=============================================================================
