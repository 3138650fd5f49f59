--------------------------- MODULE SessionProofs ----------------------------
(***************************************************************************)
(* Proofs about Session, for any threads, device objects and number of     *)
(* connections, whether the process may be killed and bind may fail or     *)
(* not: types, that an object has one queue, that queues read their own    *)
(* answers and that commands are lost only by connections made too early,  *)
(* all unless two threads pass the unlocked test together.                 *)
(***************************************************************************)
EXTENDS Session, SequenceTheorems, TLAPS

-----------------------------------------------------------------------------
(* The inductive invariant. *)

Connecting == {"store", "use", "join"}   \* where a thread has a connection
Owning == {"use", "join"}                \* where it has a queue
Waits == {"reading", "spinning"}         \* where its worker is in dev_read

(* Threads and workers have what the place where they are says. *)
ThreadInv ==
  \A t \in Threads :
    /\ pc[t] # "out" => dev[t] \in Objects
    /\ pc[t] \in Connecting => fd[t] \in 1 .. made
    /\ pc[t] \in Owning => fd_ctrl[dev[t]] \in 1 .. made
    /\ worker[t] # "none" <=> pc[t] \in Owning
    /\ worker[t] \in Waits => workerFd[t] \in 1 .. made

(* No two threads were given the same connection. *)
DistinctInv ==
  \A t, u \in Threads :
    pc[t] \in Connecting /\ pc[u] \in Connecting /\ fd[t] = fd[u] => t = u

(* A connection that has not been made is as it was at first. *)
FreshInv ==
  \A c \in Conn : c > made =>
    /\ ~hostOpen[c] /\ wire[c] = "open" /\ peer[c] = "open"
    /\ requests[c] = <<>> /\ replies[c] = <<>>

(* The device finds an end only where the host has closed, and what the    *)
(* host has sent over a connection that was reset is gone.                 *)
EndInv ==
  /\ devPc = "serve" => conn \in 1 .. made
  /\ \A c \in Conn : hostOpen[c] =>
       peer[c] = "open" /\ (wire[c] = "open" \/ requests[c] = <<>>)

(* Unless two threads were past the test of one object: at most one thread *)
(* is busy with an object, which is connected from its stores on, and its  *)
(* worker uses its own connection.                                         *)
ObjectInv ==
  ~doubled =>
    /\ \A t, u \in Threads : pc[t] # "out" /\ pc[u] # "out" /\ dev[t] = dev[u] => t = u
    /\ \A d \in Objects : connected[d] <=> \E t \in Threads : pc[t] \in Owning /\ dev[t] = d
    /\ \A t \in Threads : pc[t] \in Connecting => hostOpen[fd[t]]
    /\ \A t \in Threads : pc[t] \in Owning => fd_ctrl[dev[t]] = fd[t]
    /\ \A t \in Threads : worker[t] \in Waits => workerFd[t] = fd[t]

(* A connection carries nothing, or one message of the worker waiting there. *)
Quiet(c) == requests[c] = <<>> /\ replies[c] = <<>>
Carries(c, t) ==
  /\ worker[t] = "reading" /\ workerFd[t] = c
  /\ \/ requests[c] = <<t>> /\ replies[c] = <<>>
     \/ requests[c] = <<>> /\ replies[c] = <<t>>

TrafficInv ==
  ~doubled => \A c \in Conn : hostOpen[c] => Quiet(c) \/ \E t \in Threads : Carries(c, t)

(* Unless a connection was made too early: the device starts with an empty *)
(* backlog, and nothing is reset.                                          *)
BacklogInv ==
  ~overlapped =>
    /\ Len(backlog) <= 1 /\ (devPc # "accept" => backlog = <<>>)
    /\ \A c \in Conn : hostOpen[c] => wire[c] = "open"

IInv ==
  /\ TypeOK /\ ThreadInv /\ DistinctInv /\ FreshInv /\ EndInv
  /\ ObjectInv /\ TrafficInv /\ BacklogInv /\ LostByOverlap

-----------------------------------------------------------------------------
(* Facts about short sequences, and about the constants. *)

LEMMA Single ==
  ASSUME NEW S, NEW t \in S
  PROVE  /\ Append(<<>>, t) = <<t>> /\ Head(<<t>>) = t /\ Tail(<<t>>) = <<>>
         /\ <<t>> # <<>> /\ <<t>> \in Seq(S) /\ <<>> \in Seq(S)
         /\ <<>> \o <<t>> = <<t>> /\ <<t>> \o <<>> = <<t>>
OBVIOUS

LEMMA BacklogSteps ==
  ASSUME NEW m \in Nat, NEW s \in Seq(1 .. m), s # <<>>
  PROVE  /\ Tail(s) \in Seq(1 .. m) /\ Len(Tail(s)) = Len(s) - 1
         /\ Head(s) \in 1 .. m
         /\ Len(s) <= 1 => Tail(s) = <<>>
OBVIOUS

LEMMA BacklogGrows ==
  ASSUME NEW m \in Nat, NEW s \in Seq(1 .. m)
  PROVE  /\ s \in Seq(1 .. m + 1) /\ Append(s, m + 1) \in Seq(1 .. m + 1)
         /\ Len(Append(s, m + 1)) = Len(s) + 1 /\ Len(s) \in Nat
OBVIOUS

LEMMA QueueSteps ==
  ASSUME NEW S, NEW s \in Seq(S), NEW t \in S
  PROVE  /\ Append(s, t) \in Seq(S)
         /\ s # <<>> => Tail(s) \in Seq(S) /\ Head(s) \in S
OBVIOUS

LEMMA WaitingMade == TypeOK => Waiting \subseteq 1 .. made
BY DEF TypeOK, Waiting

LEMMA Constants == Conn = 1 .. MaxConn /\ MaxConn \in Nat
BY ConnAssumption DEF Conn

-----------------------------------------------------------------------------
LEMMA InitInv == Init => IInv
<1> SUFFICES ASSUME Init PROVE IInv
  OBVIOUS
<1> USE Constants DEF Init, None
<1>1. TypeOK
  <2>1. requests \in [Conn -> Seq(Threads)] /\ replies \in [Conn -> Seq(Threads)]
    BY EmptySeq
  <2>2. backlog \in Seq(1 .. made) /\ Len(backlog) <= 2
    BY EmptySeq
  <2>3. /\ made \in 0 .. MaxConn /\ conn \in 0 .. made
        /\ fd_ctrl \in [Objects -> 0 .. made] /\ fd \in [Threads -> 0 .. made]
        /\ workerFd \in [Threads -> 0 .. made] /\ connected \in [Objects -> BOOLEAN]
    OBVIOUS
  <2>4. /\ pc \in [Threads -> {"out", "connect", "store", "use", "join"}]
        /\ dev \in [Threads -> Objects \cup {None}]
        /\ worker \in [Threads -> {"none", "idle", "reading", "spinning"}]
    OBVIOUS
  <2>5. /\ wire \in [Conn -> {"open", "eof", "reset"}] /\ peer \in [Conn -> {"open", "eof", "reset"}]
        /\ hostOpen \in [Conn -> BOOLEAN] /\ devPc \in {"start", "accept", "serve", "ended"}
    OBVIOUS
  <2>6. doubled \in BOOLEAN /\ overlapped \in BOOLEAN /\ lost \in BOOLEAN
    OBVIOUS
  <2> HIDE DEF Init
  <2> QED BY <2>1, <2>2, <2>3, <2>4, <2>5, <2>6 DEF TypeOK
<1>2. ThreadInv /\ DistinctInv
  BY DEF ThreadInv, DistinctInv, Connecting, Owning, Waits
<1>3. FreshInv /\ EndInv
  BY DEF FreshInv, EndInv
<1>4. ObjectInv /\ TrafficInv
  BY DEF ObjectInv, TrafficInv, Quiet, Connecting, Owning, Waits
<1>5. BacklogInv /\ LostByOverlap
  BY DEF BacklogInv, LostByOverlap
<1> QED BY <1>1, <1>2, <1>3, <1>4, <1>5 DEF IInv

-----------------------------------------------------------------------------
(* The parts of TypeOK. *)

ObjectsOK == connected \in [Objects -> BOOLEAN] /\ fd_ctrl \in [Objects -> 0 .. made]
ThreadsOK ==
  /\ pc \in [Threads -> {"out", "connect", "store", "use", "join"}]
  /\ dev \in [Threads -> Objects \cup {None}] /\ fd \in [Threads -> 0 .. made]
WorkersOK ==
  /\ worker \in [Threads -> {"none", "idle", "reading", "spinning"}]
  /\ workerFd \in [Threads -> 0 .. made]
ConnOK ==
  /\ made \in 0 .. MaxConn /\ hostOpen \in [Conn -> BOOLEAN]
  /\ wire \in [Conn -> {"open", "eof", "reset"}] /\ peer \in [Conn -> {"open", "eof", "reset"}]
TrafficOK == requests \in [Conn -> Seq(Threads)] /\ replies \in [Conn -> Seq(Threads)]
DeviceOK ==
  /\ devPc \in {"start", "accept", "serve", "ended"} /\ conn \in 0 .. made
  /\ backlog \in Seq(1 .. made) /\ Len(backlog) <= 2
HistoryOK == doubled \in BOOLEAN /\ overlapped \in BOOLEAN /\ lost \in BOOLEAN

LEMMA Parts ==
  TypeOK <=> /\ ObjectsOK /\ ThreadsOK /\ WorkersOK /\ ConnOK
             /\ TrafficOK /\ DeviceOK /\ HistoryOK
BY DEF TypeOK, ObjectsOK, ThreadsOK, WorkersOK, ConnOK, TrafficOK, DeviceOK, HistoryOK

LEMMA TypeStep == IInv /\ [Next]_vars => TypeOK'
<1> SUFFICES ASSUME IInv, [Next]_vars PROVE TypeOK'
  OBVIOUS
<1> USE Constants DEF IInv, TypeOK, ThreadInv, EndInv, Connecting, Owning, Waits, None, Fd
<1>1. CASE UNCHANGED vars
  BY <1>1 DEF vars, objectVars, threadVars, workerVars, connVars, deviceVars, historyVars
<1>2. ASSUME NEW t \in Threads, NEW d \in Objects, TestConnected(t, d) PROVE TypeOK'
  BY <1>2 DEF TestConnected, objectVars, workerVars, connVars, deviceVars
<1>3. ASSUME NEW t \in Threads, Connect(t) PROVE TypeOK'
  <2>1. /\ made' = made + 1 /\ made' \in 0 .. MaxConn
        /\ backlog' \in Seq(1 .. made') /\ Len(backlog') <= 2
    BY <1>3, BacklogGrows DEF Connect, objectVars, workerVars, HasRoom
  <2>2. 0 .. made \subseteq 0 .. made' /\ made' \in 0 .. made'
    BY <2>1
  <2>5. ObjectsOK'
    <3>1. UNCHANGED <<connected, fd_ctrl>>
      BY <1>3 DEF Connect, objectVars
    <3>2. fd_ctrl \in [Objects -> 0 .. made']
      BY <2>2
    <3> QED BY <3>1, <3>2 DEF ObjectsOK
  <2>6. ThreadsOK'
    <3>1. fd' \in [Threads -> 0 .. made']
      BY <1>3, <2>1, <2>2 DEF Connect
    <3>2. UNCHANGED dev /\ pc' \in [Threads -> {"out", "connect", "store", "use", "join"}]
      BY <1>3 DEF Connect
    <3> QED BY <3>1, <3>2 DEF ThreadsOK
  <2>7. WorkersOK'
    <3>1. UNCHANGED <<worker, workerFd>>
      BY <1>3 DEF Connect, workerVars
    <3>2. workerFd \in [Threads -> 0 .. made']
      BY <2>2
    <3> QED BY <3>1, <3>2 DEF WorkersOK
  <2>8. ConnOK'
    BY <1>3, <2>1 DEF ConnOK, Connect, objectVars, workerVars, HasRoom
  <2>9. TrafficOK'
    BY <1>3, <2>1 DEF TrafficOK, Connect, objectVars, workerVars, HasRoom
  <2>10. DeviceOK'
    BY <1>3, <2>1 DEF DeviceOK, Connect, objectVars, workerVars, HasRoom
  <2>11. HistoryOK'
    BY <1>3, <2>1 DEF HistoryOK, Connect, objectVars, workerVars, HasRoom
  <2> QED BY <2>5, <2>6, <2>7, <2>8, <2>9, <2>10, <2>11 DEF TypeOK, ObjectsOK,
             ThreadsOK, WorkersOK, ConnOK, TrafficOK, DeviceOK, HistoryOK
<1>4. ASSUME NEW t \in Threads, ConnectFails(t) PROVE TypeOK'
  BY <1>4 DEF ConnectFails, objectVars, workerVars, connVars, deviceVars, historyVars
<1>5. ASSUME NEW t \in Threads, StoreConnection(t) PROVE TypeOK'
  BY <1>5 DEF StoreConnection, connVars, deviceVars, historyVars
<1>6. ASSUME NEW t \in Threads, ReleaseJoined(t) PROVE TypeOK'
  <2>4. /\ ObjectsOK /\ ThreadsOK /\ WorkersOK /\ ConnOK
        /\ TrafficOK /\ DeviceOK /\ HistoryOK
    BY Parts
  <2> HIDE DEF IInv, TypeOK, ThreadInv, EndInv
  <2>5. ObjectsOK'
    BY <1>6, <2>4
    DEF ObjectsOK, ConnOK, ReleaseJoined, FlagAfterRelease, Close, deviceVars, historyVars
  <2>6. ThreadsOK'
    BY <1>6, <2>4
    DEF ThreadsOK, ConnOK, ReleaseJoined, FlagAfterRelease, Close, deviceVars, historyVars
  <2>7. WorkersOK'
    BY <1>6, <2>4
    DEF WorkersOK, ConnOK, ReleaseJoined, FlagAfterRelease, Close, deviceVars, historyVars
  <2>8. ConnOK'
    BY <1>6, <2>4
    DEF ConnOK, ReleaseJoined, FlagAfterRelease, Close, deviceVars, historyVars
  <2>9. TrafficOK'
    BY <1>6, <2>4
    DEF TrafficOK, ReleaseJoined, FlagAfterRelease, Close, deviceVars, historyVars
  <2>10. DeviceOK'
    BY <1>6, <2>4
    DEF DeviceOK, ConnOK, ReleaseJoined, FlagAfterRelease, Close, deviceVars, historyVars
  <2>11. HistoryOK'
    BY <1>6, <2>4
    DEF HistoryOK, ReleaseJoined, FlagAfterRelease, Close, deviceVars, historyVars
  <2> QED BY <2>5, <2>6, <2>7, <2>8, <2>9, <2>10, <2>11
     DEF TypeOK, ObjectsOK, ThreadsOK, WorkersOK, ConnOK, TrafficOK, DeviceOK, HistoryOK
<1>7. ASSUME NEW t \in Threads, Release(t) PROVE TypeOK'
  BY <1>7 DEF Release, objectVars, workerVars, connVars, deviceVars, historyVars
<1>8. ASSUME Restarted, lost' \in BOOLEAN PROVE TypeOK'
  BY <1>8 DEF Restarted, Close, deviceVars
<1>9. ASSUME NEW t \in Threads, Send(t) PROVE TypeOK'
  <2>1. Fd(t) \in Conn
    BY <1>9 DEF Send, objectVars, threadVars, deviceVars, historyVars
  <2>2. requests' \in [Conn -> Seq(Threads)]
    BY <1>9, <2>1, QueueSteps DEF Send, objectVars, threadVars, deviceVars, historyVars
  <2> QED BY <1>9, <2>1, <2>2 DEF Send, objectVars, threadVars, deviceVars, historyVars
<1>10. ASSUME NEW t \in Threads, SendToReset(t) PROVE TypeOK'
  BY <1>10 DEF SendToReset, objectVars, threadVars, deviceVars, historyVars
<1>11. ASSUME NEW t \in Threads, SendToClosed(t) PROVE TypeOK'
  BY <1>11 DEF SendToClosed, objectVars, threadVars, workerVars, connVars, deviceVars
<1>12. ASSUME NEW t \in Threads, Read(t) PROVE TypeOK'
  <2>1. workerFd[t] \in Conn
    BY <1>12 DEF Read, objectVars, threadVars, deviceVars, historyVars
  <2>2. replies' \in [Conn -> Seq(Threads)]
    BY <1>12, <2>1, QueueSteps DEF Read, objectVars, threadVars, deviceVars, historyVars
  <2>4. /\ ObjectsOK /\ ThreadsOK /\ WorkersOK /\ ConnOK
        /\ TrafficOK /\ DeviceOK /\ HistoryOK
    BY Parts
  <2> HIDE DEF IInv, TypeOK, ThreadInv, EndInv
  <2>5. ObjectsOK'
    BY <1>12, <2>1, <2>2, <2>4
    DEF ObjectsOK, ConnOK, Read, objectVars, threadVars, deviceVars, historyVars
  <2>6. ThreadsOK'
    BY <1>12, <2>1, <2>2, <2>4
    DEF ThreadsOK, ConnOK, Read, objectVars, threadVars, deviceVars, historyVars
  <2>7. WorkersOK'
    BY <1>12, <2>1, <2>2, <2>4
    DEF WorkersOK, ConnOK, Read, objectVars, threadVars, deviceVars, historyVars
  <2>8. ConnOK'
    BY <1>12, <2>1, <2>2, <2>4
    DEF ConnOK, Read, objectVars, threadVars, deviceVars, historyVars
  <2>9. TrafficOK'
    BY <1>12, <2>1, <2>2, <2>4
    DEF TrafficOK, Read, objectVars, threadVars, deviceVars, historyVars
  <2>10. DeviceOK'
    BY <1>12, <2>1, <2>2, <2>4
    DEF DeviceOK, ConnOK, Read, objectVars, threadVars, deviceVars, historyVars
  <2>11. HistoryOK'
    BY <1>12, <2>1, <2>2, <2>4
    DEF HistoryOK, Read, objectVars, threadVars, deviceVars, historyVars
  <2> QED BY <2>5, <2>6, <2>7, <2>8, <2>9, <2>10, <2>11
     DEF TypeOK, ObjectsOK, ThreadsOK, WorkersOK, ConnOK, TrafficOK, DeviceOK, HistoryOK
<1>13. ASSUME NEW t \in Threads, ReadReset(t) PROVE TypeOK'
  <2>1. wire' \in [Conn -> {"open", "eof", "reset"}]
    BY <1>13 DEF ReadReset, objectVars, threadVars, deviceVars
  <2>4. /\ ObjectsOK /\ ThreadsOK /\ WorkersOK /\ ConnOK
        /\ TrafficOK /\ DeviceOK /\ HistoryOK
    BY Parts
  <2> HIDE DEF IInv, TypeOK, ThreadInv, EndInv
  <2>5. ObjectsOK'
    BY <1>13, <2>1, <2>4
    DEF ObjectsOK, ConnOK, ReadReset, objectVars, threadVars, deviceVars
  <2>6. ThreadsOK'
    BY <1>13, <2>1, <2>4
    DEF ThreadsOK, ConnOK, ReadReset, objectVars, threadVars, deviceVars
  <2>7. WorkersOK'
    BY <1>13, <2>1, <2>4
    DEF WorkersOK, ConnOK, ReadReset, objectVars, threadVars, deviceVars
  <2>8. ConnOK'
    BY <1>13, <2>1, <2>4
    DEF ConnOK, ReadReset, objectVars, threadVars, deviceVars
  <2>9. TrafficOK'
    BY <1>13, <2>1, <2>4
    DEF TrafficOK, ReadReset, objectVars, threadVars, deviceVars
  <2>10. DeviceOK'
    BY <1>13, <2>1, <2>4
    DEF DeviceOK, ConnOK, ReadReset, objectVars, threadVars, deviceVars
  <2>11. HistoryOK'
    BY <1>13, <2>1, <2>4
    DEF HistoryOK, ReadReset, objectVars, threadVars, deviceVars
  <2> QED BY <2>5, <2>6, <2>7, <2>8, <2>9, <2>10, <2>11
     DEF TypeOK, ObjectsOK, ThreadsOK, WorkersOK, ConnOK, TrafficOK, DeviceOK, HistoryOK
<1>14. ASSUME NEW t \in Threads, ReadEof(t) PROVE TypeOK'
  BY <1>14 DEF ReadEof, objectVars, threadVars, connVars, deviceVars
<1>15. ASSUME Listen \/ BindFails PROVE TypeOK'
  BY <1>15 DEF Listen, BindFails, objectVars, threadVars, workerVars, connVars,
     historyVars
<1>16. ASSUME AcceptConnection PROVE TypeOK'
  <2>1. Head(backlog) \in 1 .. made /\ Tail(backlog) \in Seq(1 .. made) /\ Len(Tail(backlog)) <= 2
    BY <1>16, BacklogSteps DEF AcceptConnection, objectVars, threadVars, workerVars,
       connVars, historyVars
  <2>4. /\ ObjectsOK /\ ThreadsOK /\ WorkersOK /\ ConnOK
        /\ TrafficOK /\ DeviceOK /\ HistoryOK
    BY Parts
  <2> HIDE DEF IInv, TypeOK, ThreadInv, EndInv
  <2>5. ObjectsOK'
    BY <1>16, <2>1, <2>4
    DEF ObjectsOK, ConnOK, AcceptConnection, objectVars, threadVars, workerVars, connVars, historyVars
  <2>6. ThreadsOK'
    BY <1>16, <2>1, <2>4
    DEF ThreadsOK, ConnOK, AcceptConnection, objectVars, threadVars, workerVars, connVars, historyVars
  <2>7. WorkersOK'
    BY <1>16, <2>1, <2>4
    DEF WorkersOK, ConnOK, AcceptConnection, objectVars, threadVars, workerVars, connVars, historyVars
  <2>8. ConnOK'
    BY <1>16, <2>1, <2>4
    DEF ConnOK, AcceptConnection, objectVars, threadVars, workerVars, connVars, historyVars
  <2>9. TrafficOK'
    BY <1>16, <2>1, <2>4
    DEF TrafficOK, AcceptConnection, objectVars, threadVars, workerVars, connVars, historyVars
  <2>10. DeviceOK'
    BY <1>16, <2>1, <2>4
    DEF DeviceOK, ConnOK, AcceptConnection, objectVars, threadVars, workerVars, connVars, historyVars
  <2>11. HistoryOK'
    BY <1>16, <2>1, <2>4
    DEF HistoryOK, AcceptConnection, objectVars, threadVars, workerVars, connVars, historyVars
  <2> QED BY <2>5, <2>6, <2>7, <2>8, <2>9, <2>10, <2>11
     DEF TypeOK, ObjectsOK, ThreadsOK, WorkersOK, ConnOK, TrafficOK, DeviceOK, HistoryOK
<1>17. ASSUME HandleRequest PROVE TypeOK'
  <2>1. /\ Tail(requests[conn]) \in Seq(Threads)
        /\ Append(replies[conn], Head(requests[conn])) \in Seq(Threads)
    BY <1>17, QueueSteps DEF HandleRequest, Answered, objectVars, threadVars,
       workerVars, deviceVars, historyVars
  <2> QED BY <1>17, <2>1 DEF HandleRequest, Answered, objectVars, threadVars,
             workerVars, deviceVars, historyVars
<1>18. ASSUME EndSession PROVE TypeOK'
  BY <1>18 DEF EndSession, objectVars, threadVars, workerVars, historyVars
<1> QED
  BY <1>1, <1>2, <1>3, <1>4, <1>5, <1>6, <1>7, <1>8, <1>9, <1>10, <1>11, <1>12,
     <1>13, <1>14, <1>15, <1>16, <1>17, <1>18
  DEF Next, ThreadStep, WorkerStep, DeviceStep, SendAfterReset, HostDies

-----------------------------------------------------------------------------
LEMMA ThreadStepInv == IInv /\ [Next]_vars => ThreadInv'
<1> SUFFICES ASSUME IInv, [Next]_vars PROVE ThreadInv'
  OBVIOUS
<1> USE DEF IInv, TypeOK, ThreadInv, Connecting, Owning, Waits, None, Fd
<1>1. CASE UNCHANGED vars
  BY <1>1 DEF vars, objectVars, threadVars, workerVars, connVars
<1>2. ASSUME NEW t \in Threads, NEW d \in Objects, TestConnected(t, d) PROVE ThreadInv'
  BY <1>2 DEF TestConnected, objectVars, workerVars, connVars
<1>3. ASSUME NEW t \in Threads, Connect(t) PROVE ThreadInv'
  BY <1>3 DEF Connect, objectVars, workerVars
<1>4. ASSUME NEW t \in Threads, ConnectFails(t) PROVE ThreadInv'
  BY <1>4 DEF ConnectFails, objectVars, workerVars, connVars
<1>5. ASSUME NEW t \in Threads, StoreConnection(t) PROVE ThreadInv'
  BY <1>5 DEF StoreConnection, connVars
<1>6. ASSUME NEW t \in Threads, ReleaseJoined(t) PROVE ThreadInv'
  BY <1>6 DEF ReleaseJoined, Joined
<1>7. ASSUME NEW t \in Threads, Release(t) PROVE ThreadInv'
  BY <1>7 DEF Release, objectVars, workerVars, connVars
<1>8. ASSUME Restarted PROVE ThreadInv'
  BY <1>8 DEF Restarted
<1>9. ASSUME NEW t \in Threads, Send(t) \/ SendToReset(t) PROVE ThreadInv'
  BY <1>9 DEF Send, SendToReset, objectVars, threadVars
<1>10. ASSUME NEW t \in Threads, SendToClosed(t) PROVE ThreadInv'
  BY <1>10 DEF SendToClosed, objectVars, threadVars, workerVars, connVars
<1>11. ASSUME NEW t \in Threads, Read(t) \/ ReadReset(t) PROVE ThreadInv'
  BY <1>11 DEF Read, ReadReset, objectVars, threadVars
<1>12. ASSUME NEW t \in Threads, ReadEof(t) PROVE ThreadInv'
  BY <1>12 DEF ReadEof, objectVars, threadVars, connVars
<1>13. CASE DeviceStep
  BY <1>13 DEF DeviceStep, Listen, BindFails, AcceptConnection, HandleRequest, EndSession,
                objectVars, threadVars, workerVars, connVars
<1> QED
  BY <1>1, <1>2, <1>3, <1>4, <1>5, <1>6, <1>7, <1>8, <1>9, <1>10, <1>11, <1>12, <1>13
  DEF Next, ThreadStep, WorkerStep, SendAfterReset, HostDies

-----------------------------------------------------------------------------
LEMMA DistinctStep == IInv /\ [Next]_vars => DistinctInv'
<1> SUFFICES ASSUME IInv, [Next]_vars PROVE DistinctInv'
  OBVIOUS
<1> USE Constants DEF IInv, TypeOK, ThreadInv, DistinctInv, Connecting
<1>1. CASE UNCHANGED vars
  BY <1>1 DEF vars, objectVars, threadVars, workerVars, connVars, deviceVars, historyVars
<1>2. ASSUME NEW t \in Threads, NEW d \in Objects, TestConnected(t, d) PROVE DistinctInv'
  BY <1>2 DEF TestConnected, NotConnected, objectVars, workerVars, connVars, deviceVars
<1>3. ASSUME NEW t \in Threads, Connect(t) PROVE DistinctInv'
  <2>1. \A u \in Threads : fd[u] # made + 1
    OBVIOUS
  <2>2. fd' = [fd EXCEPT ![t] = made + 1] /\ pc' = [pc EXCEPT ![t] = "store"]
    BY <1>3 DEF Connect
  <2>3. fd'[t] = made + 1
    BY <2>2, Zenon
  <2>4. \A u \in Threads \ {t} : fd'[u] = fd[u] /\ pc'[u] = pc[u]
    BY <2>2, Zenon
  <2>5. ASSUME NEW u \in Threads, NEW v \in Threads, pc'[u] \in Connecting,
               pc'[v] \in Connecting, fd'[u] = fd'[v]
        PROVE  u = v
    <3>1. \A a, b \in Threads :
            pc[a] \in Connecting /\ pc[b] \in Connecting /\ fd[a] = fd[b] => a = b
      OBVIOUS
    <3> HIDE DEF IInv, TypeOK, ThreadInv, DistinctInv, Connecting
    <3>2. CASE u # t /\ v # t
      BY <2>4, <2>5, <3>1, <3>2
    <3>3. CASE u = t \/ v = t
      BY <2>1, <2>3, <2>4, <2>5, <3>3
    <3> QED BY <3>2, <3>3
  <2> QED BY <2>5
<1>4. ASSUME NEW t \in Threads, ConnectFails(t) PROVE DistinctInv'
  BY <1>4 DEF ConnectFails, objectVars, workerVars, connVars, deviceVars, historyVars
<1>5. ASSUME NEW t \in Threads, StoreConnection(t) PROVE DistinctInv'
  BY <1>5 DEF StoreConnection, connVars, deviceVars, historyVars
<1>6. ASSUME NEW t \in Threads, ReleaseJoined(t) PROVE DistinctInv'
  BY <1>6 DEF ReleaseJoined, Joined, FlagAfterRelease, Close, deviceVars, historyVars
<1>7. ASSUME NEW t \in Threads, Release(t) PROVE DistinctInv'
  BY <1>7 DEF Release, objectVars, workerVars, connVars, deviceVars, historyVars
<1>8. ASSUME Restarted PROVE DistinctInv'
  BY <1>8 DEF Restarted, Close, deviceVars
<1>9. ASSUME NEW t \in Threads, Send(t) PROVE DistinctInv'
  BY <1>9 DEF Send, Fd, objectVars, threadVars, deviceVars, historyVars
<1>10. ASSUME NEW t \in Threads, SendToReset(t) PROVE DistinctInv'
  BY <1>10 DEF SendToReset, Fd, objectVars, threadVars, deviceVars, historyVars
<1>11. ASSUME NEW t \in Threads, SendToClosed(t) PROVE DistinctInv'
  BY <1>11 DEF SendToClosed, Fd, objectVars, threadVars, workerVars, connVars, deviceVars
<1>12. ASSUME NEW t \in Threads, Read(t) PROVE DistinctInv'
  BY <1>12 DEF Read, objectVars, threadVars, deviceVars, historyVars
<1>13. ASSUME NEW t \in Threads, ReadReset(t) PROVE DistinctInv'
  BY <1>13 DEF ReadReset, objectVars, threadVars, deviceVars
<1>14. ASSUME NEW t \in Threads, ReadEof(t) PROVE DistinctInv'
  BY <1>14 DEF ReadEof, objectVars, threadVars, connVars, deviceVars
<1>15. ASSUME Listen \/ BindFails PROVE DistinctInv'
  BY <1>15 DEF Listen, BindFails, objectVars, threadVars, workerVars, connVars,
     historyVars
<1>16. ASSUME AcceptConnection PROVE DistinctInv'
  BY <1>16 DEF AcceptConnection, objectVars, threadVars, workerVars, connVars, historyVars
<1>17. ASSUME HandleRequest PROVE DistinctInv'
  BY <1>17 DEF HandleRequest, Answered, objectVars, threadVars, workerVars,
     deviceVars, historyVars
<1>18. ASSUME EndSession PROVE DistinctInv'
  BY <1>18 DEF EndSession, SessionOver, objectVars, threadVars, workerVars, historyVars
<1> QED
  BY <1>1, <1>2, <1>3, <1>4, <1>5, <1>6, <1>7, <1>8, <1>9, <1>10, <1>11, <1>12,
     <1>13, <1>14, <1>15, <1>16, <1>17, <1>18
  DEF Next, ThreadStep, WorkerStep, DeviceStep, SendAfterReset, HostDies

-----------------------------------------------------------------------------
LEMMA FreshStep == IInv /\ [Next]_vars => FreshInv'
<1> SUFFICES ASSUME IInv, [Next]_vars PROVE FreshInv'
  OBVIOUS
<1> USE Constants DEF IInv, TypeOK, ThreadInv, Connecting, Owning, Waits, None, FreshInv, EndInv
<1>1. CASE UNCHANGED vars
  BY <1>1 DEF vars, objectVars, threadVars, workerVars, connVars, deviceVars, historyVars
<1>2. ASSUME NEW t \in Threads, NEW d \in Objects, TestConnected(t, d) PROVE FreshInv'
  BY <1>2 DEF TestConnected, NotConnected, objectVars, workerVars, connVars, deviceVars
<1>3. ASSUME NEW t \in Threads, Connect(t) PROVE FreshInv'
  <2>1. made' = made + 1 /\ UNCHANGED <<wire, peer, requests, replies>>
    BY <1>3 DEF Connect
  <2>2. ASSUME NEW c \in Conn, c > made + 1 PROVE hostOpen'[c] = hostOpen[c]
    <3>1. hostOpen' = [hostOpen EXCEPT ![made + 1] = TRUE] /\ hostOpen \in [Conn -> BOOLEAN]
      BY <1>3 DEF Connect
    <3>2. c # made + 1
      BY <2>2
    <3> HIDE DEF IInv, TypeOK, FreshInv, EndInv, ThreadInv
    <3> QED BY <3>1, <3>2, Zenon
  <2>3. \A c \in Conn : c > made + 1 => c > made
    OBVIOUS
  <2> HIDE DEF TypeOK
  <2> QED BY <2>1, <2>2, <2>3
<1>4. ASSUME NEW t \in Threads, ConnectFails(t) PROVE FreshInv'
  BY <1>4 DEF ConnectFails, objectVars, workerVars, connVars, deviceVars, historyVars
<1>5. ASSUME NEW t \in Threads, StoreConnection(t) PROVE FreshInv'
  BY <1>5 DEF StoreConnection, connVars, deviceVars, historyVars
<1>6. ASSUME NEW t \in Threads, ReleaseJoined(t) PROVE FreshInv'
  BY <1>6 DEF ReleaseJoined, Joined, FlagAfterRelease, Close, deviceVars, historyVars
<1>7. ASSUME NEW t \in Threads, Release(t) PROVE FreshInv'
  BY <1>7 DEF Release, objectVars, workerVars, connVars, deviceVars, historyVars
<1>8. ASSUME Restarted PROVE FreshInv'
  BY <1>8 DEF Restarted, Close, deviceVars
<1>9. ASSUME NEW t \in Threads, Send(t) PROVE FreshInv'
  BY <1>9 DEF Send, Fd, objectVars, threadVars, deviceVars, historyVars
<1>10. ASSUME NEW t \in Threads, SendToReset(t) PROVE FreshInv'
  BY <1>10 DEF SendToReset, Fd, objectVars, threadVars, deviceVars, historyVars
<1>11. ASSUME NEW t \in Threads, SendToClosed(t) PROVE FreshInv'
  BY <1>11 DEF SendToClosed, Fd, objectVars, threadVars, workerVars, connVars, deviceVars
<1>12. ASSUME NEW t \in Threads, Read(t) PROVE FreshInv'
  BY <1>12 DEF Read, objectVars, threadVars, deviceVars, historyVars
<1>13. ASSUME NEW t \in Threads, ReadReset(t) PROVE FreshInv'
  BY <1>13 DEF ReadReset, objectVars, threadVars, deviceVars
<1>14. ASSUME NEW t \in Threads, ReadEof(t) PROVE FreshInv'
  BY <1>14 DEF ReadEof, objectVars, threadVars, connVars, deviceVars
<1>15. ASSUME Listen \/ BindFails PROVE FreshInv'
  <2>1. UNCHANGED connVars
    BY <1>15 DEF Listen, BindFails
  <2> QED BY <2>1 DEF connVars
<1>16. ASSUME AcceptConnection PROVE FreshInv'
  BY <1>16 DEF AcceptConnection, objectVars, threadVars, workerVars, connVars, historyVars
<1>17. ASSUME HandleRequest PROVE FreshInv'
  <2>1. conn \in 1 .. made /\ UNCHANGED <<made, hostOpen, wire>>
    BY <1>17 DEF HandleRequest
  <2>2. \A c \in Conn : c # conn =>
          peer'[c] = peer[c] /\ requests'[c] = requests[c] /\ replies'[c] = replies[c]
    BY <1>17 DEF HandleRequest
  <2>3. \A c \in Conn : c > made => c # conn
    BY <2>1
  <2> HIDE DEF TypeOK
  <2> QED BY <2>1, <2>2, <2>3
<1>18. ASSUME EndSession PROVE FreshInv'
  <2>1. conn \in 1 .. made /\ UNCHANGED <<made, hostOpen, peer, replies>>
    BY <1>18 DEF EndSession
  <2>2. \A c \in Conn : c > made => c \notin Waiting /\ c # conn
    BY <2>1, WaitingMade
  <2>3. \A c \in Conn : c > made => wire'[c] = wire[c] /\ requests'[c] = requests[c]
    BY <1>18, <2>2 DEF EndSession
  <2> HIDE DEF TypeOK
  <2> QED BY <2>1, <2>3
<1> QED
  BY <1>1, <1>2, <1>3, <1>4, <1>5, <1>6, <1>7, <1>8, <1>9, <1>10, <1>11, <1>12,
     <1>13, <1>14, <1>15, <1>16, <1>17, <1>18
  DEF Next, ThreadStep, WorkerStep, DeviceStep, SendAfterReset, HostDies

-----------------------------------------------------------------------------
LEMMA EndStep == IInv /\ [Next]_vars => EndInv'
<1> SUFFICES ASSUME IInv, [Next]_vars PROVE EndInv'
  OBVIOUS
<1> USE Constants DEF IInv, TypeOK, ThreadInv, Connecting, Owning, Waits, None, FreshInv, EndInv
<1>1. CASE UNCHANGED vars
  BY <1>1 DEF vars, objectVars, threadVars, workerVars, connVars, deviceVars, historyVars
<1>2. ASSUME NEW t \in Threads, NEW d \in Objects, TestConnected(t, d) PROVE EndInv'
  BY <1>2 DEF TestConnected, NotConnected, objectVars, workerVars, connVars, deviceVars
<1>3. ASSUME NEW t \in Threads, Connect(t) PROVE EndInv'
  <2>1. made' = made + 1 /\ UNCHANGED <<wire, peer, requests, devPc, conn>>
    BY <1>3 DEF Connect
  <2>2. \A c \in Conn : hostOpen'[c] => hostOpen[c] \/ c = made + 1
    BY <1>3 DEF Connect
  <2>3. \A c \in Conn : c = made + 1 => peer[c] = "open" /\ wire[c] = "open"
    OBVIOUS
  <2>4. devPc = "serve" => conn \in 1 .. made + 1
    OBVIOUS
  <2> HIDE DEF TypeOK
  <2> QED BY <2>1, <2>2, <2>3, <2>4
<1>4. ASSUME NEW t \in Threads, ConnectFails(t) PROVE EndInv'
  BY <1>4 DEF ConnectFails, objectVars, workerVars, connVars, deviceVars, historyVars
<1>5. ASSUME NEW t \in Threads, StoreConnection(t) PROVE EndInv'
  BY <1>5 DEF StoreConnection, connVars, deviceVars, historyVars
<1>6. ASSUME NEW t \in Threads, ReleaseJoined(t) PROVE EndInv'
  BY <1>6 DEF ReleaseJoined, Joined, FlagAfterRelease, Close, deviceVars, historyVars
<1>7. ASSUME NEW t \in Threads, Release(t) PROVE EndInv'
  BY <1>7 DEF Release, objectVars, workerVars, connVars, deviceVars, historyVars
<1>8. ASSUME Restarted PROVE EndInv'
  BY <1>8 DEF Restarted, Close, deviceVars
<1>9. ASSUME NEW t \in Threads, Send(t) PROVE EndInv'
  BY <1>9 DEF Send, Fd, objectVars, threadVars, deviceVars, historyVars
<1>10. ASSUME NEW t \in Threads, SendToReset(t) PROVE EndInv'
  BY <1>10 DEF SendToReset, Fd, objectVars, threadVars, deviceVars, historyVars
<1>11. ASSUME NEW t \in Threads, SendToClosed(t) PROVE EndInv'
  BY <1>11 DEF SendToClosed, Fd, objectVars, threadVars, workerVars, connVars, deviceVars
<1>12. ASSUME NEW t \in Threads, Read(t) PROVE EndInv'
  BY <1>12 DEF Read, objectVars, threadVars, deviceVars, historyVars
<1>13. ASSUME NEW t \in Threads, ReadReset(t) PROVE EndInv'
  BY <1>13 DEF ReadReset, objectVars, threadVars, deviceVars
<1>14. ASSUME NEW t \in Threads, ReadEof(t) PROVE EndInv'
  BY <1>14 DEF ReadEof, objectVars, threadVars, connVars, deviceVars
<1>15. ASSUME Listen \/ BindFails PROVE EndInv'
  BY <1>15 DEF Listen, BindFails, objectVars, threadVars, workerVars, connVars,
     historyVars
<1>16. ASSUME AcceptConnection PROVE EndInv'
  BY <1>16 DEF AcceptConnection, objectVars, threadVars, workerVars, connVars, historyVars
<1>17. ASSUME HandleRequest PROVE EndInv'
  <2>1. UNCHANGED <<made, hostOpen, wire, devPc, conn>> /\ conn \in Conn
    BY <1>17 DEF HandleRequest, deviceVars
  <2>2. \A c \in Conn : c # conn => peer'[c] = peer[c] /\ requests'[c] = requests[c]
    BY <1>17 DEF HandleRequest
  <2>3. hostOpen[conn] => peer'[conn] = peer[conn] /\ wire[conn] = "open"
    BY <1>17, <2>1 DEF HandleRequest
  <2> HIDE DEF TypeOK
  <2> QED BY <2>1, <2>2, <2>3
<1>18. ASSUME EndSession PROVE EndInv'
  BY <1>18 DEF EndSession, SessionOver, objectVars, threadVars, workerVars, historyVars
<1> QED
  BY <1>1, <1>2, <1>3, <1>4, <1>5, <1>6, <1>7, <1>8, <1>9, <1>10, <1>11, <1>12,
     <1>13, <1>14, <1>15, <1>16, <1>17, <1>18
  DEF Next, ThreadStep, WorkerStep, DeviceStep, SendAfterReset, HostDies

-----------------------------------------------------------------------------
(* What the next lemmas use of IInv: types without the queues. *)

LEMMA Typing ==
  IInv => /\ ObjectsOK /\ ThreadsOK /\ WorkersOK /\ ConnOK
          /\ ThreadInv /\ DistinctInv /\ FreshInv /\ EndInv
          /\ ObjectInv /\ TrafficInv /\ BacklogInv /\ LostByOverlap
BY Parts DEF IInv

LEMMA ObjectStep == IInv /\ [Next]_vars => ObjectInv'
<1> SUFFICES ASSUME IInv, [Next]_vars, ~doubled' PROVE ObjectInv'
  BY DEF ObjectInv
<1>a. /\ ObjectsOK /\ ThreadsOK /\ WorkersOK /\ ConnOK
      /\ ThreadInv /\ DistinctInv /\ ObjectInv
  BY Typing
<1>b. \A t \in Threads : pc[t] \in Connecting => fd[t] \in Conn
  BY <1>a, Constants DEF ThreadInv, ConnOK
<1>c. \A t \in Threads : worker[t] = "idle" => pc[t] \in Owning
  BY <1>a DEF ThreadInv
<1> USE <1>a DEF ObjectInv, ThreadsOK, Connecting, Owning, Waits
<1>1. CASE UNCHANGED vars
  BY <1>1 DEF vars, objectVars, threadVars, workerVars, connVars, historyVars
<1>2. ASSUME NEW t \in Threads, NEW d \in Objects, TestConnected(t, d) PROVE ObjectInv'
  <2>1. ~doubled /\ Creating(d) = {} /\ ~connected[d]
    BY <1>2 DEF TestConnected, NotConnected
  <2>2. \A u \in Threads : pc[u] # "out" => dev[u] # d
    BY <2>1 DEF Creating
  <2>3. /\ UNCHANGED <<objectVars, fd, workerVars, hostOpen>>
        /\ pc' = [pc EXCEPT ![t] = "connect"] /\ dev' = [dev EXCEPT ![t] = d] /\ pc[t] = "out"
    BY <1>2 DEF TestConnected, connVars
  <2> QED BY <2>1, <2>2, <2>3 DEF objectVars, workerVars, ThreadInv
<1>3. ASSUME NEW t \in Threads, Connect(t) PROVE ObjectInv'
  <2>1. /\ pc[t] = "connect" /\ pc' = [pc EXCEPT ![t] = "store"] /\ fd' = [fd EXCEPT ![t] = made + 1]
        /\ hostOpen' = [hostOpen EXCEPT ![made + 1] = TRUE]
        /\ UNCHANGED <<objectVars, dev, workerVars, doubled>>
    BY <1>3 DEF Connect
  <2>2. made + 1 \in Conn /\ hostOpen'[made + 1] /\ \A c \in Conn : hostOpen[c] => hostOpen'[c]
    BY <1>3, <2>1, Constants DEF Connect, ConnOK
  <2>3. \A u \in Threads : pc'[u] \in Connecting => hostOpen'[fd'[u]]
    BY <1>b, <2>1, <2>2
  <2>4. \A u \in Threads : pc'[u] \in Owning => u # t
    BY <2>1
  <2>5. \A u \in Threads : worker[u] \in Waits => u # t
    BY <2>1 DEF ThreadInv
  <2> QED BY <2>1, <2>3, <2>4, <2>5 DEF objectVars, workerVars
<1>4. ASSUME NEW t \in Threads, ConnectFails(t) PROVE ObjectInv'
  BY <1>4 DEF ConnectFails, objectVars, workerVars, connVars, historyVars
<1>5. ASSUME NEW t \in Threads, StoreConnection(t) PROVE ObjectInv'
  <2>1. /\ pc[t] = "store" /\ pc' = [pc EXCEPT ![t] = "use"] /\ dev[t] \in Objects
        /\ worker' = [worker EXCEPT ![t] = "idle"]
        /\ connected' = [connected EXCEPT ![dev[t]] = TRUE]
        /\ fd_ctrl' = [fd_ctrl EXCEPT ![dev[t]] = fd[t]]
        /\ UNCHANGED <<dev, fd, workerFd, hostOpen, doubled>>
    BY <1>5 DEF StoreConnection, connVars, historyVars, ThreadInv
  <2>2. \A d \in Objects : connected'[d] <=> \E u \in Threads : pc'[u] \in Owning /\ dev'[u] = d
    BY <2>1 DEF ObjectsOK
  <2>3. \A u \in Threads : pc'[u] \in Owning => fd_ctrl'[dev'[u]] = fd'[u]
    BY <2>1 DEF ObjectsOK, ThreadInv
  <2>4. \A u \in Threads : worker'[u] \in Waits => workerFd'[u] = fd'[u]
    BY <2>1 DEF WorkersOK
  <2> QED BY <2>1, <2>2, <2>3, <2>4
<1>6. ASSUME NEW t \in Threads, ReleaseJoined(t) PROVE ObjectInv'
  <2>1. /\ pc[t] = "join" /\ pc' = [pc EXCEPT ![t] = "out"] /\ dev[t] \in Objects
        /\ worker' = [worker EXCEPT ![t] = "none"]
        /\ connected' = [connected EXCEPT ![dev[t]] = FALSE]
        /\ fd' = [fd EXCEPT ![t] = None] /\ dev' = [dev EXCEPT ![t] = None]
        /\ UNCHANGED <<fd_ctrl, workerFd, doubled>>
    BY <1>6 DEF ReleaseJoined, FlagAfterRelease, historyVars, ThreadInv
  <2>2. \A c \in Conn : hostOpen'[c] <=> hostOpen[c] /\ c # fd[t]
    BY <1>6, <2>1 DEF ReleaseJoined, Close
  <2>3. \A d \in Objects : connected'[d] <=> \E u \in Threads : pc'[u] \in Owning /\ dev'[u] = d
    BY <2>1 DEF ObjectsOK
  <2>4. \A u \in Threads : pc'[u] \in Connecting => hostOpen'[fd'[u]]
    BY <1>b, <2>1, <2>2 DEF DistinctInv
  <2>5. \A u \in Threads : pc'[u] \in Owning => fd_ctrl'[dev'[u]] = fd'[u]
    BY <2>1
  <2>6. \A u \in Threads : worker'[u] \in Waits => workerFd'[u] = fd'[u]
    BY <2>1 DEF WorkersOK
  <2> QED BY <2>1, <2>3, <2>4, <2>5, <2>6
<1>7. ASSUME NEW t \in Threads, Release(t) PROVE ObjectInv'
  BY <1>7 DEF Release, objectVars, workerVars, connVars, historyVars
<1>8. ASSUME Restarted PROVE ObjectInv'
  BY <1>8 DEF Restarted
<1>9. ASSUME NEW t \in Threads, Send(t) \/ SendToReset(t) PROVE ObjectInv'
  <2>1. /\ worker[t] = "idle" /\ workerFd' = [workerFd EXCEPT ![t] = fd_ctrl[dev[t]]]
        /\ worker' = [worker EXCEPT ![t] = "reading"]
        /\ UNCHANGED <<objectVars, threadVars, hostOpen, historyVars>>
    BY <1>9 DEF Send, SendToReset, Fd
  <2>2. \A u \in Threads : worker'[u] \in Waits => workerFd'[u] = fd'[u]
    BY <1>c, <2>1 DEF WorkersOK, objectVars, threadVars, historyVars
  <2> QED BY <2>1, <2>2 DEF objectVars, threadVars, historyVars
<1>10. ASSUME NEW t \in Threads, SendToClosed(t) PROVE ObjectInv'
  BY <1>10 DEF SendToClosed, objectVars, threadVars, workerVars, connVars
<1>11. ASSUME NEW t \in Threads, Read(t) \/ ReadReset(t) PROVE ObjectInv'
  <2>1. /\ workerFd' = [workerFd EXCEPT ![t] = None]
        /\ worker' = [worker EXCEPT ![t] = "idle"]
        /\ UNCHANGED <<objectVars, threadVars, hostOpen, doubled>>
    BY <1>11 DEF Read, ReadReset, historyVars
  <2>2. \A u \in Threads : worker'[u] \in Waits => workerFd'[u] = fd'[u]
    BY <2>1 DEF WorkersOK, objectVars, threadVars
  <2> QED BY <2>1, <2>2 DEF objectVars, threadVars
<1>12. ASSUME NEW t \in Threads, ReadEof(t) PROVE ObjectInv'
  BY <1>12 DEF ReadEof, objectVars, threadVars, connVars, WorkersOK
<1>13. CASE DeviceStep
  <2>1. UNCHANGED <<objectVars, threadVars, workerVars, hostOpen, historyVars>>
    BY <1>13 DEF DeviceStep, Listen, BindFails, AcceptConnection, HandleRequest,
       EndSession, connVars
  <2> QED BY <2>1 DEF objectVars, threadVars, workerVars, historyVars
<1> QED
  BY <1>1, <1>2, <1>3, <1>4, <1>5, <1>6, <1>7, <1>8, <1>9, <1>10, <1>11, <1>12, <1>13
  DEF Next, ThreadStep, WorkerStep, SendAfterReset, HostDies

-----------------------------------------------------------------------------
(* Where a worker is, and whose message a connection carries. *)

LEMMA WorkerFacts ==
  ASSUME IInv, ~doubled, NEW t \in Threads
  PROVE  /\ worker[t] = "idle" => /\ Fd(t) = fd[t] /\ fd[t] \in Conn /\ hostOpen[fd[t]]
                                  /\ Quiet(fd[t])
         /\ worker[t] = "reading" =>
              /\ workerFd[t] = fd[t] /\ fd[t] \in Conn /\ hostOpen[fd[t]]
              /\ Quiet(fd[t]) \/ Carries(fd[t], t)
<1>1. ThreadInv /\ DistinctInv /\ ObjectInv /\ TrafficInv /\ ConnOK
  BY Typing
<1>2. worker[t] \in {"idle", "reading"} =>
        /\ pc[t] \in Owning /\ fd[t] \in Conn /\ hostOpen[fd[t]] /\ fd_ctrl[dev[t]] = fd[t]
  BY <1>1, Constants DEF ThreadInv, ObjectInv, ConnOK, Connecting, Owning
<1>3. worker[t] = "reading" => workerFd[t] = fd[t]
  BY <1>1 DEF ObjectInv, Waits
<1>4. ASSUME NEW u \in Threads, Carries(fd[t], u), worker[t] \in {"idle", "reading"}
      PROVE  u = t
  <2>1. worker[u] = "reading" /\ workerFd[u] = fd[t]
    BY <1>4 DEF Carries
  <2>2. pc[u] \in Connecting /\ fd[u] = fd[t]
    BY <1>1, <2>1 DEF ThreadInv, ObjectInv, Connecting, Owning, Waits
  <2> QED BY <1>1, <1>2, <1>4, <2>2 DEF DistinctInv, Connecting, Owning
<1>5. worker[t] \in {"idle", "reading"} => Quiet(fd[t]) \/ Carries(fd[t], t)
  BY <1>1, <1>2, <1>4 DEF TrafficInv
<1>6. worker[t] = "idle" => ~Carries(fd[t], t)
  BY DEF Carries
<1> QED BY <1>2, <1>3, <1>5, <1>6 DEF Fd

LEMMA TrafficStep == IInv /\ [Next]_vars => TrafficInv'
<1> SUFFICES ASSUME IInv, [Next]_vars, ~doubled',
                    NEW c \in Conn, hostOpen'[c]
             PROVE  (Quiet(c) \/ \E u \in Threads : Carries(c, u))'
  BY DEF TrafficInv
<1> DEFINE Goal == (Quiet(c) \/ \E u \in Threads : Carries(c, u))'
<1>a. /\ ConnOK /\ WorkersOK /\ FreshInv /\ EndInv
      /\ hostOpen[c] /\ ~doubled => Quiet(c) \/ \E u \in Threads : Carries(c, u)
  BY Typing DEF TrafficInv
<1>t. /\ requests \in [Conn -> Seq(Threads)] /\ replies \in [Conn -> Seq(Threads)]
      /\ worker \in [Threads -> {"none", "idle", "reading", "spinning"}]
      /\ workerFd \in [Threads -> 0 .. made]
  BY DEF IInv, TypeOK
<1>s. ASSUME ~doubled, hostOpen[c], requests'[c] = requests[c], replies'[c] = replies[c],
             \A u \in Threads : worker[u] = "reading" /\ workerFd[u] = c =>
               worker'[u] = worker[u] /\ workerFd'[u] = workerFd[u]
      PROVE  Goal
  BY <1>a, <1>s DEF Quiet, Carries
<1>1. CASE UNCHANGED vars
  BY <1>1, <1>s DEF vars, workerVars, connVars, historyVars
<1>2. ASSUME NEW t \in Threads, NEW d \in Objects, TestConnected(t, d) PROVE Goal
  BY <1>2, <1>s DEF TestConnected, workerVars, connVars
<1>3. ASSUME NEW t \in Threads, Connect(t) PROVE Goal
  <2>1. UNCHANGED <<workerVars, requests, replies, doubled>> /\ (hostOpen[c] \/ c = made + 1)
    BY <1>3, <1>a DEF Connect, ConnOK
  <2>2. CASE hostOpen[c]
    BY <2>1, <2>2, <1>s DEF workerVars
  <2>3. CASE c = made + 1
    <3>1. c > made
      BY <2>3, <1>a DEF ConnOK
    <3> QED BY <1>a, <2>1, <3>1 DEF FreshInv, Quiet
  <2> QED BY <2>1, <2>2, <2>3
<1>4. ASSUME NEW t \in Threads, ConnectFails(t) PROVE Goal
  BY <1>4, <1>s DEF ConnectFails, workerVars, connVars, historyVars
<1>5. ASSUME NEW t \in Threads, StoreConnection(t) PROVE Goal
  <2>1. worker[t] = "none"
    BY <1>5, Typing DEF StoreConnection, ThreadInv, Owning
  <2>2. /\ worker' = [worker EXCEPT ![t] = "idle"]
        /\ UNCHANGED <<workerFd, hostOpen, requests, replies, doubled>>
    BY <1>5 DEF StoreConnection, connVars, historyVars
  <2> QED BY <1>s, <1>t, <2>1, <2>2
<1>6. ASSUME NEW t \in Threads, ReleaseJoined(t) PROVE Goal
  <2>1. /\ worker[t] = "idle" /\ worker' = [worker EXCEPT ![t] = "none"]
        /\ UNCHANGED <<workerFd, requests, replies, doubled>> /\ hostOpen[c]
    BY <1>6 DEF ReleaseJoined, Joined, Close, historyVars
  <2> QED BY <1>s, <1>t, <2>1
<1>7. ASSUME NEW t \in Threads, Release(t) PROVE Goal
  BY <1>7, <1>s DEF Release, workerVars, connVars, historyVars
<1>8. ASSUME Restarted PROVE Goal
  BY <1>8 DEF Restarted, Close
<1>9. ASSUME NEW t \in Threads, Send(t) PROVE Goal
  <2>1. /\ worker[t] = "idle" /\ worker' = [worker EXCEPT ![t] = "reading"]
        /\ workerFd' = [workerFd EXCEPT ![t] = Fd(t)]
        /\ requests' = [requests EXCEPT ![Fd(t)] = Append(@, t)]
        /\ UNCHANGED <<hostOpen, replies, doubled>>
    BY <1>9 DEF Send, historyVars
  <2>2. Fd(t) = fd[t] /\ fd[t] \in Conn /\ Quiet(fd[t])
    BY <2>1, WorkerFacts
  <2>3. CASE c = fd[t]
    <3>1. requests'[c] = <<t>> /\ replies'[c] = <<>>
      BY <1>t, <2>1, <2>2, <2>3, Single DEF Quiet
    <3>2. worker'[t] = "reading" /\ workerFd'[t] = c
      BY <1>t, <2>1, <2>2, <2>3
    <3> QED BY <3>1, <3>2 DEF Carries
  <2>4. CASE c # fd[t]
    <3>1. requests'[c] = requests[c] /\ replies'[c] = replies[c]
      BY <1>t, <2>1, <2>2, <2>4
    <3> QED BY <1>s, <1>t, <2>1, <3>1
  <2> QED BY <2>3, <2>4
<1>10. ASSUME NEW t \in Threads, SendToReset(t) PROVE Goal
  <2>1. /\ worker[t] = "idle" /\ worker' = [worker EXCEPT ![t] = "reading"]
        /\ workerFd' = [workerFd EXCEPT ![t] = Fd(t)]
        /\ UNCHANGED <<hostOpen, requests, replies, doubled>>
    BY <1>10 DEF SendToReset, historyVars
  <2> QED BY <1>s, <1>t, <2>1
<1>11. ASSUME NEW t \in Threads, SendToClosed(t) PROVE Goal
  BY <1>11, <1>s DEF SendToClosed, workerVars, connVars
<1>12. ASSUME NEW t \in Threads, Read(t) PROVE Goal
  <2>1. /\ worker[t] = "reading" /\ worker' = [worker EXCEPT ![t] = "idle"]
        /\ workerFd' = [workerFd EXCEPT ![t] = None]
        /\ replies[workerFd[t]] # <<>>
        /\ replies' = [replies EXCEPT ![workerFd[t]] = Tail(@)]
        /\ UNCHANGED <<hostOpen, requests, doubled>>
    BY <1>12 DEF Read, historyVars
  <2>2. workerFd[t] = fd[t] /\ fd[t] \in Conn /\ (Quiet(fd[t]) \/ Carries(fd[t], t))
    BY <2>1, WorkerFacts
  <2>3. CASE c = fd[t]
    <3>1. requests[c] = <<>> /\ replies[c] = <<t>>
      BY <2>1, <2>2, <2>3 DEF Quiet, Carries
    <3>2. requests'[c] = <<>> /\ replies'[c] = <<>>
      BY <1>t, <2>1, <2>2, <2>3, <3>1, Single
    <3> QED BY <3>2 DEF Quiet
  <2>4. CASE c # fd[t]
    <3>1. requests'[c] = requests[c] /\ replies'[c] = replies[c]
      BY <1>t, <2>1, <2>2, <2>4
    <3>2. \A u \in Threads : worker[u] = "reading" /\ workerFd[u] = c => u # t
      BY <2>2, <2>4
    <3> QED BY <1>s, <1>t, <2>1, <3>1, <3>2
  <2> QED BY <2>3, <2>4
<1>13. ASSUME NEW t \in Threads, ReadReset(t) \/ ReadEof(t) PROVE Goal
  <2>1. /\ worker[t] = "reading" /\ replies[workerFd[t]] = <<>> /\ wire[workerFd[t]] # "open"
        /\ \A u \in Threads \ {t} : worker'[u] = worker[u] /\ workerFd'[u] = workerFd[u]
        /\ UNCHANGED <<hostOpen, requests, replies, doubled>>
    BY <1>t, <1>13 DEF ReadReset, ReadEof, workerVars, connVars, historyVars
  <2>2. workerFd[t] = fd[t] /\ fd[t] \in Conn /\ hostOpen[fd[t]]
    BY <2>1, WorkerFacts
  <2>3. CASE c = fd[t]
    BY <1>a, <2>1, <2>2, <2>3 DEF EndInv, Quiet
  <2>4. CASE c # fd[t]
    <3>1. \A u \in Threads : worker[u] = "reading" /\ workerFd[u] = c => u # t
      BY <2>2, <2>4
    <3> QED BY <1>s, <2>1, <3>1
  <2> QED BY <2>3, <2>4
<1>14. CASE Listen \/ BindFails \/ AcceptConnection
  BY <1>14, <1>s DEF Listen, BindFails, AcceptConnection, workerVars, connVars,
     historyVars
<1>15. CASE HandleRequest
  <2>1. /\ conn \in Conn /\ requests[conn] # <<>>
        /\ requests' = [requests EXCEPT ![conn] = Tail(@)]
        /\ UNCHANGED <<workerVars, hostOpen, doubled>>
    BY <1>15, <1>a, Constants DEF HandleRequest, historyVars, EndInv, ConnOK
  <2>2. CASE c = conn
    <3>1. peer[conn] = "open"
      BY <1>a, <2>1, <2>2 DEF EndInv
    <3>2. replies' = [replies EXCEPT ![conn] = Append(replies[conn], Head(requests[conn]))]
      BY <1>15, <3>1 DEF HandleRequest, Answered
    <3>3. PICK u \in Threads : Carries(c, u)
      BY <1>a, <2>1, <2>2 DEF Quiet
    <3>4. requests[c] = <<u>> /\ replies[c] = <<>>
      BY <2>1, <2>2, <3>3 DEF Carries
    <3>5. requests'[c] = <<>> /\ replies'[c] = <<u>>
      BY <1>t, <2>1, <2>2, <3>2, <3>4, Single
    <3> QED BY <2>1, <3>3, <3>5 DEF Carries, workerVars
  <2>3. CASE c # conn
    <3>1. requests'[c] = requests[c] /\ replies'[c] = replies[c]
      BY <1>t, <1>15, <2>1, <2>3 DEF HandleRequest
    <3> QED BY <1>s, <2>1, <3>1 DEF workerVars
  <2> QED BY <2>2, <2>3
<1>16. CASE EndSession
  <2>1. /\ UNCHANGED <<workerVars, hostOpen, replies, doubled>>
        /\ requests'[c] = IF c \in Waiting THEN <<>> ELSE requests[c]
    BY <1>16 DEF EndSession, historyVars
  <2>2. CASE requests'[c] = requests[c]
    BY <1>s, <2>1, <2>2 DEF workerVars
  <2>3. CASE requests'[c] = <<>> /\ requests[c] # <<>>
    BY <1>a, <2>1, <2>3 DEF Quiet, Carries
  <2> QED BY <2>1, <2>2, <2>3
<1> QED
  BY <1>1, <1>2, <1>3, <1>4, <1>5, <1>6, <1>7, <1>8, <1>9, <1>10, <1>11, <1>12, <1>13,
     <1>14, <1>15, <1>16
  DEF Next, ThreadStep, WorkerStep, DeviceStep, SendAfterReset, HostDies

-----------------------------------------------------------------------------
LEMMA BacklogStep == IInv /\ [Next]_vars => BacklogInv'
<1> SUFFICES ASSUME IInv, [Next]_vars, ~overlapped' PROVE BacklogInv'
  BY DEF BacklogInv
<1>a. /\ ConnOK /\ FreshInv /\ EndInv /\ BacklogInv /\ backlog \in Seq(1 .. made)
      /\ wire \in [Conn -> {"open", "eof", "reset"}]
  BY Typing DEF IInv, TypeOK
<1>s. ASSUME ~overlapped, UNCHANGED <<devPc, backlog>>,
             \A c \in Conn : hostOpen'[c] => hostOpen[c] /\ wire'[c] = wire[c]
      PROVE  BacklogInv'
  BY <1>a, <1>s DEF BacklogInv
<1>1. CASE UNCHANGED vars
  BY <1>1, <1>s DEF vars, connVars, deviceVars, historyVars
<1>2. ASSUME NEW t \in Threads, NEW d \in Objects, TestConnected(t, d) PROVE BacklogInv'
  BY <1>2, <1>s DEF TestConnected, connVars, deviceVars
<1>3. ASSUME NEW t \in Threads, Connect(t) PROVE BacklogInv'
  <2>1. /\ ~overlapped /\ devPc = "accept" /\ backlog = <<>>
        /\ backlog' = Append(<<>>, made + 1) /\ UNCHANGED <<devPc, wire>>
    BY <1>3 DEF Connect
  <2>2. Len(backlog') = 1
    BY <1>a, <2>1, BacklogGrows DEF ConnOK
  <2>3. ASSUME NEW c \in Conn, hostOpen'[c] PROVE wire'[c] = "open"
    <3>1. hostOpen[c] \/ c = made + 1
      BY <1>3, <1>a, <2>3 DEF Connect, ConnOK
    <3>2. c = made + 1 => c > made
      BY <1>a DEF ConnOK
    <3> QED BY <1>a, <2>1, <3>1, <3>2 DEF BacklogInv, FreshInv
  <2> QED BY <2>1, <2>2, <2>3 DEF BacklogInv
<1>4. ASSUME NEW t \in Threads, ConnectFails(t) PROVE BacklogInv'
  BY <1>4, <1>s DEF ConnectFails, connVars, deviceVars, historyVars
<1>5. ASSUME NEW t \in Threads, StoreConnection(t) \/ Release(t) PROVE BacklogInv'
  BY <1>5, <1>s DEF StoreConnection, Release, connVars, deviceVars, historyVars
<1>6. ASSUME NEW t \in Threads, ReleaseJoined(t) PROVE BacklogInv'
  BY <1>6, <1>s DEF ReleaseJoined, Close, deviceVars, historyVars
<1>7. ASSUME Restarted PROVE BacklogInv'
  BY <1>7, <1>s DEF Restarted, Close, deviceVars
<1>8. ASSUME NEW t \in Threads, Send(t) \/ Read(t) PROVE BacklogInv'
  BY <1>8, <1>s DEF Send, Read, deviceVars, historyVars
<1>9. ASSUME NEW t \in Threads, SendToReset(t) PROVE BacklogInv'
  <2>1. /\ wire[Fd(t)] = "reset" /\ wire' = [wire EXCEPT ![Fd(t)] = "eof"]
        /\ UNCHANGED <<hostOpen, deviceVars, historyVars>>
    BY <1>9 DEF SendToReset
  <2>2. \A c \in Conn : hostOpen[c] => c # Fd(t)
    BY <1>a, <2>1 DEF BacklogInv, historyVars
  <2> QED BY <1>a, <1>s, <2>1, <2>2 DEF deviceVars, historyVars
<1>10. ASSUME NEW t \in Threads, ReadReset(t) PROVE BacklogInv'
  <2>1. /\ wire[workerFd[t]] = "reset" /\ wire' = [wire EXCEPT ![workerFd[t]] = "eof"]
        /\ UNCHANGED <<hostOpen, deviceVars, overlapped>>
    BY <1>10 DEF ReadReset
  <2>2. \A c \in Conn : hostOpen[c] => c # workerFd[t]
    BY <1>a, <2>1 DEF BacklogInv
  <2> QED BY <1>a, <1>s, <2>1, <2>2 DEF deviceVars
<1>11. ASSUME NEW t \in Threads, SendToClosed(t) \/ ReadEof(t) PROVE BacklogInv'
  BY <1>11, <1>s DEF SendToClosed, ReadEof, connVars, deviceVars
<1>12. CASE Listen \/ BindFails
  BY <1>12, <1>a DEF Listen, BindFails, BacklogInv, connVars, historyVars
<1>13. CASE AcceptConnection
  <2>1. Len(Tail(backlog)) <= 1 /\ Tail(backlog) = <<>>
    BY <1>13, <1>a, BacklogSteps DEF AcceptConnection, BacklogInv, historyVars, ConnOK
  <2> QED BY <1>13, <1>a, <2>1 DEF AcceptConnection, BacklogInv, connVars, historyVars
<1>14. CASE HandleRequest
  BY <1>14, <1>s DEF HandleRequest, deviceVars, historyVars
<1>15. CASE EndSession
  <2>1. /\ devPc = "serve" /\ ~hostOpen[conn] /\ ~overlapped
    BY <1>15, <1>a, Constants DEF EndSession, SessionOver, EndInv, ConnOK, historyVars
  <2>2. Waiting = {}
    BY <1>a, <2>1 DEF BacklogInv, Waiting
  <2>3. /\ backlog' = <<>> /\ UNCHANGED hostOpen
        /\ \A c \in Conn : c # conn => wire'[c] = wire[c]
    BY <1>15, <2>2 DEF EndSession
  <2>4. \A c \in Conn : hostOpen'[c] => wire'[c] = "open"
    BY <1>a, <2>1, <2>3 DEF BacklogInv
  <2> QED BY <2>3, <2>4 DEF BacklogInv
<1> QED
  BY <1>1, <1>2, <1>3, <1>4, <1>5, <1>6, <1>7, <1>8, <1>9, <1>10, <1>11, <1>12, <1>13,
     <1>14, <1>15
  DEF Next, ThreadStep, WorkerStep, DeviceStep, SendAfterReset, HostDies

-----------------------------------------------------------------------------
(* A worker loses a command only on a connection that is closed or reset,  *)
(* and while nothing overlaps its own is neither.                          *)
LEMMA LostStep == IInv /\ [Next]_vars => LostByOverlap'
<1> SUFFICES ASSUME IInv, [Next]_vars, ~overlapped', ~doubled' PROVE ~lost'
  BY DEF LostByOverlap
<1>a. ~overlapped /\ ~doubled => ~lost
  BY DEF IInv, LostByOverlap
<1>b. ASSUME ~overlapped, ~doubled, NEW t \in Threads
      PROVE  /\ worker[t] = "idle" => hostOpen[Fd(t)] /\ wire[Fd(t)] = "open"
             /\ worker[t] = "reading" => wire[workerFd[t]] = "open"
  BY <1>b, WorkerFacts DEF IInv, BacklogInv
<1>1. CASE UNCHANGED <<overlapped, doubled, lost>>
  BY <1>1, <1>a
<1>2. ASSUME NEW t \in Threads, NEW d \in Objects, TestConnected(t, d) PROVE ~lost'
  BY <1>2, <1>a DEF TestConnected
<1>3. ASSUME NEW t \in Threads, Connect(t) PROVE ~lost'
  BY <1>3, <1>a DEF Connect
<1>4. ASSUME NEW t \in Threads, SendAfterReset(t) PROVE FALSE
  BY <1>4, <1>b DEF SendAfterReset, Restarted
<1>5. ASSUME NEW t \in Threads, SendToClosed(t) PROVE FALSE
  BY <1>5, <1>b DEF SendToClosed
<1>6. ASSUME NEW t \in Threads, ReadReset(t) \/ ReadEof(t) PROVE FALSE
  BY <1>6, <1>b DEF ReadReset, ReadEof
<1>7. ASSUME NEW t \in Threads,
             ConnectFails(t) \/ StoreConnection(t) \/ ReleaseJoined(t) \/ Release(t)
               \/ Send(t) \/ SendToReset(t) \/ Read(t)
      PROVE  ~lost'
  BY <1>7, <1>1 DEF ConnectFails, StoreConnection, ReleaseJoined, Release, Send,
     SendToReset,
                    Read, historyVars
<1>8. CASE DeviceStep \/ HostDies \/ UNCHANGED vars
  BY <1>8, <1>1 DEF DeviceStep, Listen, BindFails, AcceptConnection, HandleRequest,
     EndSession,
                    HostDies, Restarted, vars, historyVars
<1> QED
  BY <1>2, <1>3, <1>4, <1>5, <1>6, <1>7, <1>8 DEF Next, ThreadStep, WorkerStep

-----------------------------------------------------------------------------
(* The invariant holds in every state of every execution.                  *)
THEOREM Invariance == Spec => []IInv
<1>1. IInv /\ [Next]_vars => IInv'
  BY TypeStep, ThreadStepInv, DistinctStep, FreshStep, EndStep, ObjectStep, TrafficStep,
     BacklogStep, LostStep DEF IInv
<1> QED BY InitInv, <1>1, PTL DEF Spec

(* Connections, queues and the device always have their types.             *)
THEOREM TypeCorrect == Spec => []TypeOK
<1>1. IInv => TypeOK
  BY DEF IInv
<1> QED BY Invariance, <1>1, PTL

(* cl_cqueue.c:45, one connection to a device: an object is connected      *)
(* exactly while one queue is alive on it, over an open connection of its  *)
(* own, unless two threads passed the unlocked test together.              *)
THEOREM ObjectHasOneQueue == Spec => []OneQueuePerObject
<1>1. IInv => OneQueuePerObject
  <2> SUFFICES ASSUME IInv, ~doubled, NEW d \in Objects
               PROVE  /\ connected[d] <=> Owners(d) # {}
                      /\ \A t \in Owners(d) :
                           Owners(d) = {t} /\ fd_ctrl[d] = fd[t] /\ hostOpen[fd[t]]
    BY DEF OneQueuePerObject
  <2>1. ObjectInv
    BY DEF IInv
  <2>2. connected[d] <=> Owners(d) # {}
    BY <2>1 DEF ObjectInv, Owners, Owning
  <2>3. ASSUME NEW t \in Owners(d)
        PROVE  Owners(d) = {t} /\ fd_ctrl[d] = fd[t] /\ hostOpen[fd[t]]
    <3>1. t \in Threads /\ pc[t] \in Owning /\ pc[t] \in Connecting /\ dev[t] = d
      BY DEF Owners, Owning, Connecting
    <3>2. \A u \in Owners(d) : u \in Threads /\ pc[u] # "out" /\ dev[u] = d
      BY DEF Owners
    <3>3. \A u \in Owners(d) : u = t
      BY <2>1, <3>1, <3>2 DEF ObjectInv, Owning
    <3>4. fd_ctrl[d] = fd[t] /\ hostOpen[fd[t]]
      BY <2>1, <3>1 DEF ObjectInv
    <3> QED BY <3>3, <3>4
  <2> QED BY <2>2, <2>3
<1> QED BY Invariance, <1>1, PTL

(* An open connection carries at most one message, and it belongs to the   *)
(* queue that is reading there, unless two threads passed the test         *)
(* together: dev_read never takes another command's answer.                *)
THEOREM AnswersAreOwn == Spec => []OwnAnswers
<1>1. IInv => OwnAnswers
  <2> SUFFICES ASSUME IInv, ~doubled, NEW c \in Conn, hostOpen[c],
                      NEW i \in 1 .. Len(requests[c] \o replies[c])
               PROVE  LET t == (requests[c] \o replies[c])[i]
                      IN  i = 1 /\ worker[t] = "reading" /\ workerFd[t] = c
    BY DEF OwnAnswers
  <2>1. Quiet(c) \/ \E t \in Threads : Carries(c, t)
    BY DEF IInv, TrafficInv
  <2>2. ~Quiet(c)
    <3>1. <<>> \o <<>> = <<>> /\ Len(<<>>) = 0
      OBVIOUS
    <3>2. Quiet(c) => Len(requests[c] \o replies[c]) = 0
      BY <3>1 DEF Quiet
    <3>3. 1 .. 0 = {}
      OBVIOUS
    <3> QED BY <3>2, <3>3
  <2>3. PICK t \in Threads : Carries(c, t)
    BY <2>1, <2>2
  <2>4. requests[c] \o replies[c] = <<t>>
    BY <2>3, Single DEF Carries
  <2>5. i = 1 /\ <<t>>[i] = t
    BY <2>4
  <2> QED BY <2>3, <2>4, <2>5 DEF Carries
<1> QED BY Invariance, <1>1, PTL

(* A command goes unanswered only over a connection made before the device *)
(* had noticed the previous one's end, or after two threads passed the     *)
(* test together.                                                          *)
THEOREM LossesAreOverlaps == Spec => []LostByOverlap
<1>1. IInv => LostByOverlap
  BY DEF IInv
<1> QED BY Invariance, <1>1, PTL
=============================================================================
