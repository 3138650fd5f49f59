------------------------ MODULE DeviceMemoryProofs --------------------------
(***************************************************************************)
(* Proofs about DeviceMemory, for any memory, buffers, values and number   *)
(* of commands: types, that buffers do not overlap and the device stays in *)
(* its memory as long as they fit, that clFinish delivers what was read,   *)
(* and, for kernels called with the first buffers, that the commands act   *)
(* on their own buffers as BufferStore says.                               *)
(***************************************************************************)
EXTENDS DeviceMemory, SequenceTheorems, TLAPS

-----------------------------------------------------------------------------
(* The inductive invariant. *)

BufferType == [offset : Nat, size : Sizes]
CallType ==
  [op : {"write"}, buf : Nat, data : Seq(Data)] \cup [op : {"read", "map"}, buf : Nat]
    \cup [op : {"unmap"}, of : Nat] \cup [op : {"copy"}, from : Nat, to : Nat, len : Sizes]
    \cup [op : {"nothing"}]
PacketType ==
  [cmdId : {"write"}, offset : Nat, data : Seq(Data)]
    \cup [cmdId : {"read"}, offset : Nat, accessLength : Nat] \cup [cmdId : {"free"}, region : Nat]
    \cup [cmdId : {"start"}, from : Nat, to : Nat, work : Nat] \cup [cmdId : {"none"}]
ResultType == {NotYet, Gone} \cup Seq(Data)

StreamInv ==
  /\ issued \in 0 .. MaxCmds /\ executed \in Seq(Nat) /\ Len(executed) <= issued
  /\ finishing \subseteq Threads /\ target \in [Threads -> Nat]
  /\ \A t \in Threads : target[t] <= issued

CmdTypeInv ==
  /\ asked \in Seq(CallType) /\ Len(asked) = issued
  /\ packet \in Seq(PacketType) /\ Len(packet) = issued
  /\ ret \in Seq(ResultType) /\ Len(ret) = issued

MemoryInv == memory \in [Cell -> Data] /\ source \in Values /\ overrun \in BOOLEAN

End(b) == buffers[b].offset + buffers[b].size

(* Buffers lie one behind the other, the first two without a gap.          *)
LayoutInv ==
  /\ buffers \in Seq(BufferType) /\ live \subseteq Buffer /\ mem_alloc_offset \in Nat
  /\ \A b \in Buffer : End(b) <= mem_alloc_offset
  /\ \A a, b \in Buffer : a < b => End(a) <= buffers[b].offset
  /\ buffers = <<>> => mem_alloc_offset = 0
  /\ Len(buffers) = 1 => mem_alloc_offset = buffers[1].size
  /\ 1 \in Buffer => buffers[1].offset = 0
  /\ 2 \in Buffer => buffers[2].offset = buffers[1].size

(* Which packet each call has left. *)
Work(a, b) == IF buffers[a].size < buffers[b].size THEN buffers[a].size ELSE buffers[b].size

WritePacket(c, p) ==
  \E b \in Buffer : \E data \in [1 .. buffers[b].size -> Data] :
    /\ c = [op |-> "write", buf |-> b, data |-> data]
    /\ p = [cmdId |-> "write", offset |-> buffers[b].offset, data |-> data]
ReadPacket(c, p) ==
  \E b \in Buffer, op \in {"read", "map"} :
    /\ c = [op |-> op, buf |-> b]
    /\ p = [cmdId |-> "read", offset |-> buffers[b].offset, accessLength |-> buffers[b].size]
FreePacket(n, c, p) ==
  \E m \in 1 .. n - 1 :
    /\ c = [op |-> "unmap", of |-> m]
    /\ p = [cmdId |-> "free", region |-> m]
    /\ asked[m].op = "map"
StartPacket(c, p) ==
  \E a, b \in Buffer :
    /\ a # b /\ (ArgsInOrder => a = 1 /\ b = 2)
    /\ c = [op |-> "copy", from |-> a, to |-> b, len |-> Work(a, b)]
    /\ p = [cmdId |-> "start", from |-> 0, to |-> buffers[a].size, work |-> Work(a, b)]
NonePacket(c, p) == c = [op |-> "nothing"] /\ p = NoPacket

Matching(n, c, p) ==
  \/ WritePacket(c, p) \/ ReadPacket(c, p) \/ FreePacket(n, c, p)
  \/ StartPacket(c, p) \/ NonePacket(c, p)

PacketInv == \A n \in 1 .. issued : Matching(n, asked[n], packet[n])

(* A region is unmapped once, and results come with their commands.        *)
Unmaps(k, n) == asked[k].op = "unmap" /\ asked[k].of = n

UnmapInv == \A k, l, n \in 1 .. issued : Unmaps(k, n) /\ Unmaps(l, n) => k = l

ResultInv ==
  \A n \in 1 .. issued :
    /\ n > Len(executed) => ret[n] = NotYet
    /\ n <= Len(executed) /\ asked[n].op \in {"read", "map"} => ret[n] # NotYet
    /\ ret[n] = Gone => \E k \in 1 .. Len(executed) : Unmaps(k, n)

OverrunInv == overrun => mem_alloc_offset > GLOBAL_MEMORY_SIZE

IInv ==
  /\ StreamInv /\ CmdTypeInv /\ MemoryInv /\ LayoutInv
  /\ PacketInv /\ UnmapInv /\ ResultInv /\ OverrunInv

-----------------------------------------------------------------------------
(* Sequences. *)

LEMMA Appended ==
  ASSUME NEW S, NEW s \in Seq(S), NEW x \in S
  PROVE  /\ Append(s, x) \in Seq(S) /\ Len(Append(s, x)) = Len(s) + 1 /\ Len(s) \in Nat
         /\ \A i \in 1 .. Len(s) : Append(s, x)[i] = s[i] /\ s[i] \in S
         /\ Append(s, x)[Len(s) + 1] = x
OBVIOUS

LEMMA Updated ==
  ASSUME NEW S, NEW s \in Seq(S), NEW i \in 1 .. Len(s), NEW x \in S
  PROVE  /\ [s EXCEPT ![i] = x] \in Seq(S) /\ Len([s EXCEPT ![i] = x]) = Len(s)
         /\ [s EXCEPT ![i] = x][i] = x
         /\ \A j \in 1 .. Len(s) : j # i => [s EXCEPT ![i] = x][j] = s[j]
OBVIOUS

LEMMA Tuple ==
  ASSUME NEW S, NEW n \in Nat, NEW f \in [1 .. n -> S]
  PROVE  f \in Seq(S) /\ Len(f) = n
OBVIOUS

LEMMA Element ==
  ASSUME NEW S, NEW s \in Seq(S), NEW i \in 1 .. Len(s)
  PROVE  s[i] \in S
OBVIOUS

-----------------------------------------------------------------------------
LEMMA InitInv == InitMemory => IInv
<1> SUFFICES ASSUME InitMemory PROVE IInv
  OBVIOUS
<1> USE DEF InitMemory, Init, Cell, Data, Buffer
<1>1. StreamInv
  BY BoundsAssumption, EmptySeq DEF StreamInv
<1>2. CmdTypeInv
  BY EmptySeq DEF CmdTypeInv
<1>3. MemoryInv
  BY DEF MemoryInv
<1>4. LayoutInv
  BY EmptySeq DEF LayoutInv
<1>5. PacketInv /\ UnmapInv /\ ResultInv /\ OverrunInv
  BY DEF PacketInv, UnmapInv, ResultInv, OverrunInv
<1> QED BY <1>1, <1>2, <1>3, <1>4, <1>5 DEF IInv

-----------------------------------------------------------------------------
(* A command is enqueued with its packet. *)

Accepted == Accept \/ \E t \in Threads : AcceptAndFinish(t)

LEMMA BufferFacts ==
  ASSUME LayoutInv, NEW b \in Buffer
  PROVE  /\ buffers[b] \in BufferType /\ buffers[b].offset \in Nat /\ buffers[b].size \in Sizes
         /\ buffers[b].size \in Nat \ {0}
<1>1. buffers[b] \in BufferType
  BY Element DEF LayoutInv, Buffer
<1> QED BY <1>1, SizesAssumption DEF BufferType

LEMMA Operations ==
  ASSUME NEW n, NEW c, NEW p
  PROVE  /\ WritePacket(c, p) => c.op = "write" /\ p.cmdId = "write"
         /\ ReadPacket(c, p) => c.op \in {"read", "map"} /\ p.cmdId = "read"
         /\ FreePacket(n, c, p) => c.op = "unmap" /\ p.cmdId = "free"
         /\ StartPacket(c, p) => c.op = "copy" /\ p.cmdId = "start"
         /\ NonePacket(c, p) => c.op = "nothing" /\ p.cmdId = "none"
<1>1. WritePacket(c, p) => c.op = "write" /\ p.cmdId = "write"
  BY DEF WritePacket
<1>2. ReadPacket(c, p) => c.op \in {"read", "map"} /\ p.cmdId = "read"
  BY DEF ReadPacket
<1>3. FreePacket(n, c, p) => c.op = "unmap" /\ p.cmdId = "free"
  BY DEF FreePacket
<1>4. StartPacket(c, p) => c.op = "copy" /\ p.cmdId = "start"
  BY DEF StartPacket
<1>5. NonePacket(c, p) => c.op = "nothing" /\ p.cmdId = "none"
  BY DEF NonePacket, NoPacket
<1> QED BY <1>1, <1>2, <1>3, <1>4, <1>5

LEMMA Enqueueing ==
  ASSUME IInv, BufferCommand
  PROVE  \E c \in CallType, p \in PacketType :
           /\ Enqueued(c, p) /\ Accepted
           /\ Matching(issued + 1, c, p)
           /\ \A k, n \in 1 .. issued : c.op = "unmap" /\ c.of = n => ~Unmaps(k, n)
<1> DEFINE Goal(c, p) ==
      /\ Enqueued(c, p) /\ Accepted
      /\ Matching(issued + 1, c, p)
      /\ \A k, n \in 1 .. issued : c.op = "unmap" /\ c.of = n => ~Unmaps(k, n)
<1>a. /\ StreamInv /\ CmdTypeInv /\ MemoryInv /\ LayoutInv /\ PacketInv
      /\ \A b \in live : b \in Buffer /\ b \in Nat
  BY DEF IInv, LayoutInv, Buffer
<1>b. issued \in Nat /\ Len(asked) = issued
  BY <1>a DEF StreamInv, CmdTypeInv
<1>1. ASSUME NEW b \in live, EnqueueWriteBuffer(b)
      PROVE  \E c \in CallType, p \in PacketType : Goal(c, p)
  <2> DEFINE data == Filled(buffers[b].size)
             c == [op |-> "write", buf |-> b, data |-> data]
             p == [cmdId |-> "write", offset |-> buffers[b].offset, data |-> data]
  <2>1. data \in [1 .. buffers[b].size -> Data] /\ data \in Seq(Data)
    BY <1>a, BufferFacts, Tuple DEF Filled, MemoryInv, Data
  <2> HIDE DEF data
  <2>2. c \in CallType /\ p \in PacketType
    BY <1>a, <2>1, BufferFacts DEF CallType, PacketType
  <2>3. WritePacket(c, p)
    BY <1>a, <2>1 DEF WritePacket
  <2>4. Enqueued(c, p) /\ Accept
    BY <1>1 DEF EnqueueWriteBuffer, data
  <2>5. c.op # "unmap"
    OBVIOUS
  <2> HIDE DEF c, p
  <2> QED BY <2>2, <2>3, <2>4, <2>5 DEF Accepted, Matching
<1>2. ASSUME NEW b \in live, NEW op \in {"read", "map"}, Accepted, Reading(op, b)
      PROVE  \E c \in CallType, p \in PacketType : Goal(c, p)
  <2> DEFINE c == [op |-> op, buf |-> b]
             p == [cmdId |-> "read", offset |-> buffers[b].offset,
                   accessLength |-> buffers[b].size]
  <2>2. c \in CallType /\ p \in PacketType
    BY <1>a, BufferFacts DEF CallType, PacketType
  <2>3. ReadPacket(c, p)
    BY <1>a DEF ReadPacket
  <2>4. Enqueued(c, p) /\ Accepted
    BY <1>2 DEF Reading
  <2>5. c.op # "unmap"
    OBVIOUS
  <2> HIDE DEF c, p
  <2> QED BY <2>2, <2>3, <2>4, <2>5 DEF Matching
<1>3. ASSUME NEW m \in 1 .. Len(asked), EnqueueUnmapMemObject(m)
      PROVE  \E c \in CallType, p \in PacketType : Goal(c, p)
  <2> DEFINE c == [op |-> "unmap", of |-> m]
             p == [cmdId |-> "free", region |-> m]
  <2>1. m \in Nat /\ m \in 1 .. (issued + 1) - 1 /\ asked[m].op = "map"
    BY <1>3, <1>b DEF EnqueueUnmapMemObject
  <2>2. c \in CallType /\ p \in PacketType
    BY <2>1 DEF CallType, PacketType
  <2>3. FreePacket(issued + 1, c, p)
    BY <2>1 DEF FreePacket
  <2>4. Enqueued(c, p) /\ Accept /\ \A n \in 1 .. Len(asked) : asked[n] # c
    BY <1>3 DEF EnqueueUnmapMemObject
  <2>5. ASSUME NEW k \in 1 .. issued, Unmaps(k, m) PROVE FALSE
    <3>1. Matching(k, asked[k], packet[k]) /\ asked[k].op = "unmap" /\ asked[k].of = m
      BY <1>a, <2>5 DEF PacketInv, Unmaps
    <3>2. FreePacket(k, asked[k], packet[k])
      BY <3>1, Operations DEF Matching
    <3>3. asked[k] = c
      BY <3>1, <3>2 DEF FreePacket
    <3> QED BY <1>b, <2>4, <3>3
  <2>6. c.of = m
    OBVIOUS
  <2> HIDE DEF c, p
  <2> QED BY <2>2, <2>3, <2>4, <2>5, <2>6 DEF Accepted, Matching
<1>4. ASSUME NEW a \in live, NEW b \in live, EnqueueNDRangeKernel(a, b)
      PROVE  \E c \in CallType, p \in PacketType : Goal(c, p)
  <2> DEFINE c == [op |-> "copy", from |-> a, to |-> b, len |-> Work(a, b)]
             p == [cmdId |-> "start", from |-> 0, to |-> buffers[a].size, work |-> Work(a, b)]
  <2>1. ArgOffset(<<>>) = 0 /\ ArgOffset(<<buffers[a].size>>) = buffers[a].size
    BY DEF ArgOffset
  <2>2. Work(a, b) \in Sizes /\ Work(a, b) \in Nat
    BY <1>a, BufferFacts DEF Work
  <2>3. c \in CallType /\ p \in PacketType
    BY <1>a, <2>2, BufferFacts DEF CallType, PacketType
  <2>4. StartPacket(c, p)
    BY <1>a, <1>4 DEF StartPacket, EnqueueNDRangeKernel
  <2>5. Enqueued(c, p) /\ Accept
    BY <1>4, <2>1 DEF EnqueueNDRangeKernel, Work
  <2>6. c.op # "unmap"
    OBVIOUS
  <2> HIDE DEF c, p
  <2> QED BY <2>3, <2>4, <2>5, <2>6 DEF Accepted, Matching
<1>5. ASSUME EnqueueNothing
      PROVE  \E c \in CallType, p \in PacketType : Goal(c, p)
  <2> DEFINE c == [op |-> "nothing"]
  <2>1. c \in CallType /\ NoPacket \in PacketType /\ NonePacket(c, NoPacket)
    BY DEF CallType, PacketType, NoPacket, NonePacket
  <2>2. Enqueued(c, NoPacket) /\ Accept /\ c.op # "unmap"
    BY <1>5 DEF EnqueueNothing
  <2> HIDE DEF c
  <2> QED BY <2>1, <2>2 DEF Accepted, Matching
<1>6. ASSUME NEW b \in live, EnqueueReadBuffer(b) \/ \E t \in Threads : EnqueueMapBuffer(t, b)
      PROVE  \E op \in {"read", "map"} : Accepted /\ Reading(op, b)
  BY <1>6 DEF EnqueueReadBuffer, EnqueueMapBuffer, Accepted
<1> HIDE DEF Goal
<1>7. \E c \in CallType, p \in PacketType : Goal(c, p)
  BY <1>1, <1>2, <1>3, <1>4, <1>5, <1>6 DEF BufferCommand
<1> QED BY <1>7 DEF Goal

-----------------------------------------------------------------------------
(* Every action preserves the invariant. *)

LEMMA Kept ==
  /\ StreamInv /\ UNCHANGED streamVars => StreamInv'
  /\ CmdTypeInv /\ UNCHANGED <<issued, cmdVars>> => CmdTypeInv'
  /\ MemoryInv /\ UNCHANGED <<source, deviceVars>> => MemoryInv'
  /\ LayoutInv /\ UNCHANGED bufferVars => LayoutInv'
  /\ PacketInv /\ UNCHANGED <<issued, asked, packet, buffers>> => PacketInv'
  /\ UnmapInv /\ UNCHANGED <<issued, asked>> => UnmapInv'
  /\ ResultInv /\ UNCHANGED <<issued, executed, asked, ret>> => ResultInv'
  /\ OverrunInv /\ UNCHANGED <<overrun, mem_alloc_offset>> => OverrunInv'
<1>1. StreamInv /\ UNCHANGED streamVars => StreamInv'
  BY DEF StreamInv, streamVars, vars
<1>2. CmdTypeInv /\ UNCHANGED <<issued, cmdVars>> => CmdTypeInv'
  BY DEF CmdTypeInv, cmdVars
<1>3. MemoryInv /\ UNCHANGED <<source, deviceVars>> => MemoryInv'
  BY DEF MemoryInv, deviceVars
<1>4. LayoutInv /\ UNCHANGED bufferVars => LayoutInv'
  BY DEF LayoutInv, bufferVars, Buffer, End
<1>5. PacketInv /\ UNCHANGED <<issued, asked, packet, buffers>> => PacketInv'
  <2> SUFFICES ASSUME PacketInv, UNCHANGED <<issued, asked, packet, buffers>>,
                      NEW n \in 1 .. issued
               PROVE  Matching(n, asked[n], packet[n])'
    BY DEF PacketInv
  <2>1. Matching(n, asked[n], packet[n])
    BY DEF PacketInv
  <2>2. WritePacket(asked[n], packet[n]) => WritePacket(asked[n], packet[n])'
    BY DEF WritePacket, Buffer
  <2>3. ReadPacket(asked[n], packet[n]) => ReadPacket(asked[n], packet[n])'
    BY DEF ReadPacket, Buffer
  <2>4. FreePacket(n, asked[n], packet[n]) => FreePacket(n, asked[n], packet[n])'
    BY DEF FreePacket
  <2>5. StartPacket(asked[n], packet[n]) => StartPacket(asked[n], packet[n])'
    BY DEF StartPacket, Buffer, Work
  <2>6. NonePacket(asked[n], packet[n]) => NonePacket(asked[n], packet[n])'
    BY DEF NonePacket
  <2> QED BY <2>1, <2>2, <2>3, <2>4, <2>5, <2>6 DEF Matching
<1>6. UnmapInv /\ UNCHANGED <<issued, asked>> => UnmapInv'
  BY DEF UnmapInv, Unmaps
<1>7. ResultInv /\ UNCHANGED <<issued, executed, asked, ret>> => ResultInv'
  BY DEF ResultInv, Unmaps
<1>8. OverrunInv /\ UNCHANGED <<overrun, mem_alloc_offset>> => OverrunInv'
  BY DEF OverrunInv
<1> QED BY <1>1, <1>2, <1>3, <1>4, <1>5, <1>6, <1>7, <1>8

LEMMA StutterStep == IInv /\ UNCHANGED allVars => IInv'
BY Kept DEF IInv, allVars, streamVars, vars, bufferVars, cmdVars, deviceVars

LEMMA CreateStep ==
  ASSUME IInv, NEW size \in Sizes, CreateBuffer(size)
  PROVE  IInv'
<1> DEFINE new == [offset |-> mem_alloc_offset, size |-> size]
<1>1. /\ buffers' = Append(buffers, new) /\ live' = live \cup {Len(buffers) + 1}
      /\ mem_alloc_offset' = mem_alloc_offset + size
      /\ UNCHANGED <<streamVars, cmdVars, deviceVars, source>>
  BY DEF CreateBuffer, Advanced
<1>2. LayoutInv /\ size \in Nat \ {0} /\ mem_alloc_offset \in Nat /\ new \in BufferType
      /\ live \subseteq Buffer /\ (buffers = <<>> => mem_alloc_offset = 0)
  BY SizesAssumption DEF IInv, LayoutInv, BufferType
<1>3. new.offset = mem_alloc_offset /\ new.size = size
  OBVIOUS
<1> HIDE DEF new
<1>n. PICK N \in Nat : N = Len(buffers)
  BY <1>2 DEF LayoutInv
<1>4. /\ buffers' \in Seq(BufferType) /\ Len(buffers') = N + 1
      /\ \A b \in Buffer : buffers'[b] = buffers[b]
      /\ buffers'[N + 1] = new
  BY <1>1, <1>2, <1>n, Appended DEF LayoutInv, Buffer
<1>5. Buffer' = Buffer \cup {N + 1} /\ Buffer = 1 .. N
  BY <1>4, <1>n DEF Buffer
<1>6. LayoutInv'
  <2>1. live' \subseteq Buffer' /\ mem_alloc_offset' \in Nat
    <3>1. mem_alloc_offset' \in Nat
      BY <1>1, <1>2
    <3>2. live' = live \cup {N + 1}
      BY <1>1, <1>n
    <3> QED BY <1>2, <1>5, <3>1, <3>2
  <2>2. \A b \in Buffer : End(b)' = End(b) /\ End(b) \in Nat /\ End(b) <= mem_alloc_offset
    BY <1>2, <1>4, BufferFacts DEF End, LayoutInv
  <2>3. End(N + 1)' = mem_alloc_offset + size
    BY <1>3, <1>4 DEF End
  <2>4. \A b \in Buffer' : End(b)' <= mem_alloc_offset'
    BY <1>1, <1>2, <1>5, <2>2, <2>3
  <2>5. \A a, b \in Buffer' : a < b => End(a)' <= buffers'[b].offset
    <3>1. ASSUME NEW a \in Buffer, NEW b \in Buffer, a < b PROVE End(a)' <= buffers'[b].offset
      BY <1>2, <1>4, <2>2, <3>1 DEF LayoutInv
    <3>2. ASSUME NEW a \in Buffer PROVE End(a)' <= buffers'[N + 1].offset
      BY <1>3, <1>4, <2>2
    <3>3. \A a \in Buffer' : a \in Nat /\ a <= N + 1
      BY <1>5
    <3> QED BY <1>4, <1>5, <3>1, <3>2, <3>3
  <2>6. buffers' # <<>>
    BY <1>4
  <2>7. Len(buffers') = 1 => mem_alloc_offset' = buffers'[1].size
    <3>1. N = 0 => buffers = <<>>
      BY <1>2, <1>n, EmptySeq DEF LayoutInv
    <3> QED BY <1>1, <1>2, <1>3, <1>4, <3>1
  <2>8. 1 \in Buffer' => buffers'[1].offset = 0
    <3>1. N = 0 => buffers = <<>>
      BY <1>2, <1>n, EmptySeq DEF LayoutInv
    <3>2. N > 0 => buffers'[1].offset = 0
      BY <1>2, <1>4, <1>5 DEF LayoutInv
    <3> QED BY <1>2, <1>3, <1>4, <3>1, <3>2
  <2>9. 2 \in Buffer' => buffers'[2].offset = buffers'[1].size
    <3>1. N = 1 => buffers'[2].offset = buffers'[1].size
      BY <1>2, <1>3, <1>4, <1>5, <1>n DEF LayoutInv
    <3>2. N > 1 => buffers'[2].offset = buffers'[1].size
      BY <1>2, <1>4, <1>5 DEF LayoutInv
    <3> QED BY <1>5, <3>1, <3>2
  <2> QED BY <1>4, <2>1, <2>4, <2>5, <2>6, <2>7, <2>8, <2>9 DEF LayoutInv
<1>7. PacketInv'
  <2> SUFFICES ASSUME NEW n \in 1 .. issued PROVE Matching(n, asked[n], packet[n])'
    BY <1>1 DEF PacketInv, streamVars, vars, cmdVars
  <2>1. Matching(n, asked[n], packet[n]) /\ UNCHANGED <<asked, packet>>
    BY <1>1 DEF IInv, PacketInv, cmdVars
  <2>2. WritePacket(asked[n], packet[n]) => WritePacket(asked[n], packet[n])'
    BY <1>4, <1>5, <2>1 DEF WritePacket
  <2>3. ReadPacket(asked[n], packet[n]) => ReadPacket(asked[n], packet[n])'
    BY <1>4, <1>5, <2>1 DEF ReadPacket
  <2>4. FreePacket(n, asked[n], packet[n]) => FreePacket(n, asked[n], packet[n])'
    BY <2>1 DEF FreePacket
  <2>5. StartPacket(asked[n], packet[n]) => StartPacket(asked[n], packet[n])'
    <3> SUFFICES ASSUME StartPacket(asked[n], packet[n])
                 PROVE  StartPacket(asked[n], packet[n])'
      OBVIOUS
    <3>1. PICK a \in Buffer, b \in Buffer :
            /\ a # b /\ (ArgsInOrder => a = 1 /\ b = 2)
            /\ asked[n] = [op |-> "copy", from |-> a, to |-> b, len |-> Work(a, b)]
            /\ packet[n] = [cmdId |-> "start", from |-> 0, to |-> buffers[a].size,
                            work |-> Work(a, b)]
      BY DEF StartPacket
    <3>2. Work(a, b)' = Work(a, b) /\ buffers'[a].size = buffers[a].size
          /\ a \in Buffer' /\ b \in Buffer'
      BY <1>4, <1>5 DEF Work
    <3> QED BY <2>1, <3>1, <3>2 DEF StartPacket
  <2>6. NonePacket(asked[n], packet[n]) => NonePacket(asked[n], packet[n])'
    BY <2>1 DEF NonePacket
  <2> QED BY <2>1, <2>2, <2>3, <2>4, <2>5, <2>6 DEF Matching
<1>8. OverrunInv'
  <2>1. GLOBAL_MEMORY_SIZE \in Nat /\ OverrunInv
    BY SizesAssumption DEF IInv
  <2> QED BY <1>1, <1>2, <2>1 DEF OverrunInv, deviceVars
<1> QED BY <1>1, <1>6, <1>7, <1>8, Kept DEF IInv, streamVars, vars, cmdVars

LEMMA EnqueueStep == IInv /\ BufferCommand => IInv'
<1> SUFFICES ASSUME IInv, BufferCommand PROVE IInv'
  OBVIOUS
<1>1. PICK c \in CallType, p \in PacketType :
        /\ Enqueued(c, p) /\ Accepted /\ Matching(issued + 1, c, p)
        /\ \A k, n \in 1 .. issued : c.op = "unmap" /\ c.of = n => ~Unmaps(k, n)
  BY Enqueueing
<1>2. /\ issued < MaxCmds
      /\ asked' = Append(asked, c) /\ packet' = Append(packet, p) /\ ret' = Append(ret, NotYet)
      /\ UNCHANGED <<bufferVars, deviceVars, source>>
  BY <1>1 DEF Enqueued
<1>3. StreamInv /\ CmdTypeInv /\ PacketInv /\ UnmapInv /\ ResultInv /\ issued \in Nat
  BY DEF IInv, StreamInv
<1>n. PICK N \in Nat : N = issued
  BY <1>3
<1>4. issued' = issued + 1 /\ UNCHANGED executed
  BY <1>1 DEF Accepted, Accept, AcceptAndFinish
<1>5. /\ asked' \in Seq(CallType) /\ Len(asked') = issued'
      /\ \A n \in 1 .. N : asked'[n] = asked[n]
      /\ asked'[N + 1] = c
  BY <1>2, <1>3, <1>n, <1>4, Appended DEF CmdTypeInv
<1>6. /\ packet' \in Seq(PacketType) /\ Len(packet') = issued'
      /\ \A n \in 1 .. N : packet'[n] = packet[n]
      /\ packet'[N + 1] = p
  <2>1. packet \in Seq(PacketType) /\ Len(packet) = N /\ p \in PacketType
    BY <1>3, <1>n DEF CmdTypeInv
  <2> HIDE DEF PacketType
  <2> QED BY <1>2, <1>n, <1>4, <2>1, Appended
<1>7. /\ ret' \in Seq(ResultType) /\ Len(ret') = issued'
      /\ \A n \in 1 .. N : ret'[n] = ret[n]
      /\ ret'[N + 1] = NotYet
  <2>1. NotYet \in ResultType
    BY DEF ResultType
  <2> QED BY <1>2, <1>3, <1>n, <1>4, <2>1, Appended DEF CmdTypeInv
<1>8. 1 .. issued' = (1 .. N) \cup {N + 1}
  BY <1>3, <1>n, <1>4
<1>9. StreamInv'
  <2>1. issued' \in 0 .. MaxCmds /\ Len(executed') <= issued' /\ executed' \in Seq(Nat)
    BY <1>2, <1>3, <1>n, <1>4, BoundsAssumption DEF StreamInv
  <2>2. finishing' \subseteq Threads /\ target' \in [Threads -> Nat]
    BY <1>1, <1>3, <1>n DEF Accepted, Accept, AcceptAndFinish, StreamInv
  <2>3. \A t \in Threads : target'[t] <= issued'
    BY <1>1, <1>3, <1>n DEF Accepted, Accept, AcceptAndFinish, StreamInv
  <2> QED BY <2>1, <2>2, <2>3 DEF StreamInv
<1>10. CmdTypeInv'
  BY <1>5, <1>6, <1>7 DEF CmdTypeInv
<1>11. PacketInv'
  <2> SUFFICES ASSUME NEW n \in 1 .. issued' PROVE Matching(n, asked[n], packet[n])'
    BY DEF PacketInv
  <2>1. Matching(n, asked'[n], packet'[n])
    BY <1>1, <1>3, <1>n, <1>5, <1>6, <1>8 DEF PacketInv
  <2>2. FreePacket(n, asked'[n], packet'[n]) => FreePacket(n, asked[n], packet[n])'
    BY <1>3, <1>n, <1>5, <1>8 DEF FreePacket
  <2>3. WritePacket(asked'[n], packet'[n]) => WritePacket(asked[n], packet[n])'
    BY <1>2 DEF WritePacket, Buffer, bufferVars
  <2>4. ReadPacket(asked'[n], packet'[n]) => ReadPacket(asked[n], packet[n])'
    BY <1>2 DEF ReadPacket, Buffer, bufferVars
  <2>5. StartPacket(asked'[n], packet'[n]) => StartPacket(asked[n], packet[n])'
    BY <1>2 DEF StartPacket, Buffer, Work, bufferVars
  <2>6. NonePacket(asked'[n], packet'[n]) => NonePacket(asked[n], packet[n])'
    BY DEF NonePacket
  <2> QED BY <2>1, <2>2, <2>3, <2>4, <2>5, <2>6 DEF Matching
<1>12. UnmapInv'
  <2>1. ASSUME NEW n, Unmaps(N + 1, n)' PROVE n \in 1 .. N
    <3>1. c.op = "unmap" /\ c.of = n
      BY <1>5, <2>1 DEF Unmaps
    <3>2. FreePacket(N + 1, c, p)
      BY <1>1, <1>n, <3>1, Operations DEF Matching
    <3> QED BY <1>3, <1>n, <3>1, <3>2 DEF FreePacket
  <2>2. ASSUME NEW n, Unmaps(N + 1, n)' PROVE \A k \in 1 .. N : ~Unmaps(k, n)'
    <3>1. c.op = "unmap" /\ c.of = n
      BY <1>5, <2>2 DEF Unmaps
    <3>2. n \in 1 .. N
      BY <2>1, <2>2
    <3>3. \A k \in 1 .. N : ~Unmaps(k, n)
      BY <1>1, <1>n, <3>1, <3>2
    <3> QED BY <1>5, <3>3 DEF Unmaps
  <2>3. ASSUME NEW k \in 1 .. N, NEW n \in 1 .. issued', Unmaps(k, n)'
        PROVE  Unmaps(k, n) /\ n \in 1 .. N
    <3>1. asked[k].op = "unmap" /\ asked[k].of = n
      BY <1>5, <2>3 DEF Unmaps
    <3>2. FreePacket(k, asked[k], packet[k])
      BY <1>3, <1>n, <3>1, Operations DEF PacketInv, Matching
    <3> QED BY <1>3, <1>n, <3>1, <3>2 DEF FreePacket, Unmaps
  <2> QED BY <1>3, <1>n, <1>8, <2>2, <2>3 DEF UnmapInv
<1>13. ResultInv'
  <2>1. Len(executed) \in Nat /\ Len(executed) <= issued
    BY <1>3, <1>n DEF StreamInv
  <2>2. \A k \in 1 .. Len(executed) : \A n : Unmaps(k, n) => Unmaps(k, n)'
    BY <1>3, <1>n, <1>5, <2>1 DEF Unmaps
  <2>3. ASSUME NEW n \in 1 .. N
        PROVE  /\ n > Len(executed) => ret'[n] = NotYet
               /\ n <= Len(executed) /\ asked'[n].op \in {"read", "map"} => ret'[n] # NotYet
               /\ ret'[n] = Gone => \E k \in 1 .. Len(executed) : Unmaps(k, n)'
    BY <1>3, <1>n, <1>5, <1>7, <2>2 DEF ResultInv
  <2>4. N + 1 > Len(executed) /\ ret'[N + 1] # Gone
    BY <1>3, <1>n, <1>7, <2>1, ResultsAssumption
  <2> QED BY <1>3, <1>n, <1>4, <1>7, <1>8, <2>1, <2>3, <2>4 DEF ResultInv
<1> QED BY <1>2, <1>9, <1>10, <1>11, <1>12, <1>13, Kept DEF IInv, bufferVars, deviceVars

LEMMA FinishStep == IInv /\ Finish => IInv'
<1> SUFFICES ASSUME IInv, Finish PROVE IInv'
  OBVIOUS
<1>1. UNCHANGED <<issued, executed, bufferVars, cmdVars, deviceVars, source>>
  BY DEF Finish, CallFinish, ReturnFinish
<1>2. StreamInv'
  <2>1. StreamInv /\ issued \in Nat
    BY DEF IInv, StreamInv
  <2> QED BY <1>1, <2>1 DEF Finish, CallFinish, ReturnFinish, StreamInv
<1> QED BY <1>1, <1>2, Kept DEF IInv, bufferVars, cmdVars, deviceVars

LEMMA ReleaseStep == ASSUME IInv, NEW b \in live, ReleaseMemObject(b) PROVE IInv'
<1>1. /\ live' = live \ {b}
      /\ UNCHANGED <<streamVars, buffers, mem_alloc_offset, cmdVars, deviceVars, source>>
  BY DEF ReleaseMemObject
<1>2. LayoutInv'
  BY <1>1 DEF IInv, LayoutInv, Buffer, End
<1> QED BY <1>1, <1>2, Kept DEF IInv, cmdVars, deviceVars, streamVars, vars

LEMMA SourceStep == IInv /\ ChangeSource => IInv'
<1> SUFFICES ASSUME IInv, ChangeSource PROVE IInv'
  OBVIOUS
<1>1. source' \in Values /\ UNCHANGED <<streamVars, bufferVars, cmdVars, deviceVars>>
  BY DEF ChangeSource
<1>2. MemoryInv'
  BY <1>1 DEF IInv, MemoryInv, deviceVars
<1> QED BY <1>1, <1>2, Kept DEF IInv, bufferVars, cmdVars, deviceVars, streamVars, vars

-----------------------------------------------------------------------------
(* Dispatch. *)

LEMMA Reaches ==
  ASSUME IInv, NEW n \in 1 .. issued
  PROVE  Reach(packet[n]) > GLOBAL_MEMORY_SIZE => mem_alloc_offset > GLOBAL_MEMORY_SIZE
<1>1. LayoutInv /\ Matching(n, asked[n], packet[n]) /\ mem_alloc_offset \in Nat
      /\ GLOBAL_MEMORY_SIZE \in Nat
  BY SizesAssumption DEF IInv, PacketInv, LayoutInv
<1>2. CASE WritePacket(asked[n], packet[n])
  <2>0. PICK b \in Buffer : \E data \in [1 .. buffers[b].size -> Data] :
          packet[n] = [cmdId |-> "write", offset |-> buffers[b].offset, data |-> data]
    BY <1>2 DEF WritePacket
  <2>1. PICK data \in [1 .. buffers[b].size -> Data] :
          packet[n] = [cmdId |-> "write", offset |-> buffers[b].offset, data |-> data]
    BY <2>0
  <2>2. Len(data) = buffers[b].size /\ buffers[b].size \in Nat
    BY <1>1, BufferFacts, Tuple
  <2>3. Reach(packet[n]) = End(b)
    BY <2>1, <2>2 DEF Reach, End
  <2> QED BY <1>1, <2>2, <2>3, BufferFacts DEF LayoutInv, End
<1>3. CASE ReadPacket(asked[n], packet[n])
  <2>1. PICK b \in Buffer :
          packet[n] = [cmdId |-> "read", offset |-> buffers[b].offset,
                       accessLength |-> buffers[b].size]
    BY <1>3 DEF ReadPacket
  <2>3. Reach(packet[n]) = End(b)
    BY <2>1 DEF Reach, End
  <2> QED BY <1>1, <2>3, BufferFacts DEF LayoutInv, End
<1>4. CASE StartPacket(asked[n], packet[n])
  <2>1. PICK a \in Buffer, b \in Buffer :
          a # b /\ packet[n] = [cmdId |-> "start", from |-> 0, to |-> buffers[a].size,
                                work |-> Work(a, b)]
    BY <1>4 DEF StartPacket
  <2>2. Reach(packet[n]) = buffers[a].size + Work(a, b)
    BY <2>1 DEF Reach
  <2>3. /\ buffers[a].size \in Nat /\ buffers[b].size \in Nat
        /\ buffers[a].offset \in Nat /\ buffers[b].offset \in Nat
        /\ Work(a, b) \in Nat /\ Work(a, b) <= buffers[b].size
    BY <1>1, BufferFacts DEF Work
  <2>4. a < b \/ b < a
    BY <2>1 DEF Buffer
  <2>5. End(a) <= buffers[b].offset \/ End(b) <= buffers[a].offset
    BY <1>1, <2>4 DEF LayoutInv
  <2>6. End(a) <= mem_alloc_offset /\ End(b) <= mem_alloc_offset
    BY <1>1 DEF LayoutInv
  <2> HIDE DEF Work
  <2>7. buffers[a].size + Work(a, b) <= mem_alloc_offset
    BY <1>1, <2>3, <2>5, <2>6 DEF End
  <2> QED BY <1>1, <2>2, <2>3, <2>7
<1>5. CASE FreePacket(n, asked[n], packet[n]) \/ NonePacket(asked[n], packet[n])
  <2>1. packet[n].cmdId \in {"free", "none"}
    BY <1>5, Operations
  <2> QED BY <1>1, <2>1 DEF Reach
<1> QED BY <1>1, <1>2, <1>3, <1>4, <1>5 DEF Matching

LEMMA LoadedFacts ==
  ASSUME MemoryInv, NEW o \in Nat, NEW n \in Nat, o + n <= GLOBAL_MEMORY_SIZE
  PROVE  /\ Loaded(o, n) \in [1 .. n -> Data] /\ Loaded(o, n) \in Seq(Data)
         /\ Loaded(o, n) # NotYet /\ Loaded(o, n) # Gone
<1>1. GLOBAL_MEMORY_SIZE \in Nat
  BY SizesAssumption
<1>2. \A i \in 1 .. n : o + i - 1 \in Cell
  BY <1>1 DEF Cell
<1>3. Loaded(o, n) \in [1 .. n -> Data]
  BY <1>2 DEF Loaded, MemoryInv
<1>4. n \in 0 .. GLOBAL_MEMORY_SIZE
  BY <1>1
<1> QED BY <1>3, <1>4, Tuple, ResultsAssumption

(* The next command, its packet, and what its dispatch has changed. *)
Dispatched(n) ==
  LET p == packet[n]
  IN  \/ /\ WritePacket(asked[n], p)
         /\ memory' = Stored(p.offset, p.data) /\ UNCHANGED ret
      \/ /\ ReadPacket(asked[n], p)
         /\ ret' = [ret EXCEPT ![n] = Loaded(p.offset, p.accessLength)] /\ UNCHANGED memory
      \/ /\ FreePacket(n, asked[n], p)
         /\ ret' = [ret EXCEPT ![p.region] = Gone] /\ UNCHANGED memory
      \/ /\ StartPacket(asked[n], p)
         /\ memory' = Stored(p.to, Loaded(p.from, p.work)) /\ UNCHANGED ret
      \/ NonePacket(asked[n], p) /\ UNCHANGED <<memory, ret>>

LEMMA DispatchFacts ==
  ASSUME IInv, Dispatch
  PROVE  \E n \in 1 .. issued :
           /\ n = Len(executed) + 1 /\ Len(executed') = n /\ n \in Nat
           /\ executed' \in Seq(Nat)
           /\ Reach(packet[n]) <= GLOBAL_MEMORY_SIZE
           /\ Dispatched(n)
           /\ UNCHANGED <<issued, finishing, target, bufferVars, packet, asked, overrun, source>>
<1>1. StreamInv /\ PacketInv
  BY DEF IInv
<1>2. PICK n \in Nat : n = Len(executed) + 1
  BY <1>1 DEF StreamInv
<1>3. n \in 1 .. issued
  BY <1>1, <1>2 DEF Dispatch, Execute, StreamInv
<1>4. executed' = Append(executed, n)
  BY <1>2 DEF Dispatch, Execute
<1>5. executed' \in Seq(Nat) /\ Len(executed') = n
  BY <1>1, <1>2, <1>4, Appended DEF StreamInv
<1>6. Reach(packet[n]) <= GLOBAL_MEMORY_SIZE /\ Handle(n, packet[n])
  BY <1>2 DEF Dispatch, Upcoming
<1>7. Matching(n, asked[n], packet[n])
  BY <1>1, <1>3 DEF PacketInv
<1>8. Dispatched(n)
  BY <1>6, <1>7, Operations DEF Matching, Dispatched, Handle
<1>9. UNCHANGED <<issued, finishing, target, bufferVars, packet, asked, overrun, source>>
  BY DEF Dispatch, Execute
<1> QED BY <1>2, <1>3, <1>5, <1>6, <1>8, <1>9

LEMMA WriteFacts ==
  ASSUME IInv, NEW n \in 1 .. issued, WritePacket(asked[n], packet[n])
  PROVE  \E b \in Buffer : \E data \in [1 .. buffers[b].size -> Data] :
           /\ asked[n] = [op |-> "write", buf |-> b, data |-> data]
           /\ packet[n].offset = buffers[b].offset /\ packet[n].data = data
           /\ Len(data) = buffers[b].size /\ data \in Seq(Data)
           /\ Reach(packet[n]) = buffers[b].offset + buffers[b].size
<1>0. PICK b \in Buffer : \E data \in [1 .. buffers[b].size -> Data] :
        /\ asked[n] = [op |-> "write", buf |-> b, data |-> data]
        /\ packet[n] = [cmdId |-> "write", offset |-> buffers[b].offset, data |-> data]
  BY DEF WritePacket
<1>1. PICK data \in [1 .. buffers[b].size -> Data] :
        /\ asked[n] = [op |-> "write", buf |-> b, data |-> data]
        /\ packet[n] = [cmdId |-> "write", offset |-> buffers[b].offset, data |-> data]
  BY <1>0
<1>2. Len(data) = buffers[b].size /\ data \in Seq(Data)
  BY BufferFacts, Tuple DEF IInv
<1>3. Reach(packet[n]) = buffers[b].offset + buffers[b].size
  BY <1>1, <1>2 DEF Reach
<1>4. packet[n].offset = buffers[b].offset /\ packet[n].data = data
  BY <1>1
<1> QED BY <1>1, <1>2, <1>3, <1>4

LEMMA ReadFacts ==
  ASSUME IInv, NEW n \in 1 .. issued, ReadPacket(asked[n], packet[n]),
         Reach(packet[n]) <= GLOBAL_MEMORY_SIZE
  PROVE  \E b \in Buffer :
           /\ asked[n].op \in {"read", "map"} /\ asked[n].buf = b
           /\ packet[n].offset = buffers[b].offset /\ packet[n].accessLength = buffers[b].size
           /\ buffers[b].offset + buffers[b].size <= GLOBAL_MEMORY_SIZE
           /\ LET cells == Loaded(packet[n].offset, packet[n].accessLength)
              IN  cells \in Seq(Data) /\ cells # NotYet /\ cells # Gone
<1>1. PICK b \in Buffer, op \in {"read", "map"} :
        /\ asked[n] = [op |-> op, buf |-> b]
        /\ packet[n] = [cmdId |-> "read", offset |-> buffers[b].offset,
                        accessLength |-> buffers[b].size]
  BY DEF ReadPacket
<1>2. /\ asked[n].op \in {"read", "map"} /\ asked[n].buf = b
      /\ packet[n].offset = buffers[b].offset /\ packet[n].accessLength = buffers[b].size
  BY <1>1
<1>3. Reach(packet[n]) = buffers[b].offset + buffers[b].size
  BY <1>1 DEF Reach
<1>4. buffers[b].offset \in Nat /\ buffers[b].size \in Nat /\ MemoryInv
  BY BufferFacts DEF IInv
<1> QED BY <1>2, <1>3, <1>4, LoadedFacts

LEMMA StartFacts ==
  ASSUME IInv, NEW n \in 1 .. issued, StartPacket(asked[n], packet[n]),
         Reach(packet[n]) <= GLOBAL_MEMORY_SIZE
  PROVE  \E a, b \in Buffer :
           /\ a # b /\ (ArgsInOrder => a = 1 /\ b = 2)
           /\ asked[n] = [op |-> "copy", from |-> a, to |-> b, len |-> Work(a, b)]
           /\ packet[n].from = 0 /\ packet[n].to = buffers[a].size
           /\ packet[n].work = Work(a, b) /\ Work(a, b) \in Nat
           /\ Work(a, b) <= buffers[a].size /\ Work(a, b) <= buffers[b].size
           /\ buffers[a].size + Work(a, b) <= GLOBAL_MEMORY_SIZE
           /\ Loaded(0, Work(a, b)) \in [1 .. Work(a, b) -> Data]
           /\ Loaded(0, Work(a, b)) \in Seq(Data) /\ Len(Loaded(0, Work(a, b))) = Work(a, b)
<1>1. PICK a \in Buffer, b \in Buffer :
        /\ a # b /\ (ArgsInOrder => a = 1 /\ b = 2)
        /\ asked[n] = [op |-> "copy", from |-> a, to |-> b, len |-> Work(a, b)]
        /\ packet[n] = [cmdId |-> "start", from |-> 0, to |-> buffers[a].size,
                        work |-> Work(a, b)]
  BY DEF StartPacket
<1>2. packet[n].from = 0 /\ packet[n].to = buffers[a].size /\ packet[n].work = Work(a, b)
  BY <1>1
<1>3. Reach(packet[n]) = buffers[a].size + Work(a, b)
  BY <1>1 DEF Reach
<1>4. /\ buffers[a].size \in Nat /\ Work(a, b) \in Nat
      /\ Work(a, b) <= buffers[a].size /\ Work(a, b) <= buffers[b].size /\ MemoryInv
  BY BufferFacts DEF Work, IInv
<1>5. 0 + Work(a, b) <= GLOBAL_MEMORY_SIZE
  BY <1>3, <1>4, SizesAssumption
<1>6. Loaded(0, Work(a, b)) \in [1 .. Work(a, b) -> Data]
  BY <1>4, <1>5, LoadedFacts
<1>7. Loaded(0, Work(a, b)) \in Seq(Data) /\ Len(Loaded(0, Work(a, b))) = Work(a, b)
  BY <1>4, <1>6, Tuple
<1> QED BY <1>1, <1>2, <1>3, <1>4, <1>6, <1>7

LEMMA StoredType ==
  ASSUME MemoryInv, NEW o \in Nat, NEW data \in Seq(Data)
  PROVE  Stored(o, data) \in [Cell -> Data]
<1>1. ASSUME NEW i \in Cell, i >= o, i < o + Len(data) PROVE data[i - o + 1] \in Data
  <2>1. i - o + 1 \in 1 .. Len(data)
    BY <1>1 DEF Cell
  <2> QED BY <2>1, Element
<1> QED BY <1>1 DEF Stored, MemoryInv

LEMMA DispatchStep == IInv /\ Dispatch => IInv'
<1> SUFFICES ASSUME IInv, Dispatch PROVE IInv'
  OBVIOUS
<1>1. PICK n \in 1 .. issued :
        /\ n = Len(executed) + 1 /\ Len(executed') = n /\ n \in Nat
        /\ executed' \in Seq(Nat)
        /\ Reach(packet[n]) <= GLOBAL_MEMORY_SIZE
        /\ Dispatched(n)
        /\ UNCHANGED <<issued, finishing, target, bufferVars, packet, asked, overrun, source>>
  BY DispatchFacts
<1>2. StreamInv /\ CmdTypeInv /\ MemoryInv /\ UnmapInv /\ ResultInv /\ LayoutInv /\ PacketInv
      /\ issued \in Nat
  BY DEF IInv, StreamInv
<1>3. StreamInv'
  BY <1>1, <1>2 DEF StreamInv
<1>4. MemoryInv'
  <2>1. CASE WritePacket(asked[n], packet[n]) /\ memory' = Stored(packet[n].offset, packet[n].data)
    <3>1. packet[n].offset \in Nat /\ packet[n].data \in Seq(Data)
      BY <1>2, <2>1, WriteFacts, BufferFacts
    <3> QED BY <1>1, <1>2, <2>1, <3>1, StoredType DEF MemoryInv
  <2>2. CASE /\ StartPacket(asked[n], packet[n])
             /\ memory' = Stored(packet[n].to, Loaded(packet[n].from, packet[n].work))
    <3>1. /\ packet[n].to \in Nat
          /\ Loaded(packet[n].from, packet[n].work) \in Seq(Data)
      BY <1>1, <1>2, <2>2, StartFacts, BufferFacts
    <3> QED BY <1>1, <1>2, <2>2, <3>1, StoredType DEF MemoryInv
  <2>3. CASE UNCHANGED memory
    BY <1>1, <1>2, <2>3 DEF MemoryInv
  <2> QED BY <1>1, <2>1, <2>2, <2>3 DEF Dispatched
<1>5. CmdTypeInv' /\ ResultInv'
  <2>1. ret \in Seq(ResultType) /\ Len(ret) = issued
    BY <1>2 DEF CmdTypeInv
  <2>2. \A k \in 1 .. issued : \A m : Unmaps(k, m)' <=> Unmaps(k, m)
    BY <1>1 DEF Unmaps
  <2>3. CASE /\ ReadPacket(asked[n], packet[n])
             /\ ret' = [ret EXCEPT ![n] = Loaded(packet[n].offset, packet[n].accessLength)]
    <3> DEFINE cells == Loaded(packet[n].offset, packet[n].accessLength)
    <3>1. cells \in ResultType /\ cells # NotYet /\ cells # Gone
      BY <1>1, <2>3, ReadFacts DEF ResultType
    <3> HIDE DEF cells
    <3>2. /\ ret' \in Seq(ResultType) /\ Len(ret') = Len(ret) /\ ret'[n] = cells
          /\ \A m \in 1 .. issued : m # n => ret'[m] = ret[m]
      BY <2>1, <2>3, <3>1, Updated DEF cells
    <3>3. CmdTypeInv'
      BY <1>1, <1>2, <2>1, <3>2 DEF CmdTypeInv
    <3>4. ResultInv'
      <4>1. ASSUME NEW k \in 1 .. issued
            PROVE  /\ k > n => ret'[k] = NotYet
                   /\ k <= n /\ asked[k].op \in {"read", "map"} => ret'[k] # NotYet
                   /\ ret'[k] = Gone => \E l \in 1 .. n : Unmaps(l, k)'
        <5>1. CASE k = n
          BY <1>1, <3>1, <3>2, <5>1
        <5>2. CASE k # n
          BY <1>1, <1>2, <2>2, <3>2, <5>2 DEF ResultInv
        <5> QED BY <5>1, <5>2
      <4> QED BY <1>1, <4>1 DEF ResultInv
    <3> QED BY <3>3, <3>4
  <2>4. CASE /\ FreePacket(n, asked[n], packet[n])
             /\ ret' = [ret EXCEPT ![packet[n].region] = Gone]
    <3>1. PICK m \in 1 .. n - 1 : packet[n].region = m /\ Unmaps(n, m)
      BY <2>4 DEF FreePacket, Unmaps
    <3>2. m \in 1 .. issued /\ m <= Len(executed) /\ m # n /\ Gone \in ResultType /\ Gone # NotYet
      <4>1. m \in 1 .. issued /\ m <= Len(executed) /\ m # n
        BY <1>1, <1>2, <3>1
      <4>2. Gone \in ResultType /\ Gone # NotYet
        BY ResultsAssumption DEF ResultType
      <4> QED BY <4>1, <4>2
    <3>3. /\ ret' \in Seq(ResultType) /\ Len(ret') = Len(ret) /\ ret'[m] = Gone
          /\ \A k \in 1 .. issued : k # m => ret'[k] = ret[k]
      BY <2>1, <2>4, <3>1, <3>2, Updated
    <3>4. CmdTypeInv'
      BY <1>1, <1>2, <2>1, <3>3 DEF CmdTypeInv
    <3>5. Unmaps(n, m)'
      BY <2>2, <3>1
    <3>6. ASSUME NEW k \in 1 .. issued
          PROVE  /\ k > n => ret'[k] = NotYet
                 /\ k <= n /\ asked[k].op \in {"read", "map"} => ret'[k] # NotYet
                 /\ ret'[k] = Gone => \E l \in 1 .. n : Unmaps(l, k)'
      <4>1. CASE k = m
        BY <1>1, <3>2, <3>3, <3>5, <4>1
      <4>2. CASE k # m
        <5>1. asked[n].op = "unmap"
          BY <3>1 DEF Unmaps
        <5> QED BY <1>1, <1>2, <2>2, <3>3, <4>2, <5>1 DEF ResultInv
      <4> QED BY <4>1, <4>2
    <3>7. ResultInv'
      BY <1>1, <3>6 DEF ResultInv
    <3> QED BY <3>4, <3>7
  <2>5. CASE UNCHANGED ret /\ ~ReadPacket(asked[n], packet[n])
    <3>1. asked[n].op \notin {"read", "map"}
      BY <1>2, <2>5, Operations DEF PacketInv, Matching
    <3>2. CmdTypeInv'
      BY <1>1, <1>2, <2>5 DEF CmdTypeInv
    <3>3. ResultInv'
      BY <1>1, <1>2, <2>2, <2>5, <3>1 DEF ResultInv
    <3> QED BY <3>2, <3>3
  <2>6. WritePacket(asked[n], packet[n]) \/ StartPacket(asked[n], packet[n])
          \/ NonePacket(asked[n], packet[n]) => ~ReadPacket(asked[n], packet[n])
    BY Operations
  <2> QED BY <1>1, <2>3, <2>4, <2>5, <2>6 DEF Dispatched
<1> QED BY <1>1, <1>3, <1>4, <1>5, Kept DEF IInv, bufferVars

LEMMA OutsideStep == IInv /\ DispatchOutside => IInv'
<1> SUFFICES ASSUME IInv, DispatchOutside PROVE IInv'
  OBVIOUS
<1>1. /\ overrun' = TRUE
      /\ UNCHANGED <<streamVars, bufferVars, cmdVars, memory, source>>
  BY DEF DispatchOutside
<1>2. StreamInv /\ Upcoming <= issued /\ Reach(packet[Upcoming]) > GLOBAL_MEMORY_SIZE
  BY DEF IInv, DispatchOutside, StreamInv, Upcoming
<1>3. Upcoming \in 1 .. issued
  BY <1>2 DEF StreamInv, Upcoming
<1>4. mem_alloc_offset > GLOBAL_MEMORY_SIZE
  BY <1>2, <1>3, Reaches
<1>5. OverrunInv' /\ MemoryInv'
  BY <1>1, <1>4 DEF IInv, OverrunInv, MemoryInv, bufferVars
<1> QED BY <1>1, <1>5, Kept DEF IInv, bufferVars, cmdVars, streamVars, vars

-----------------------------------------------------------------------------
(* The invariant holds in every state of every execution.                  *)
THEOREM Invariance == SpecMemory => []IInv
<1>1. IInv /\ [NextMemory]_allVars => IInv'
  BY StutterStep, CreateStep, EnqueueStep, FinishStep, ReleaseStep, SourceStep, DispatchStep,
     OutsideStep DEF NextMemory
<1> QED BY InitInv, <1>1, PTL DEF SpecMemory

(* Buffers, packets, results and the memory always have their types.       *)
THEOREM TypeCorrect == SpecMemory => []MemoryTypeOK
<1>1. IInv => MemoryTypeOK
  BY SizesAssumption
  DEF IInv, StreamInv, CmdTypeInv, MemoryInv, LayoutInv, MemoryTypeOK, BufferType
<1> QED BY Invariance, <1>1, PTL

(* As long as what a context has ever created fits into the device's       *)
(* memory no dispatch reaches behind it, and buffers never overlap.        *)
THEOREM BuffersAlwaysFit == SpecMemory => []BuffersFit
<1>1. IInv => BuffersFit
  BY SizesAssumption DEF IInv, LayoutInv, OverrunInv, BuffersFit, End
<1> QED BY Invariance, <1>1, PTL

(* When clFinish returns, what was read or mapped before has arrived.      *)
THEOREM FinishDelivers == SpecMemory => FinishFlushes
<1> DEFINE Flushed ==
      \A t \in finishing \ finishing' : \A n \in 1 .. target[t] :
        asked[n].op \in {"read", "map"} => ret[n] # NotYet
<1>1. ASSUME IInv, NextMemory PROVE Flushed
  <2>1. StreamInv /\ ResultInv
    BY <1>1 DEF IInv
  <2>2. ASSUME NEW t \in Threads, ReturnFinish(t) PROVE Flushed
    <3>1. finishing \ finishing' \subseteq {t} /\ target[t] <= Len(executed)
      BY <2>1, <2>2 DEF ReturnFinish, StreamInv
    <3> QED BY <2>1, <2>2, <3>1 DEF StreamInv, ResultInv
  <2>3. ASSUME finishing \subseteq finishing' PROVE Flushed
    BY <2>3
  <2>4. NextMemory => finishing \subseteq finishing' \/ \E t \in Threads : ReturnFinish(t)
    <3>1. BufferCommand => Accepted
      BY DEF BufferCommand, EnqueueWriteBuffer, EnqueueReadBuffer, EnqueueMapBuffer,
             EnqueueUnmapMemObject, EnqueueNDRangeKernel, EnqueueNothing, Accepted
    <3>2. Accepted => finishing \subseteq finishing'
      BY DEF Accepted, Accept, AcceptAndFinish
    <3>3. Finish => finishing \subseteq finishing' \/ \E t \in Threads : ReturnFinish(t)
      BY DEF Finish, CallFinish
    <3>4. Dispatch \/ DispatchOutside \/ ChangeSource => finishing' = finishing
      BY DEF Dispatch, DispatchOutside, ChangeSource, Execute, streamVars, vars
    <3>5. \A size \in Sizes : CreateBuffer(size) => finishing' = finishing
      BY DEF CreateBuffer, streamVars, vars
    <3>6. \A b \in live : ReleaseMemObject(b) => finishing' = finishing
      BY DEF ReleaseMemObject, streamVars, vars
    <3> QED BY <3>1, <3>2, <3>3, <3>4, <3>5, <3>6 DEF NextMemory
  <2> HIDE DEF Flushed
  <2> QED BY <1>1, <2>2, <2>3, <2>4
<1>2. IInv /\ [NextMemory]_allVars => [Flushed]_allVars
  BY <1>1
<1> HIDE DEF Flushed
<1>3. SpecMemory => [][Flushed]_allVars
  BY Invariance, <1>2, PTL DEF SpecMemory
<1> QED BY <1>3 DEF FinishFlushes, Flushed

-----------------------------------------------------------------------------
(* DeviceMemory implements BufferStore.  The contents of the abstract      *)
(* buffers are the cells of the memory where the buffers lie.              *)

Cells(b) ==
  [i \in 1 .. buffers[b].size |->
     IF buffers[b].offset + i - 1 \in Cell THEN memory[buffers[b].offset + i - 1] ELSE Blank]
Contents == [b \in Buffer |-> Cells(b)]

LEMMA SizesMatter ==
  ASSUME NEW S, NEW s \in Seq(S), NEW t \in Seq(S), Len(s) = Len(t),
         \A i \in 1 .. Len(s) : s[i] = t[i]
  PROVE  s = t
BY SeqEqual

ContentsOK ==
  /\ Contents \in Seq(Seq(Data)) /\ Len(Contents) = Len(buffers) /\ Len(buffers) \in Nat
  /\ \A b \in Buffer :
       /\ Contents[b] = Cells(b) /\ buffers[b].size \in Nat /\ buffers[b].offset \in Nat
       /\ Cells(b) \in [1 .. buffers[b].size -> Data] /\ Len(Cells(b)) = buffers[b].size

LEMMA ContentsFacts == IInv => ContentsOK
<1> SUFFICES ASSUME IInv PROVE ContentsOK
  OBVIOUS
<1>1. Len(buffers) \in Nat
  BY DEF IInv, LayoutInv
<1>2. ASSUME NEW b \in Buffer
      PROVE  /\ Cells(b) \in [1 .. buffers[b].size -> Data] /\ Cells(b) \in Seq(Data)
             /\ Len(Cells(b)) = buffers[b].size
             /\ buffers[b].size \in Nat /\ buffers[b].offset \in Nat
  <2>1. buffers[b].size \in Nat /\ buffers[b].offset \in Nat
    BY BufferFacts DEF IInv
  <2>2. Cells(b) \in [1 .. buffers[b].size -> Data]
    BY DEF IInv, MemoryInv, Cells, Data
  <2> QED BY <2>1, <2>2, Tuple
<1>3. Contents \in [1 .. Len(buffers) -> Seq(Data)]
  BY <1>2 DEF Contents, Buffer
<1>4. Contents \in Seq(Seq(Data)) /\ Len(Contents) = Len(buffers)
  BY <1>1, <1>3, Tuple
<1>5. \A b \in Buffer : Contents[b] = Cells(b)
  BY DEF Contents
<1> QED BY <1>1, <1>2, <1>4, <1>5 DEF ContentsOK

LEMMA ContentsNext == IInv' => ContentsOK'
BY ContentsFacts, PTL

LEMMA SameContents == UNCHANGED <<buffers, memory>> => Contents' = Contents
BY DEF Contents, Cells, Buffer

(* The substitution of the instance, by name. *)
LEMMA Stuttering ==
  UNCHANGED <<Contents, asked, Len(executed), ret>> => UNCHANGED Store!vars
BY DEF Store!vars, Contents, Cells

LEMMA InitRef == InitMemory => Store!Init
<1> SUFFICES ASSUME InitMemory PROVE Store!Init
  OBVIOUS
<1>1. Len(Contents) = 0 /\ Contents \in Seq(Seq(Data)) /\ Len(buffers) = 0
  BY InitInv, ContentsFacts DEF InitMemory, ContentsOK
<1>2. Contents = <<>>
  BY <1>1, EmptySeq
<1>3. asked = <<>> /\ Len(executed) = 0 /\ ret = <<>>
  BY DEF InitMemory, Init
<1> QED BY <1>2, <1>3 DEF Store!Init, Contents, Cells

LEMMA CreateRef ==
  ASSUME IInv, IInv', NEW size \in Sizes, CreateBuffer(size)
  PROVE  Store!Create
<1>1. /\ buffers' = Append(buffers, [offset |-> mem_alloc_offset, size |-> size])
      /\ UNCHANGED <<streamVars, cmdVars, memory>>
  BY DEF CreateBuffer, deviceVars
<1>2. ContentsOK /\ ContentsOK'
  BY ContentsFacts, ContentsNext
<1>3. PICK N \in Nat : N = Len(buffers)
  BY <1>2 DEF ContentsOK
<1>4. [offset |-> mem_alloc_offset, size |-> size] \in BufferType /\ buffers \in Seq(BufferType)
  BY DEF IInv, LayoutInv, BufferType
<1>5. /\ Len(buffers') = N + 1 /\ \A b \in 1 .. N : buffers'[b] = buffers[b]
      /\ buffers'[N + 1].size = size
  BY <1>1, <1>3, <1>4, Appended
<1>6. Buffer = 1 .. N /\ Buffer' = 1 .. N + 1
  BY <1>3, <1>5 DEF Buffer
<1>7. \A b \in 1 .. N : Contents'[b] = Contents[b]
  <2>1. \A b \in 1 .. N : Cells(b)' = Cells(b)
    BY <1>1, <1>5 DEF Cells
  <2> QED BY <1>2, <1>6, <2>1 DEF ContentsOK
<1>8. Contents'[N + 1] \in [1 .. size -> Data] /\ Contents'[N + 1] \in Seq(Data)
  <2>1. Contents'[N + 1] \in [1 .. size -> Data]
    BY <1>2, <1>5, <1>6 DEF ContentsOK
  <2> QED BY <2>1, Tuple, SizesAssumption
<1>9. Contents' = Append(Contents, Contents'[N + 1])
  <2> DEFINE s == Append(Contents, Contents'[N + 1])
  <2>1. /\ s \in Seq(Seq(Data)) /\ Len(s) = N + 1
        /\ \A b \in 1 .. N : s[b] = Contents[b]
        /\ s[N + 1] = Contents'[N + 1]
    BY <1>2, <1>3, <1>8, Appended DEF ContentsOK
  <2>2. Contents' \in Seq(Seq(Data)) /\ Len(Contents') = N + 1
    BY <1>2, <1>5 DEF ContentsOK
  <2> HIDE DEF s
  <2>3. \A b \in 1 .. N + 1 : Contents'[b] = s[b]
    BY <1>7, <2>1
  <2>4. Contents' = s
    BY <2>1, <2>2, <2>3, SizesMatter
  <2> QED BY <2>4 DEF s
<1>10. UNCHANGED <<asked, Len(executed), ret>>
  BY <1>1 DEF streamVars, vars, cmdVars
<1>11. \E cells \in [1 .. size -> Data] : Contents' = Append(Contents, cells)
  BY <1>8, <1>9
<1> QED BY <1>10, <1>11 DEF Store!Create, Contents, Cells

LEMMA AcceptRef == IInv /\ BufferCommand => Store!Accept
<1> SUFFICES ASSUME IInv, BufferCommand PROVE Store!Accept
  OBVIOUS
<1>1. PICK c \in CallType, p \in PacketType :
        Enqueued(c, p) /\ Accepted /\ Matching(issued + 1, c, p)
  BY Enqueueing
<1>2. /\ asked' = Append(asked, c) /\ ret' = Append(ret, NotYet)
      /\ UNCHANGED <<buffers, memory, executed>>
  BY <1>1 DEF Enqueued, Accepted, Accept, AcceptAndFinish, bufferVars, deviceVars
<1>3. ContentsOK /\ Contents' = Contents
  BY <1>2, ContentsFacts, SameContents
<1> DEFINE Writes == UNION {[op : {"write"}, buf : {b}, data : [1 .. Len(Contents[b]) -> Data]]
                              : b \in 1 .. Len(Contents)}
           Reads == [op : {"read", "map"}, buf : 1 .. Len(Contents)]
           Unmapping == [op : {"unmap"}, of : 1 .. Len(asked)]
           Copies == [op : {"copy"}, from : 1 .. Len(Contents), to : 1 .. Len(Contents),
                      len : Sizes]
           Calls == Writes \cup Reads \cup Unmapping \cup Copies \cup [op : {"nothing"}]
<1>4. Buffer = 1 .. Len(Contents) /\ \A b \in Buffer : Len(Contents[b]) = buffers[b].size
  BY <1>3 DEF ContentsOK, Buffer
<1>5. c \in Writes \/ c \in Reads \/ c \in Unmapping \/ c \in Copies \/ c \in [op : {"nothing"}]
  <2>1. ASSUME WritePacket(c, p) PROVE c \in Writes
    <3>1. PICK b \in Buffer : \E data \in [1 .. buffers[b].size -> Data] :
            c = [op |-> "write", buf |-> b, data |-> data]
      BY <2>1 DEF WritePacket
    <3>2. c \in [op : {"write"}, buf : {b}, data : [1 .. Len(Contents[b]) -> Data]]
      BY <1>4, <3>1
    <3> QED BY <1>4, <3>2
  <2>2. ASSUME ReadPacket(c, p) PROVE c \in Reads
    <3>1. PICK b \in Buffer, op \in {"read", "map"} : c = [op |-> op, buf |-> b]
      BY <2>2 DEF ReadPacket
    <3> QED BY <1>4, <3>1
  <2>3. ASSUME FreePacket(issued + 1, c, p) PROVE c \in Unmapping
    <3>1. PICK m \in 1 .. (issued + 1) - 1 : c = [op |-> "unmap", of |-> m]
      BY <2>3 DEF FreePacket
    <3>2. issued \in Nat /\ Len(asked) = issued
      BY DEF IInv, StreamInv, CmdTypeInv
    <3> QED BY <3>1, <3>2
  <2>4. ASSUME StartPacket(c, p) PROVE c \in Copies
    <3>1. PICK a \in Buffer, b \in Buffer :
            c = [op |-> "copy", from |-> a, to |-> b, len |-> Work(a, b)]
      BY <2>4 DEF StartPacket
    <3>2. Work(a, b) \in Sizes
      BY BufferFacts DEF Work, IInv
    <3> HIDE DEF Work
    <3> QED BY <1>4, <3>1, <3>2
  <2>5. ASSUME NonePacket(c, p) PROVE c \in [op : {"nothing"}]
    BY <2>5 DEF NonePacket
  <2> HIDE DEF Writes, Reads, Unmapping, Copies
  <2> QED BY <1>1, <2>1, <2>2, <2>3, <2>4, <2>5 DEF Matching
<1>6. c \in Store!Call
  <2>1. Calls = Store!Call
    BY DEF Store!Call, Store!Buffer, Contents, Cells
  <2> HIDE DEF Writes, Reads, Unmapping, Copies
  <2>2. c \in Calls
    BY <1>5
  <2> QED BY <2>1, <2>2
<1>7. UNCHANGED <<Contents, Len(executed)>>
  BY <1>2, <1>3
<1> QED BY <1>2, <1>6, <1>7 DEF Store!Accept, Contents, Cells

LEMMA QuietRef ==
  ASSUME \/ Finish \/ ChangeSource \/ DispatchOutside \/ UNCHANGED allVars
         \/ \E b \in live : ReleaseMemObject(b)
  PROVE  UNCHANGED Store!vars
<1>1. UNCHANGED <<executed, buffers, memory, asked, ret>>
  BY DEF Finish, CallFinish, ReturnFinish, ChangeSource, DispatchOutside, ReleaseMemObject,
         allVars, streamVars, vars, bufferVars, cmdVars, deviceVars
<1> QED BY <1>1, SameContents, Stuttering

-----------------------------------------------------------------------------
(* What is stored at a buffer's offset overwrites this buffer, and no      *)
(* other one.                                                              *)
Overwritten(b, data) ==
  Contents' = [Contents EXCEPT ![b] =
    [i \in 1 .. Len(@) |-> IF i <= Len(data) THEN data[i] ELSE @[i]]]

LEMMA OverwriteRef ==
  ASSUME IInv, IInv', UNCHANGED buffers, NEW b \in Buffer, NEW data \in Seq(Data),
         Len(data) <= buffers[b].size, buffers[b].offset + Len(data) <= GLOBAL_MEMORY_SIZE,
         memory' = Stored(buffers[b].offset, data)
  PROVE  Overwritten(b, data)
<1>1. ContentsOK /\ ContentsOK' /\ LayoutInv /\ Buffer' = Buffer /\ Buffer \subseteq Nat
      /\ Len(data) \in Nat /\ GLOBAL_MEMORY_SIZE \in Nat
  BY ContentsFacts, ContentsNext, SizesAssumption DEF IInv, Buffer
<1>2. \A x \in Cell :
        memory'[x] = IF x >= buffers[b].offset /\ x < buffers[b].offset + Len(data)
                       THEN data[x - buffers[b].offset + 1] ELSE memory[x]
  BY DEF Stored
<1>3. ASSUME NEW a \in Buffer, a # b PROVE Cells(a)' = Cells(a)
  <2>1. /\ buffers[a].offset \in Nat /\ buffers[a].size \in Nat
        /\ buffers[b].offset \in Nat /\ buffers[b].size \in Nat
    BY <1>1 DEF ContentsOK
  <2>2. /\ a < b => buffers[a].offset + buffers[a].size <= buffers[b].offset
        /\ b < a => buffers[b].offset + buffers[b].size <= buffers[a].offset
        /\ a < b \/ b < a
    BY <1>1, <1>3 DEF LayoutInv, End
  <2>3. ASSUME NEW i \in 1 .. buffers[a].size, buffers[a].offset + i - 1 \in Cell
        PROVE  memory'[buffers[a].offset + i - 1] = memory[buffers[a].offset + i - 1]
    <3> DEFINE x == buffers[a].offset + i - 1
    <3>1. x \in Int /\ x >= buffers[a].offset /\ x < buffers[a].offset + buffers[a].size
      BY <2>1
    <3>2. x \in Cell
      BY <2>3
    <3> HIDE DEF x
    <3>3. a < b => ~(x >= buffers[b].offset)
      BY <2>1, <2>2, <3>1
    <3>4. b < a => ~(x < buffers[b].offset + Len(data))
      BY <1>1, <2>1, <2>2, <3>1
    <3>5. memory'[x] = memory[x]
      BY <1>2, <2>2, <3>2, <3>3, <3>4
    <3> QED BY <3>5 DEF x
  <2> QED BY <2>3 DEF Cells
<1>4. Cells(b)' = [i \in 1 .. Len(Contents[b]) |->
                     IF i <= Len(data) THEN data[i] ELSE Contents[b][i]]
  <2>1. /\ buffers[b].offset \in Nat /\ buffers[b].size \in Nat
        /\ Contents[b] = Cells(b) /\ Len(Contents[b]) = buffers[b].size
    BY <1>1 DEF ContentsOK
  <2>2. ASSUME NEW i \in 1 .. buffers[b].size
        PROVE  (IF buffers[b].offset + i - 1 \in Cell
                  THEN memory'[buffers[b].offset + i - 1] ELSE Blank)
                = IF i <= Len(data) THEN data[i] ELSE Cells(b)[i]
    <3> DEFINE x == buffers[b].offset + i - 1
    <3>1. x \in Int /\ x >= buffers[b].offset /\ x - buffers[b].offset + 1 = i
          /\ (x < buffers[b].offset + Len(data) <=> i <= Len(data))
      BY <1>1, <2>1
    <3>2. Cells(b)[i] = IF x \in Cell THEN memory[x] ELSE Blank
      BY DEF Cells
    <3>3. i <= Len(data) => x \in Cell
      BY <1>1, <2>1, <3>1 DEF Cell
    <3> HIDE DEF x
    <3>4. x \in Cell => memory'[x] = IF i <= Len(data) THEN data[i] ELSE memory[x]
      BY <1>2, <3>1
    <3>5. (IF x \in Cell THEN memory'[x] ELSE Blank)
            = IF i <= Len(data) THEN data[i] ELSE Cells(b)[i]
      BY <3>2, <3>3, <3>4
    <3> QED BY <3>5 DEF x
  <2> QED BY <2>1, <2>2 DEF Cells
<1>5. Contents = [a \in Buffer |-> Cells(a)] /\ Contents' = [a \in Buffer |-> Cells(a)']
  BY <1>1 DEF Contents
<1> HIDE DEF Cells
<1> QED BY <1>3, <1>4, <1>5 DEF Overwritten

LEMMA DispatchRef ==
  ASSUME ArgsInOrder, IInv, IInv', Dispatch
  PROVE  Store!Execute
<1>1. PICK n \in 1 .. issued :
        /\ n = Len(executed) + 1 /\ Len(executed') = n /\ n \in Nat
        /\ Reach(packet[n]) <= GLOBAL_MEMORY_SIZE
        /\ Dispatched(n)
        /\ UNCHANGED <<issued, bufferVars, asked>>
  BY DispatchFacts
<1>2. ContentsOK /\ ContentsOK' /\ UNCHANGED buffers
  BY <1>1, ContentsFacts, ContentsNext DEF bufferVars
<1>3. LayoutInv /\ ResultInv /\ UnmapInv /\ Len(asked) = issued /\ issued \in Nat
      /\ StreamInv /\ Len(executed) \in Nat
  BY DEF IInv, StreamInv, CmdTypeInv
<1>4. ASSUME Store!Effect(n, asked[n]) PROVE Store!Execute
  <2>1. n \in 1 .. Len(asked) /\ Len(executed) = n - 1 /\ Len(executed') = n /\ UNCHANGED asked
    BY <1>1, <1>3
  <2> QED BY <1>4, <2>1 DEF Store!Execute
<1>5. CASE /\ WritePacket(asked[n], packet[n])
           /\ memory' = Stored(packet[n].offset, packet[n].data) /\ UNCHANGED ret
  <2>1. PICK b \in Buffer : \E data \in [1 .. buffers[b].size -> Data] :
           /\ asked[n] = [op |-> "write", buf |-> b, data |-> data]
           /\ packet[n].offset = buffers[b].offset /\ packet[n].data = data
           /\ Len(data) = buffers[b].size /\ data \in Seq(Data)
           /\ Reach(packet[n]) = buffers[b].offset + buffers[b].size
    BY <1>5, WriteFacts
  <2>2. PICK data \in [1 .. buffers[b].size -> Data] :
           /\ asked[n] = [op |-> "write", buf |-> b, data |-> data]
           /\ packet[n].offset = buffers[b].offset /\ packet[n].data = data
           /\ Len(data) = buffers[b].size /\ data \in Seq(Data)
           /\ Reach(packet[n]) = buffers[b].offset + buffers[b].size
    BY <2>1
  <2>3. buffers[b].size \in Nat
    BY <1>2 DEF ContentsOK
  <2>4. Overwritten(b, data)
    BY <1>1, <1>2, <1>5, <2>2, <2>3, OverwriteRef
  <2>5. asked[n].op = "write" /\ asked[n].buf = b /\ asked[n].data = data
    BY <2>2
  <2>6. LET cells == asked[n].data
        IN  Contents' = [Contents EXCEPT ![asked[n].buf] =
              [i \in 1 .. Len(@) |-> IF i <= Len(cells) THEN cells[i] ELSE @[i]]]
    BY <2>4, <2>5 DEF Overwritten
  <2>7. Store!Overwrite(asked[n].buf, asked[n].data)
    BY <2>6 DEF Store!Overwrite, Contents, Cells
  <2>8. Store!Effect(n, asked[n])
    BY <1>5, <2>5, <2>7 DEF Store!Effect, Contents, Cells
  <2> QED BY <1>4, <2>8
<1>6. CASE /\ ReadPacket(asked[n], packet[n])
           /\ ret' = [ret EXCEPT ![n] = Loaded(packet[n].offset, packet[n].accessLength)]
           /\ UNCHANGED memory
  <2>1. PICK b \in Buffer :
           /\ asked[n].op \in {"read", "map"} /\ asked[n].buf = b
           /\ packet[n].offset = buffers[b].offset /\ packet[n].accessLength = buffers[b].size
           /\ buffers[b].offset + buffers[b].size <= GLOBAL_MEMORY_SIZE
    BY <1>1, <1>6, ReadFacts
  <2>2. /\ buffers[b].offset \in Nat /\ buffers[b].size \in Nat /\ Contents[b] = Cells(b)
        /\ GLOBAL_MEMORY_SIZE \in Nat
    BY <1>2, SizesAssumption DEF ContentsOK
  <2>3. \A i \in 1 .. buffers[b].size : buffers[b].offset + i - 1 \in Cell
    BY <2>1, <2>2 DEF Cell
  <2>4. Loaded(buffers[b].offset, buffers[b].size) = Contents[b]
    BY <2>2, <2>3 DEF Loaded, Cells
  <2>5. ret[n] = NotYet
    BY <1>1, <1>3 DEF ResultInv
  <2>6. ret' = [ret EXCEPT ![n] = Contents[asked[n].buf]] /\ Contents' = Contents
    BY <1>2, <1>6, <2>1, <2>4, SameContents
  <2>7. Store!Effect(n, asked[n])
    BY <2>1, <2>5, <2>6 DEF Store!Effect, Contents, Cells
  <2> QED BY <1>4, <2>7
<1>7. CASE /\ FreePacket(n, asked[n], packet[n])
           /\ ret' = [ret EXCEPT ![packet[n].region] = Gone] /\ UNCHANGED memory
  <2>1. PICK m \in 1 .. n - 1 :
          asked[n].op = "unmap" /\ asked[n].of = m /\ packet[n].region = m
    BY <1>7 DEF FreePacket
  <2>2. m \in 1 .. issued /\ \A k \in 1 .. Len(executed) : k \in 1 .. issued /\ k # n
    BY <1>1, <1>3, <2>1 DEF StreamInv
  <2>3. ret[m] # Gone
    BY <1>1, <1>3, <2>1, <2>2 DEF ResultInv, UnmapInv, Unmaps
  <2>4. Contents' = Contents
    BY <1>2, <1>7, SameContents
  <2>5. Store!Effect(n, asked[n])
    BY <1>7, <2>1, <2>3, <2>4 DEF Store!Effect, Contents, Cells
  <2> QED BY <1>4, <2>5
<1>8. CASE /\ StartPacket(asked[n], packet[n])
           /\ memory' = Stored(packet[n].to, Loaded(packet[n].from, packet[n].work))
           /\ UNCHANGED ret
  <2>1. PICK a \in Buffer, b \in Buffer :
           /\ a # b /\ (ArgsInOrder => a = 1 /\ b = 2)
           /\ asked[n] = [op |-> "copy", from |-> a, to |-> b, len |-> Work(a, b)]
           /\ packet[n].from = 0 /\ packet[n].to = buffers[a].size
           /\ packet[n].work = Work(a, b) /\ Work(a, b) \in Nat
           /\ Work(a, b) <= buffers[a].size /\ Work(a, b) <= buffers[b].size
           /\ buffers[a].size + Work(a, b) <= GLOBAL_MEMORY_SIZE
           /\ Loaded(0, Work(a, b)) \in Seq(Data) /\ Len(Loaded(0, Work(a, b))) = Work(a, b)
    BY <1>1, <1>8, StartFacts
  <2> DEFINE len == Work(a, b)
  <2>2. /\ asked[n].op = "copy" /\ asked[n].from = a /\ asked[n].to = b /\ asked[n].len = len
    BY <2>1
  <2>3. len \in Nat /\ len <= buffers[a].size /\ len <= buffers[b].size
        /\ Loaded(0, len) \in Seq(Data) /\ Len(Loaded(0, len)) = len
        /\ buffers[a].size + len <= GLOBAL_MEMORY_SIZE
        /\ memory' = Stored(buffers[a].size, Loaded(0, len)) /\ a = 1 /\ b = 2
    BY <1>8, <2>1
  <2> HIDE DEF len
  <2>4. buffers[a].offset = 0 /\ buffers[b].offset = buffers[a].size
    BY <1>3, <2>3 DEF LayoutInv
  <2>5. Overwritten(b, Loaded(0, len))
    BY <1>2, <2>3, <2>4, OverwriteRef
  <2>6. Loaded(0, len) = [i \in 1 .. len |-> Contents[a][i]]
    <3>1. buffers[a].size \in Nat /\ Contents[a] = Cells(a) /\ GLOBAL_MEMORY_SIZE \in Nat
      BY <1>2, SizesAssumption DEF ContentsOK
    <3>2. ASSUME NEW i \in 1 .. len PROVE memory[0 + i - 1] = Cells(a)[i]
      <4>1. i \in 1 .. buffers[a].size /\ 0 + i - 1 \in Cell
        BY <2>3, <3>1 DEF Cell
      <4> QED BY <2>4, <4>1 DEF Cells
    <3> QED BY <3>1, <3>2 DEF Loaded
  <2>7. LET cells == [i \in 1 .. asked[n].len |-> Contents[asked[n].from][i]]
        IN  Contents' = [Contents EXCEPT ![asked[n].to] =
              [i \in 1 .. Len(@) |-> IF i <= Len(cells) THEN cells[i] ELSE @[i]]]
    BY <2>2, <2>5, <2>6 DEF Overwritten
  <2>8. Store!Overwrite(asked[n].to, Store!Prefix(Contents[asked[n].from], asked[n].len))
    BY <2>7 DEF Store!Prefix, Store!Overwrite, Contents, Cells
  <2>9. Store!Effect(n, asked[n])
    BY <1>8, <2>2, <2>8 DEF Store!Effect, Contents, Cells
  <2> QED BY <1>4, <2>9
<1>9. CASE NonePacket(asked[n], packet[n]) /\ UNCHANGED <<memory, ret>>
  <2>1. asked[n].op = "nothing" /\ Contents' = Contents
    BY <1>2, <1>9, SameContents, Operations
  <2>2. Store!Effect(n, asked[n])
    BY <1>9, <2>1 DEF Store!Effect, Contents, Cells
  <2> QED BY <1>4, <2>2
<1> QED BY <1>1, <1>5, <1>6, <1>7, <1>8, <1>9 DEF Dispatched

(* The commands of a queue act on their own buffers, in the order of the   *)
(* calls and with the data of the time of the call, as BufferStore says,   *)
(* for an application that calls kernels with its first buffers in order.  *)
THEOREM CommandsActOnOwnBuffers == ArgsInOrder /\ SpecMemory => ActsOnOwnBuffers
<1> SUFFICES ASSUME ArgsInOrder PROVE SpecMemory => ActsOnOwnBuffers
  OBVIOUS
<1>1. ASSUME IInv, IInv', [NextMemory]_allVars PROVE [Store!Next]_(Store!vars)
  <2>1. \A size \in Sizes : CreateBuffer(size) => Store!Create
    BY <1>1, CreateRef
  <2>2. BufferCommand => Store!Accept
    BY <1>1, AcceptRef
  <2>3. Dispatch => Store!Execute
    BY <1>1, DispatchRef
  <2> QED BY <1>1, <2>1, <2>2, <2>3, QuietRef DEF NextMemory, Store!Next
<1>2. SpecMemory => Store!Init /\ [][Store!Next]_(Store!vars)
  BY InitRef, Invariance, <1>1, PTL DEF SpecMemory
<1> QED BY <1>2 DEF ActsOnOwnBuffers, Store!Spec
=============================================================================
