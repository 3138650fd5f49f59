------------------------------ MODULE Transport ------------------------------
(***************************************************************************)
(* The bytes of one connection: dev_write and dev_read of                  *)
(* src/host/dev_interface.c, the relay simpleProxy.c between two sockets,  *)
(* and the receive loop of ControlLink::act_func with the framing of       *)
(* processPacket.                                                          *)
(*                                                                         *)
(* A socket is a sequence of cells.  A write puts its cells at the end; a  *)
(* read takes some of the first ones, at least one and as many as it asked *)
(* for at most, since TCP delivers a message in pieces of any size.  The   *)
(* host and the device use blocking sockets and install no signal          *)
(* handlers, so that their writes are complete; the relay's sockets do not *)
(* block, and a write takes what the socket has room for.                  *)
(*                                                                         *)
(* A cell says which message it is from, its place there, and (in the      *)
(* first HEADER cells, where the length field is) the message's length.    *)
(***************************************************************************)
EXTENDS Naturals, Sequences

CONSTANTS
  HEADER,         \* offsetof(CommPacket_t, cmdId), in cells
  RequestSizes,   \* lengths of requests
  ReplySizes,     \* lengths of answers
  BUF_SIZE,       \* of the relay
  MAXBUF,         \* of the device's receive buffer
  Room,           \* of the sockets the relay writes to
  MaxExchanges    \* bound

ASSUME LengthsAssumption ==
  /\ HEADER \in Nat \ {0} /\ MAXBUF \in Nat \ {0}
  /\ RequestSizes \subseteq HEADER .. MAXBUF
  /\ ReplySizes \subseteq Nat \ {0}
ASSUME BuffersAssumption ==
  BUF_SIZE \in Nat \ {0} /\ Room \in Nat \ {0} /\ MaxExchanges \in Nat

VARIABLES
  hostPc,       \* "idle", "reading" or "closed"
  buffer,       \* what dev_read was given to fill
  total,        \* of dev_read
  proxyPc,      \* "toServer", "toClient", "select" or "gone"
  cbuf, sbuf,   \* of service_client; cbo and sbo are their lengths
  devPc,        \* "recv", "answer" or "gone"
  buf,          \* of act_func
  toProxy, toDevice, fromDevice, fromProxy,   \* what the sockets hold
  asked,        \* history: the requests made
  handled,      \* history: the requests the device handled
  answered,     \* history: how many reads have ended
  reply,        \* history: the answer to the current request
  split         \* history: it was read in pieces

hostVars == <<hostPc, buffer, total>>
proxyVars == <<proxyPc, cbuf, sbuf>>
devVars == <<devPc, buf>>
sockets == <<toProxy, toDevice, fromDevice, fromProxy>>
history == <<asked, handled, answered, reply, split>>
vars == <<hostVars, proxyVars, devVars, sockets, history>>

Message(n, len) ==
  [i \in 1 .. len |-> [of |-> n, at |-> i, length |-> IF i <= HEADER THEN len ELSE 0]]

Least(a, b) == IF a < b THEN a ELSE b
First(s, n) == SubSeq(s, 1, n)
Rest(s, n) == SubSeq(s, n + 1, Len(s))

Init ==
  /\ hostPc = "idle" /\ buffer = <<>> /\ total = 0
  /\ proxyPc = "toServer" /\ cbuf = <<>> /\ sbuf = <<>>
  /\ devPc = "recv" /\ buf = <<>>
  /\ toProxy = <<>> /\ toDevice = <<>> /\ fromDevice = <<>> /\ fromProxy = <<>>
  /\ asked = <<>> /\ handled = <<>> /\ answered = 0 /\ reply = <<>> /\ split = FALSE

-----------------------------------------------------------------------------
(* The host.  Every dispatch function writes a request and reads an answer *)
(* whose length it knows.                                                  *)

DevWrite(len, replyLen) ==
  LET n == Len(asked) + 1
  IN  /\ hostPc = "idle"
      /\ n <= MaxExchanges
      /\ asked' = Append(asked, Message(n, len))
      /\ toProxy' = toProxy \o Message(n, len)
      /\ reply' = Message(n, replyLen)
      /\ buffer' = [i \in 1 .. replyLen |-> [of |-> 0, at |-> i, length |-> 0]]
      /\ total' = 0
      /\ split' = FALSE
      /\ hostPc' = "reading"
      /\ UNCHANGED <<proxyVars, devVars, toDevice, fromDevice, fromProxy, handled, answered>>

(* Every turn reads to the beginning of the buffer, and as much as is left *)
(* in the socket up to the whole length, whatever has come before.         *)
ReadAt(x) == [i \in 1 .. Len(buffer) |-> IF i <= x THEN fromProxy[i] ELSE buffer[i]]

DevRead(x) ==
  /\ hostPc = "reading"
  /\ x <= Least(Len(fromProxy), Len(buffer))
  /\ buffer' = ReadAt(x)
  /\ fromProxy' = Rest(fromProxy, x)
  /\ total' = total + x
  /\ IF total + x < Len(buffer)
       THEN split' = TRUE /\ UNCHANGED <<hostPc, answered>>
       ELSE hostPc' = "idle" /\ answered' = answered + 1 /\ UNCHANGED split
  /\ UNCHANGED <<proxyVars, devVars, toProxy, toDevice, fromDevice, asked, handled, reply>>

DevDisconnect ==
  /\ hostPc = "idle"
  /\ hostPc' = "closed"
  /\ UNCHANGED <<buffer, total, proxyVars, devVars, sockets, history>>

-----------------------------------------------------------------------------
(* The relay: a turn of its loop writes to both sides what it has, then    *)
(* reads from those that select reports and that its buffer has room for.  *)
(* mywrite moves what was not written to the beginning of the buffer.      *)

Unwritten_Kept(b, x) == b
Unwritten(b, x) == Rest(b, x)

(* What write takes of b: as much as there is room for. *)
Taken(b, socket) == Least(Len(b), Room - Len(socket))

FlushToServer ==
  LET x == Taken(cbuf, toDevice)
  IN  /\ proxyPc = "toServer"
      /\ toDevice' = toDevice \o First(cbuf, x)
      /\ cbuf' = Unwritten(cbuf, x)
      /\ proxyPc' = "toClient"
      /\ UNCHANGED <<hostVars, sbuf, devVars, toProxy, fromDevice, fromProxy, history>>

FlushToClient ==
  LET x == Taken(sbuf, fromProxy)
  IN  /\ proxyPc = "toClient"
      /\ fromProxy' = fromProxy \o First(sbuf, x)
      /\ sbuf' = Unwritten(sbuf, x)
      /\ proxyPc' = "select"
      /\ UNCHANGED <<hostVars, cbuf, devVars, toProxy, toDevice, fromDevice, history>>

(* What read may return with space for n in the buffer; 0 means the end of *)
(* the stream, and is what a read into a full buffer returns too.          *)
Counts_NoOffset(socket, n) ==
  IF socket = <<>> THEN {0} ELSE 1 .. Least(Len(socket), BUF_SIZE)
Counts(socket, n) == IF socket = <<>> \/ n = 0 THEN {0} ELSE 1 .. Least(Len(socket), n)

HasSpace_Always(b) == TRUE
HasSpace(b) == Len(b) < BUF_SIZE

ClientReady == HasSpace(cbuf) /\ (toProxy # <<>> \/ hostPc = "closed")
ServerReady == HasSpace(sbuf) /\ (fromDevice # <<>> \/ devPc = "gone")

Relay(x, y) ==
  /\ cbuf' = cbuf \o First(toProxy, x)
  /\ toProxy' = Rest(toProxy, x)
  /\ sbuf' = sbuf \o First(fromDevice, y)
  /\ fromDevice' = Rest(fromDevice, y)
  /\ proxyPc' = "toServer"

Select ==
  /\ proxyPc = "select"
  /\ \E x \in IF ClientReady THEN Counts(toProxy, BUF_SIZE - Len(cbuf)) ELSE {0},
        y \in IF ServerReady THEN Counts(fromDevice, BUF_SIZE - Len(sbuf)) ELSE {0} :
       /\ ClientReady => x # 0
       /\ ServerReady => y # 0
       /\ Relay(x, y)
  /\ UNCHANGED <<hostVars, devVars, toDevice, fromProxy, history>>

(* A read of 0 cells: both sockets are closed, with what the buffers hold. *)
CloseBoth ==
  /\ proxyPc = "select"
  /\ \/ ClientReady /\ 0 \in Counts(toProxy, BUF_SIZE - Len(cbuf))
     \/ ServerReady /\ 0 \in Counts(fromDevice, BUF_SIZE - Len(sbuf))
  /\ proxyPc' = "gone"
  /\ UNCHANGED <<hostVars, cbuf, sbuf, devVars, sockets, history>>

ProxyStep == FlushToServer \/ FlushToClient \/ Select \/ CloseBoth

-----------------------------------------------------------------------------
(* The device: recv to the end of what it has, then processPacket, which   *)
(* takes one packet if it is complete.                                     *)

(* processPacket: the length field tells where the packet ends.            *)
Complete_OneMore(b) == Len(b) >= HEADER /\ b[1].length < Len(b)
Complete(b) == Len(b) >= HEADER /\ b[1].length <= Len(b)

Consumed_HeaderOnly(b) == HEADER
Consumed(b) == b[1].length

Recv(x) ==
  /\ devPc = "recv"
  /\ x <= Least(Len(toDevice), MAXBUF - Len(buf))
  /\ toDevice' = Rest(toDevice, x)
  /\ LET b == buf \o First(toDevice, x)
     IN  IF Complete(b)
           THEN /\ handled' = Append(handled, First(b, Consumed(b)))
                /\ buf' = Rest(b, Consumed(b))
                /\ devPc' = "answer"
           ELSE buf' = b /\ UNCHANGED <<handled, devPc>>
  /\ UNCHANGED <<hostVars, proxyVars, toProxy, fromDevice, fromProxy, asked, answered, reply, split>>

SendReply ==
  /\ devPc = "answer"
  /\ fromDevice' = fromDevice \o reply
  /\ devPc' = "recv"
  /\ UNCHANGED <<hostVars, proxyVars, buf, toProxy, toDevice, fromProxy, history>>

(* recv returns 0: the relay has gone, or the buffer is full. *)
RecvEnd ==
  /\ devPc = "recv"
  /\ (proxyPc = "gone" /\ toDevice = <<>>) \/ Len(buf) = MAXBUF
  /\ devPc' = "gone"
  /\ UNCHANGED <<hostVars, proxyVars, buf, sockets, history>>

DeviceStep == (\E x \in 1 .. Room : Recv(x)) \/ SendReply \/ RecvEnd

HostStep == \E x \in 1 .. Room : DevRead(x)

Next ==
  \/ \E len \in RequestSizes, replyLen \in ReplySizes : DevWrite(len, replyLen)
  \/ DevDisconnect
  \/ HostStep \/ ProxyStep \/ DeviceStep

Spec == Init /\ [][Next]_vars

(* The relay, the device and a host that waits for an answer run. *)
FairSpec == Spec /\ WF_vars(HostStep) /\ WF_vars(ProxyStep) /\ WF_vars(DeviceStep)

-----------------------------------------------------------------------------
(* Properties. *)

Cells == [of : 0 .. MaxExchanges, at : Nat, length : {0} \cup RequestSizes \cup ReplySizes]

(* The type invariant of the buffers and the sockets, with their limits.   *)
TypeOK ==
  /\ hostPc \in {"idle", "reading", "closed"}
  /\ proxyPc \in {"toServer", "toClient", "select", "gone"}
  /\ devPc \in {"recv", "answer", "gone"}
  /\ cbuf \in Seq(Cells) /\ Len(cbuf) <= BUF_SIZE
  /\ sbuf \in Seq(Cells) /\ Len(sbuf) <= BUF_SIZE
  /\ buf \in Seq(Cells) /\ Len(buf) <= MAXBUF
  /\ toDevice \in Seq(Cells) /\ Len(toDevice) <= Room
  /\ fromProxy \in Seq(Cells) /\ Len(fromProxy) <= Room
  /\ toProxy \in Seq(Cells) /\ fromDevice \in Seq(Cells)
  /\ total \in Nat /\ answered \in Nat /\ split \in BOOLEAN

(* Requests reach the device whole, in order and once, each is answered    *)
(* once, and a read ends only after the device has answered.               *)
Carried == INSTANCE Exchange WITH
  Messages <- {Message(n, len) : n \in 1 .. MaxExchanges, len \in RequestSizes}
RequestsCarried == Carried!Spec

(* dev_interface.c:78: a read that is not answered in one piece puts every *)
(* piece at the beginning of the caller's buffer.  When it is answered in  *)
(* one piece the buffer holds the answer.                                  *)
ReadsReply == hostPc = "idle" /\ ~split => buffer = reply

(* The damage of such a read ends with it: nothing of an answer or of a    *)
(* request is left anywhere between two exchanges, so that the next one    *)
(* starts in step.  And neither the relay, which exits with what it holds  *)
(* when a read returns 0, nor the device goes away before the host has     *)
(* closed the connection.                                                  *)
InStep ==
  /\ hostPc # "reading" =>
       \A s \in {toProxy, cbuf, toDevice, buf, fromDevice, sbuf, fromProxy} : s = <<>>
  /\ proxyPc = "gone" \/ devPc = "gone" => hostPc = "closed"

(* Every exchange ends, through buffers smaller than its messages. *)
ExchangeEnds == hostPc = "reading" ~> hostPc = "idle"
=============================================================================
