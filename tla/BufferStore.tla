---------------------------- MODULE BufferStore -----------------------------
(***************************************************************************)
(* What the buffer and kernel commands of one queue promise together: every *)
(* buffer has contents of its own; commands take effect on them one at a   *)
(* time in the order of the calls; a write stores what the application's    *)
(* memory held at the call; a read or a map delivers what the commands      *)
(* before it have left; a kernel touches the buffers it was called with and *)
(* no other; and a mapped region lives until its unmap takes effect.        *)
(***************************************************************************)
EXTENDS Naturals, Sequences

CONSTANTS
  Data,         \* what a cell of memory can hold
  Sizes,        \* the sizes of buffers
  NotYet, Gone  \* a result that is not there yet, or whose memory was freed

VARIABLES
  contents,     \* contents[b]: the cells of buffer b
  asked,        \* the calls that were accepted, in order
  done,         \* how many of them have taken effect
  delivered     \* delivered[n]: what the n-th call has delivered

vars == <<contents, asked, done, delivered>>

Buffer == 1 .. Len(contents)
Prefix(s, n) == [i \in 1 .. n |-> s[i]]

Call ==
  (UNION {[op : {"write"}, buf : {b}, data : [1 .. Len(contents[b]) -> Data]] : b \in Buffer})
    \cup [op : {"read", "map"}, buf : Buffer]
    \cup [op : {"unmap"}, of : 1 .. Len(asked)]
    \cup [op : {"copy"}, from : Buffer, to : Buffer, len : Sizes]
    \cup [op : {"nothing"}]

Init ==
  /\ contents = <<>>
  /\ asked = <<>>
  /\ done = 0
  /\ delivered = <<>>

(* A new buffer holds anything. *)
Create ==
  /\ \E size \in Sizes : \E cells \in [1 .. size -> Data] :
       contents' = Append(contents, cells)
  /\ UNCHANGED <<asked, done, delivered>>

Accept ==
  /\ \E c \in Call : asked' = Append(asked, c)
  /\ delivered' = Append(delivered, NotYet)
  /\ UNCHANGED <<contents, done>>

Overwrite(b, data) ==
  contents' = [contents EXCEPT ![b] =
    [i \in 1 .. Len(@) |-> IF i <= Len(data) THEN data[i] ELSE @[i]]]

Effect(n, c) ==
  \/ c.op = "write" /\ Overwrite(c.buf, c.data) /\ UNCHANGED delivered
  \/ /\ c.op = "copy"
     /\ Overwrite(c.to, Prefix(contents[c.from], c.len))
     /\ UNCHANGED delivered
  \/ /\ c.op \in {"read", "map"}
     /\ delivered[n] = NotYet
     /\ delivered' = [delivered EXCEPT ![n] = contents[c.buf]]
     /\ UNCHANGED contents
  \/ /\ c.op = "unmap"
     /\ delivered[c.of] # Gone
     /\ delivered' = [delivered EXCEPT ![c.of] = Gone]
     /\ UNCHANGED contents
  \/ c.op = "nothing" /\ UNCHANGED <<contents, delivered>>

Execute ==
  \E n \in 1 .. Len(asked) :
    /\ done = n - 1
    /\ done' = n
    /\ Effect(n, asked[n])
    /\ UNCHANGED asked

Next == Create \/ Accept \/ Execute

Spec == Init /\ [][Next]_vars
=============================================================================
