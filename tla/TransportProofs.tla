--------------------------- MODULE TransportProofs ---------------------------
(***************************************************************************)
(* Proofs about Transport, for any lengths of requests and answers, any    *)
(* sizes of the relay's buffers, the device's buffer and the sockets, and  *)
(* any number of exchanges: whatever pieces the sockets deliver, requests  *)
(* reach the device whole and once, and no exchange leaves anything to the *)
(* next.                                                                   *)
(***************************************************************************)
EXTENDS Transport, SequenceTheorems, TLAPS

-----------------------------------------------------------------------------
(* The inductive invariant. *)

Slice(s, i, j) == SubSeq(s, i + 1, j)

(* s after x cells of t have moved to it. *)
Joined(s, t, x) == s \o First(t, x)

(* The request and the answer of the current exchange. *)
R == asked[Len(asked)]
Request(n) == {Message(n, len) : len \in RequestSizes}
Reply(n) == {Message(n, len) : len \in ReplySizes}

(* s, t and u hold message m from its cell i on, each the part behind the  *)
(* one before it.                                                          *)
Path(m, i, s, t, u) ==
  LET b == i + Len(s)
      c == b + Len(t)
  IN  /\ s = Slice(m, i, b) /\ t = Slice(m, b, c) /\ u = Slice(m, c, Len(m))
      /\ c <= Len(m)

(* From the device back to the host: the device has less than all of it.   *)
RequestPath ==
  /\ buf = Slice(R, 0, Len(buf)) /\ Len(buf) < Len(R)
  /\ Path(R, Len(buf), toDevice, cbuf, toProxy)

(* And from the host to the device what is left of the answer. *)
ReplyPath == Path(reply, total, fromProxy, sbuf, fromDevice) /\ total < Len(reply)

NoRequest == buf = <<>> /\ toDevice = <<>> /\ cbuf = <<>> /\ toProxy = <<>>
NoReply == fromProxy = <<>> /\ sbuf = <<>> /\ fromDevice = <<>>

(* An exchange goes through four phases. *)
AtRest ==
  /\ hostPc # "reading" /\ devPc # "answer"
  /\ NoRequest /\ NoReply
  /\ handled = asked /\ answered = Len(asked)
  /\ ~split => buffer = reply
Asking ==
  /\ hostPc = "reading" /\ devPc = "recv"
  /\ RequestPath /\ NoReply
  /\ asked = Append(handled, R) /\ total = 0 /\ ~split
Handling ==
  /\ hostPc = "reading" /\ devPc = "answer"
  /\ NoRequest /\ NoReply
  /\ handled = asked /\ total = 0 /\ ~split
Answering ==
  /\ hostPc = "reading" /\ devPc = "recv"
  /\ NoRequest /\ ReplyPath
  /\ handled = asked /\ (~split => total = 0)

PhaseInv == AtRest \/ Asking \/ Handling \/ Answering

(* What is on the way is the request asked last and the answer to it. *)
MessageInv ==
  /\ asked \in Seq(UNION {Request(n) : n \in 1 .. MaxExchanges})
  /\ handled \in Seq(UNION {Request(n) : n \in 1 .. MaxExchanges})
  /\ Len(asked) <= MaxExchanges
  /\ hostPc = "reading" =>
       /\ asked # <<>> /\ answered = Len(asked) - 1
       /\ R \in Request(Len(asked)) /\ reply \in Reply(Len(asked))
       /\ Len(buffer) = Len(reply)

(* The relay and the device go only after the host. *)
CloseInv == proxyPc = "gone" \/ devPc = "gone" => hostPc = "closed"

IInv == TypeOK /\ MessageInv /\ PhaseInv /\ CloseInv

-----------------------------------------------------------------------------
(* Sequences and their slices. *)

LEMMA CutFacts ==
  ASSUME NEW S, NEW t \in Seq(S), NEW x \in Nat, x <= Len(t)
  PROVE  /\ First(t, x) \in Seq(S) /\ Len(First(t, x)) = x
         /\ \A i \in 1 .. x : First(t, x)[i] = t[i]
         /\ Rest(t, x) \in Seq(S) /\ Len(Rest(t, x)) = Len(t) - x
         /\ \A i \in 1 .. Len(t) - x : Rest(t, x)[i] = t[x + i]
<1>1. Len(t) \in Nat /\ \A i \in 1 .. Len(t) : t[i] \in S
  BY LenProperties, ElementOfSeq
<1>2. /\ SubSeq(t, 1, x) \in Seq(S) /\ Len(SubSeq(t, 1, x)) = x
      /\ \A i \in 1 .. x : SubSeq(t, 1, x)[i] = t[i]
  BY <1>1, SubSeqProperties
<1>3. /\ SubSeq(t, x + 1, Len(t)) \in Seq(S) /\ Len(SubSeq(t, x + 1, Len(t))) = Len(t) - x
      /\ \A i \in 1 .. Len(t) - x : SubSeq(t, x + 1, Len(t))[i] = t[x + i]
  BY <1>1, SubSeqProperties
<1> QED BY <1>2, <1>3 DEF First, Rest

LEMMA MoveType ==
  ASSUME NEW S, NEW s \in Seq(S), NEW t \in Seq(S), NEW x \in Nat, x <= Len(t)
  PROVE  /\ s \o First(t, x) \in Seq(S) /\ Len(s \o First(t, x)) = Len(s) + x
         /\ Rest(t, x) \in Seq(S) /\ Len(Rest(t, x)) = Len(t) - x
<1> DEFINE f == First(t, x)
<1>1. f \in Seq(S) /\ Len(f) = x
  BY CutFacts
<1> HIDE DEF f
<1>2. s \o f \in Seq(S) /\ Len(s \o f) = Len(s) + Len(f)
  BY <1>1, ConcatProperties
<1>3. s \o First(t, x) \in Seq(S) /\ Len(s \o First(t, x)) = Len(s) + x
  BY <1>1, <1>2 DEF f
<1>4. Rest(t, x) \in Seq(S) /\ Len(Rest(t, x)) = Len(t) - x
  BY CutFacts
<1> QED BY <1>3, <1>4

LEMMA NothingMoved ==
  ASSUME NEW S, NEW s \in Seq(S), NEW t \in Seq(S)
  PROVE  s \o First(t, 0) = s /\ Rest(t, 0) = t
<1>1. 0 \in Nat /\ Len(t) \in Nat /\ 0 <= Len(t) /\ Len(t) - 0 = Len(t)
  BY LenProperties
<1>2. First(t, 0) \in Seq(S) /\ Len(First(t, 0)) = 0
  BY <1>1, CutFacts
<1>3. First(t, 0) = <<>>
  BY <1>2, EmptySeq
<1>4. s \o <<>> = s
  BY ConcatEmptySeq
<1>5. Rest(t, 0) \in Seq(S) /\ Len(Rest(t, 0)) = Len(t) - 0
      /\ \A i \in 1 .. Len(t) - 0 : Rest(t, 0)[i] = t[0 + i]
  BY <1>1, CutFacts
<1>6. \A i \in 1 .. Len(t) : Rest(t, 0)[i] = t[i]
  <2> TAKE i \in 1 .. Len(t)
  <2>1. i \in 1 .. Len(t) - 0 /\ 0 + i = i
    BY <1>1
  <2> QED BY <2>1, <1>5
<1>7. Rest(t, 0) = t
  BY <1>1, <1>5, <1>6, SeqEqual
<1> QED BY <1>3, <1>4, <1>7

LEMMA SliceFacts ==
  ASSUME NEW S, NEW s \in Seq(S), NEW i \in Nat, NEW j \in Nat, i <= j, j <= Len(s)
  PROVE  /\ Slice(s, i, j) \in Seq(S) /\ Len(Slice(s, i, j)) = j - i
         /\ \A n \in 1 .. j - i : Slice(s, i, j)[n] = s[i + n]
<1>1. Len(s) \in Nat /\ \A n \in 1 .. Len(s) : s[n] \in S
  BY LenProperties, ElementOfSeq
<1> QED BY <1>1, SubSeqProperties DEF Slice

LEMMA WholeSlice ==
  ASSUME NEW S, NEW s \in Seq(S)
  PROVE  /\ Slice(s, 0, Len(s)) = s
         /\ \A i \in 0 .. Len(s) : Slice(s, i, i) = <<>>
<1>1. Len(s) \in Nat
  BY LenProperties
<1>2. Slice(s, 0, Len(s)) = s
  <2> DEFINE t == Slice(s, 0, Len(s))
  <2>1. 0 <= Len(s) /\ 0 \in Nat /\ Len(s) <= Len(s) /\ Len(s) - 0 = Len(s)
    BY <1>1
  <2>2. t \in Seq(S) /\ Len(t) = Len(s) - 0 /\ \A n \in 1 .. Len(s) - 0 : t[n] = s[0 + n]
    BY <1>1, <2>1, SliceFacts
  <2> HIDE DEF t
  <2>3. \A n \in 1 .. Len(s) : t[n] = s[n]
    <3> TAKE n \in 1 .. Len(s)
    <3>1. n \in 1 .. Len(s) - 0 /\ 0 + n = n
      BY <1>1
    <3> QED BY <3>1, <2>2
  <2>4. t = s
    BY <2>1, <2>2, <2>3, SeqEqual
  <2> QED BY <2>4 DEF t
<1>3. ASSUME NEW i \in 0 .. Len(s) PROVE Slice(s, i, i) = <<>>
  <2> DEFINE t == Slice(s, i, i)
  <2>1. i \in Nat /\ i <= i /\ i <= Len(s) /\ i - i = 0
    BY <1>1
  <2>2. t \in Seq(S) /\ Len(t) = i - i
    BY <2>1, SliceFacts
  <2> HIDE DEF t
  <2>3. t = <<>>
    BY <2>1, <2>2, EmptySeq
  <2> QED BY <2>3 DEF t
<1> QED BY <1>2, <1>3

LEMMA PrefixFacts ==
  ASSUME NEW S, NEW s \in Seq(S), NEW j \in Nat, j >= 1, j <= Len(s)
  PROVE  /\ Slice(s, 0, j) \in Seq(S) /\ Len(Slice(s, 0, j)) = j
         /\ Slice(s, 0, j)[1] = s[1]
<1> DEFINE t == Slice(s, 0, j)
<1>1. 0 \in Nat /\ 0 <= j /\ j - 0 = j /\ 0 + 1 = 1 /\ 1 \in 1 .. j
  OBVIOUS
<1>2. t \in Seq(S) /\ Len(t) = j - 0 /\ \A n \in 1 .. j - 0 : t[n] = s[0 + n]
  BY <1>1, SliceFacts
<1> HIDE DEF t
<1>3. t[1] = s[0 + 1]
  BY <1>1, <1>2
<1> QED BY <1>1, <1>2, <1>3 DEF t

(* Cells that move from one place to the one before it leave each holding  *)
(* its part of the message.                                                *)
LEMMA Cut ==
  ASSUME NEW S, NEW m \in Seq(S),
         NEW j \in Nat, NEW k \in Nat, NEW x \in Nat, j + x <= k, k <= Len(m)
  PROVE  /\ First(Slice(m, j, k), x) = Slice(m, j, j + x)
         /\ Rest(Slice(m, j, k), x) = Slice(m, j + x, k)
<1> DEFINE l == j + x
           t == Slice(m, j, k)
           left == Slice(m, l, k)
           part == Slice(m, j, l)
<1>1. /\ Len(m) \in Nat /\ l \in Nat /\ j <= l /\ l <= k /\ x <= k - j /\ x = l - j
      /\ l <= Len(m) /\ j <= k /\ j <= Len(m)
  BY LenProperties
<1> HIDE DEF l
<1>3. t \in Seq(S) /\ Len(t) = k - j /\ \A n \in 1 .. k - j : t[n] = m[j + n]
  BY <1>1, SliceFacts
<1>5. left \in Seq(S) /\ Len(left) = k - l /\ \A n \in 1 .. k - l : left[n] = m[l + n]
  BY <1>1, SliceFacts
<1>6. part \in Seq(S) /\ Len(part) = x /\ \A n \in 1 .. x : part[n] = m[j + n]
  <2>1. part \in Seq(S) /\ Len(part) = l - j /\ \A n \in 1 .. l - j : part[n] = m[j + n]
    BY <1>1, SliceFacts
  <2> QED BY <2>1, <1>1
<1> HIDE DEF t, left, part
<1> DEFINE f == First(t, x)
           r == Rest(t, x)
<1>7. /\ f \in Seq(S) /\ Len(f) = x /\ \A n \in 1 .. x : f[n] = t[n]
      /\ r \in Seq(S) /\ Len(r) = Len(t) - x /\ \A n \in 1 .. Len(t) - x : r[n] = t[x + n]
  <2>1. x <= Len(t)
    BY <1>1, <1>3
  <2> QED BY <2>1, <1>1, <1>3, CutFacts
<1> HIDE DEF f, r
<1>8. f = part
  <2>1. \A n \in 1 .. x : f[n] = part[n]
    <3> TAKE n \in 1 .. x
    <3>1. n \in 1 .. k - j
      BY <1>1
    <3> QED BY <3>1, <1>3, <1>6, <1>7
  <2> QED BY <2>1, <1>6, <1>7, SeqEqual
<1>9. r = left
  <2>1. \A n \in 1 .. Len(left) : r[n] = left[n]
    <3> TAKE n \in 1 .. Len(left)
    <3>1. n \in 1 .. k - l /\ n \in 1 .. Len(t) - x /\ x + n \in 1 .. k - j
      BY <1>1, <1>3, <1>5
    <3>2. r[n] = t[x + n] /\ t[x + n] = m[j + (x + n)] /\ left[n] = m[l + n]
      BY <3>1, <1>3, <1>5, <1>7
    <3>3. j + (x + n) = l + n
      BY <3>1, <1>1
    <3> QED BY <3>2, <3>3
  <2>2. Len(r) = Len(left)
    BY <1>1, <1>3, <1>5, <1>7
  <2> QED BY <2>1, <2>2, <1>5, <1>7, SeqEqual
<1> QED BY <1>8, <1>9 DEF f, r, l, t, left, part

LEMMA Move ==
  ASSUME NEW S, NEW m \in Seq(S),
         NEW i \in Nat, NEW j \in Nat, NEW k \in Nat, NEW x \in Nat,
         i <= j, j + x <= k, k <= Len(m)
  PROVE  Joined(Slice(m, i, j), Slice(m, j, k), x) = Slice(m, i, j + x)
<1> DEFINE l == j + x
           s == Slice(m, i, j)
           f == Slice(m, j, l)
           moved == Slice(m, i, l)
<1>1. /\ Len(m) \in Nat /\ l \in Nat /\ j <= l /\ x = l - j /\ i <= l
      /\ l <= Len(m) /\ j <= Len(m)
  BY LenProperties
<1>2. First(Slice(m, j, k), x) = f
  BY Cut
<1> HIDE DEF l
<1>3. ASSUME NEW a \in Nat, NEW b \in Nat, a <= b, b <= Len(m)
      PROVE  /\ Slice(m, a, b) \in Seq(S) /\ Len(Slice(m, a, b)) = b - a
             /\ \A n \in 1 .. b - a : Slice(m, a, b)[n] = m[a + n]
  BY <1>3, SliceFacts, Zenon
<1>4. s \in Seq(S) /\ Len(s) = j - i /\ \A n \in 1 .. j - i : s[n] = m[i + n]
  BY <1>1, <1>3, Zenon
<1>5. moved \in Seq(S) /\ Len(moved) = l - i /\ \A n \in 1 .. l - i : moved[n] = m[i + n]
  BY <1>1, <1>3, Zenon
<1>6. f \in Seq(S) /\ Len(f) = x /\ \A n \in 1 .. x : f[n] = m[j + n]
  <2>1. f \in Seq(S) /\ Len(f) = l - j /\ \A n \in 1 .. l - j : f[n] = m[j + n]
    BY <1>1, <1>3, Zenon
  <2> QED BY <2>1, <1>1
<1> HIDE DEF s, moved, f
<1>7. s \o f = moved
  <2> DEFINE c == s \o f
  <2>1. /\ c \in Seq(S) /\ Len(c) = Len(s) + Len(f)
        /\ \A n \in 1 .. Len(s) + Len(f) :
             c[n] = IF n <= Len(s) THEN s[n] ELSE f[n - Len(s)]
    BY <1>4, <1>6, ConcatProperties
  <2> HIDE DEF c
  <2>2. \A n \in 1 .. Len(moved) : c[n] = moved[n]
    <3> TAKE n \in 1 .. Len(moved)
    <3>1. n \in 1 .. l - i /\ n \in Nat /\ 1 <= n /\ n <= l - i /\ moved[n] = m[i + n]
      BY <1>1, <1>5
    <3>2. CASE n <= j - i
      <4>1. n \in 1 .. j - i /\ n \in 1 .. Len(s) + Len(f)
        BY <3>1, <3>2, <1>1, <1>4, <1>6
      <4>2. c[n] = s[n] /\ s[n] = m[i + n]
        BY <4>1, <3>2, <1>4, <2>1
      <4> QED BY <3>1, <4>2
    <3>3. CASE ~(n <= j - i)
      <4>1. /\ n \in 1 .. Len(s) + Len(f) /\ ~(n <= Len(s))
            /\ n - Len(s) = n - (j - i) /\ n - (j - i) \in 1 .. x /\ j + (n - (j - i)) = i + n
        BY <3>1, <3>3, <1>1, <1>4, <1>6
      <4>2. c[n] = f[n - (j - i)]
        BY <4>1, <2>1
      <4>3. f[n - (j - i)] = m[j + (n - (j - i))]
        BY <4>1, <1>6
      <4> QED BY <3>1, <4>1, <4>2, <4>3
    <3> QED BY <3>2, <3>3
  <2>3. Len(c) = Len(moved)
    <3>1. /\ Len(c) = Len(s) + Len(f) /\ Len(s) = j - i /\ Len(f) = l - j /\ Len(moved) = l - i
      BY <2>1, <1>1, <1>4, <1>5, <1>6, Zenon
    <3>2. (j - i) + (l - j) = l - i
      BY <1>1
    <3> QED BY <3>1, <3>2, Zenon
  <2>4. c = moved
    BY <2>1, <2>2, <2>3, <1>5, SeqEqual
  <2> QED BY <2>4 DEF c
<1> QED BY <1>2, <1>7 DEF s, f, moved, l, Joined

(* Messages are sequences of cells that say how long they are. *)
LEMMA MessageFacts ==
  ASSUME NEW n \in 1 .. MaxExchanges, NEW len \in RequestSizes \cup ReplySizes
  PROVE  /\ Message(n, len) \in Seq(Cells) /\ Len(Message(n, len)) = len
         /\ len \in Nat \ {0}
         /\ Message(n, len)[1].length = len
<1>1. len \in Nat /\ len >= 1 /\ HEADER >= 1 /\ HEADER \in Nat
  BY LengthsAssumption
<1>2. n \in 0 .. MaxExchanges
  BY BuffersAssumption
<1>3. ASSUME NEW i \in 1 .. len
      PROVE  [of |-> n, at |-> i, length |-> IF i <= HEADER THEN len ELSE 0] \in Cells
  BY <1>1, <1>2 DEF Cells
<1>4. Message(n, len) \in [1 .. len -> Cells]
  BY <1>3 DEF Message
<1>5. Message(n, len) \in Seq(Cells) /\ Len(Message(n, len)) = len
  BY <1>1, <1>4
<1>6. Message(n, len)[1].length = len
  BY <1>1 DEF Message
<1> QED BY <1>1, <1>5, <1>6

LEMMA RequestFacts ==
  ASSUME IInv, hostPc = "reading"
  PROVE  /\ R \in Seq(Cells) /\ Len(R) \in RequestSizes /\ R[1].length = Len(R)
         /\ Len(R) \in HEADER .. MAXBUF /\ Len(R) \in Nat \ {0}
         /\ reply \in Seq(Cells) /\ Len(reply) \in Nat \ {0}
         /\ Len(buffer) = Len(reply)
<1>1. Len(asked) \in 1 .. MaxExchanges
  <2>1. Len(asked) \in Nat /\ asked # <<>> /\ Len(asked) <= MaxExchanges
    BY LenProperties DEF IInv, MessageInv
  <2>2. Len(asked) # 0
    BY <2>1, EmptySeq DEF IInv, MessageInv
  <2> QED BY <2>1, <2>2, BuffersAssumption
<1>2. PICK len \in RequestSizes : R = Message(Len(asked), len)
  BY DEF IInv, MessageInv, Request
<1>3. PICK rl \in ReplySizes : reply = Message(Len(asked), rl)
  BY DEF IInv, MessageInv, Reply
<1>4. len \in HEADER .. MAXBUF
  BY LengthsAssumption
<1>5. /\ R \in Seq(Cells) /\ Len(R) = len /\ len \in Nat \ {0} /\ R[1].length = len
  BY <1>1, <1>2, MessageFacts
<1>6. /\ reply \in Seq(Cells) /\ Len(reply) = rl /\ rl \in Nat \ {0}
  BY <1>1, <1>3, MessageFacts
<1>7. Len(buffer) = Len(reply)
  BY DEF IInv, MessageInv
<1> QED BY <1>4, <1>5, <1>6, <1>7, Zenon

-----------------------------------------------------------------------------
(* Three places that hold the parts of a message. *)

LEMMA PathLengths ==
  ASSUME NEW S, NEW m \in Seq(S), NEW s \in Seq(S), NEW t \in Seq(S), NEW u \in Seq(S),
         NEW i \in Nat, Path(m, i, s, t, u)
  PROVE  /\ Len(m) \in Nat /\ Len(s) \in Nat /\ Len(t) \in Nat /\ Len(u) \in Nat
         /\ i + Len(s) + Len(t) + Len(u) = Len(m)
         /\ s = Slice(m, i, i + Len(s))
<1> DEFINE c == i + Len(s) + Len(t)
<1>1. Len(m) \in Nat /\ Len(s) \in Nat /\ Len(t) \in Nat /\ Len(u) \in Nat
  BY LenProperties
<1>2. u = Slice(m, c, Len(m)) /\ s = Slice(m, i, i + Len(s))
  BY DEF Path
<1>3. c \in Nat /\ c <= Len(m) /\ Len(m) <= Len(m)
  BY <1>1 DEF Path
<1> HIDE DEF c
<1>4. Len(u) = Len(m) - c
  <2>1. Len(Slice(m, c, Len(m))) = Len(m) - c
    BY <1>1, <1>3, SliceFacts
  <2> QED BY <2>1, <1>2
<1> QED BY <1>1, <1>2, <1>3, <1>4 DEF c

LEMMA PathStart ==
  ASSUME NEW S, NEW m \in Seq(S)
  PROVE  Path(m, 0, <<>>, <<>>, m)
<1>1. 0 \in 0 .. Len(m) /\ 0 + 0 = 0 /\ 0 <= Len(m) /\ Len(<<>>) = 0
  BY LenProperties, EmptySeq
<1>2. Slice(m, 0, 0) = <<>> /\ Slice(m, 0, Len(m)) = m
  BY <1>1, WholeSlice
<1> QED BY <1>1, <1>2 DEF Path

LEMMA PathFlush ==
  ASSUME NEW S, NEW m \in Seq(S), NEW s \in Seq(S), NEW t \in Seq(S), NEW u \in Seq(S),
         NEW i \in Nat, Path(m, i, s, t, u), NEW x \in Nat, x <= Len(t)
  PROVE  Path(m, i, s \o First(t, x), Rest(t, x), u)
<1> DEFINE b == i + Len(s)
           c == b + Len(t)
<1>1. /\ Len(m) \in Nat /\ Len(s) \in Nat /\ Len(t) \in Nat
      /\ b \in Nat /\ c \in Nat /\ i <= b /\ b + x <= c
  BY LenProperties
<1>2. s = Slice(m, i, b) /\ t = Slice(m, b, c) /\ u = Slice(m, c, Len(m))
  BY DEF Path
<1>7. c <= Len(m)
  BY DEF Path
<1>3. /\ s \o First(t, x) \in Seq(S) /\ Len(s \o First(t, x)) = Len(s) + x
      /\ Rest(t, x) \in Seq(S) /\ Len(Rest(t, x)) = Len(t) - x
  BY MoveType
<1>4. i + Len(s \o First(t, x)) = b + x /\ b + x + Len(Rest(t, x)) = c
  BY <1>1, <1>3
<1> HIDE DEF b, c
<1>5. s \o First(t, x) = Slice(m, i, b + x)
  <2>1. Joined(s, t, x) = Slice(m, i, b + x)
    BY <1>1, <1>2, <1>7, Move
  <2> QED BY <2>1 DEF Joined
<1>6. Rest(t, x) = Slice(m, b + x, c)
  BY <1>1, <1>2, <1>7, Cut
<1> QED BY <1>2, <1>4, <1>5, <1>6, <1>7 DEF Path

LEMMA PathRead ==
  ASSUME NEW S, NEW m \in Seq(S), NEW s \in Seq(S), NEW t \in Seq(S), NEW u \in Seq(S),
         NEW i \in Nat, Path(m, i, s, t, u), NEW x \in Nat, x <= Len(u)
  PROVE  Path(m, i, s, t \o First(u, x), Rest(u, x))
<1> DEFINE b == i + Len(s)
           c == b + Len(t)
<1>1. /\ Len(m) \in Nat /\ Len(s) \in Nat /\ Len(t) \in Nat /\ Len(u) = Len(m) - c
      /\ b \in Nat /\ c \in Nat /\ b <= c /\ c + x <= Len(m) /\ Len(m) <= Len(m)
  BY PathLengths
<1>2. s = Slice(m, i, b) /\ t = Slice(m, b, c) /\ u = Slice(m, c, Len(m))
  BY DEF Path
<1>3. Len(t \o First(u, x)) = Len(t) + x
  BY MoveType
<1>4. b + Len(t \o First(u, x)) = c + x
  BY <1>1, <1>3
<1> HIDE DEF b, c
<1>5. t \o First(u, x) = Slice(m, b, c + x)
  <2>1. Joined(t, u, x) = Slice(m, b, c + x)
    BY <1>1, <1>2, Move
  <2> QED BY <2>1 DEF Joined
<1>6. Rest(u, x) = Slice(m, c + x, Len(m))
  BY <1>1, <1>2, Cut
<1> QED BY <1>1, <1>2, <1>4, <1>5, <1>6 DEF Path, b

LEMMA PathTake ==
  ASSUME NEW S, NEW m \in Seq(S), NEW s \in Seq(S), NEW t \in Seq(S), NEW u \in Seq(S),
         NEW i \in Nat, Path(m, i, s, t, u), NEW x \in Nat, x <= Len(s)
  PROVE  Path(m, i + x, Rest(s, x), t, u)
<1> DEFINE b == i + Len(s)
           c == b + Len(t)
<1>1. /\ Len(m) \in Nat /\ Len(s) \in Nat /\ Len(t) \in Nat /\ c <= Len(m)
      /\ b \in Nat /\ c \in Nat /\ b <= c /\ i + x <= b /\ b <= Len(m)
  BY PathLengths
<1>2. s = Slice(m, i, b) /\ t = Slice(m, b, c) /\ u = Slice(m, c, Len(m))
  BY DEF Path
<1>3. Len(Rest(s, x)) = Len(s) - x
  BY CutFacts
<1>4. i + x + Len(Rest(s, x)) = b
  BY <1>1, <1>3
<1> HIDE DEF b, c
<1>5. Rest(s, x) = Slice(m, i + x, b)
  BY <1>1, <1>2, Cut
<1> QED BY <1>1, <1>2, <1>4, <1>5 DEF Path, c

LEMMA PathEnd ==
  ASSUME NEW S, NEW m \in Seq(S), NEW s \in Seq(S), NEW t \in Seq(S), NEW u \in Seq(S),
         NEW i \in Nat, Path(m, i, s, t, u), i >= Len(m)
  PROVE  s = <<>> /\ t = <<>> /\ u = <<>>
<1>1. Len(s) = 0 /\ Len(t) = 0 /\ Len(u) = 0
  BY PathLengths
<1> QED BY <1>1, EmptySeq

-----------------------------------------------------------------------------
(* What the guards let through. *)

LEMMA TakenBounds ==
  ASSUME NEW S, NEW b \in Seq(S), NEW s \in Seq(S), Len(s) <= Room
  PROVE  /\ Taken(b, s) \in Nat /\ Taken(b, s) <= Len(b) /\ Len(s) + Taken(b, s) <= Room
         /\ b = <<>> => Taken(b, s) = 0
<1>1. Len(b) \in Nat /\ Len(s) \in Nat /\ Room \in Nat /\ (b = <<>> => Len(b) = 0)
  BY LenProperties, EmptySeq, BuffersAssumption
<1> QED BY <1>1 DEF Taken, Least

LEMMA CountsBounds ==
  ASSUME NEW S, NEW s \in Seq(S), NEW n \in Nat, NEW x \in Counts(s, n)
  PROVE  /\ x \in Nat /\ x <= Len(s) /\ x <= n
         /\ s = <<>> => x = 0
<1>1. Len(s) \in Nat
  BY LenProperties
<1> QED BY <1>1 DEF Counts, Least

(* What Select moves. *)
LEMMA SelectMoves ==
  ASSUME TypeOK, Select
  PROVE  \E x, y \in Nat :
           /\ x <= Len(toProxy) /\ Len(cbuf) + x <= BUF_SIZE /\ (toProxy = <<>> => x = 0)
           /\ y <= Len(fromDevice) /\ Len(sbuf) + y <= BUF_SIZE /\ (fromDevice = <<>> => y = 0)
           /\ Relay(x, y)
           /\ UNCHANGED <<hostVars, devVars, toDevice, fromProxy, history>>
<1> DEFINE cn == BUF_SIZE - Len(cbuf)
           sn == BUF_SIZE - Len(sbuf)
<1>1. /\ cn \in Nat /\ Len(cbuf) \in Nat /\ Len(toProxy) \in Nat
      /\ sn \in Nat /\ Len(sbuf) \in Nat /\ Len(fromDevice) \in Nat
      /\ toProxy \in Seq(Cells) /\ fromDevice \in Seq(Cells) /\ BUF_SIZE \in Nat
  BY LenProperties, BuffersAssumption DEF TypeOK
<1>2. PICK x \in IF ClientReady THEN Counts(toProxy, cn) ELSE {0},
            y \in IF ServerReady THEN Counts(fromDevice, sn) ELSE {0} : Relay(x, y)
  BY DEF Select
<1> HIDE DEF cn, sn
<1>3. x \in Nat /\ x <= Len(toProxy) /\ x <= cn /\ (toProxy = <<>> => x = 0)
  <2>1. CASE x \in Counts(toProxy, cn)
    BY <2>1, <1>1, CountsBounds
  <2>2. CASE x = 0
    BY <2>2, <1>1
  <2> QED BY <2>1, <2>2, <1>2
<1>4. y \in Nat /\ y <= Len(fromDevice) /\ y <= sn /\ (fromDevice = <<>> => y = 0)
  <2>1. CASE y \in Counts(fromDevice, sn)
    BY <2>1, <1>1, CountsBounds
  <2>2. CASE y = 0
    BY <2>2, <1>1
  <2> QED BY <2>1, <2>2, <1>2
<1>5. Len(cbuf) + x <= BUF_SIZE /\ Len(sbuf) + y <= BUF_SIZE
  BY <1>1, <1>3, <1>4 DEF cn, sn
<1> QED BY <1>2, <1>3, <1>4, <1>5 DEF Select

(* The relay reads 0 cells only from a socket that is closed. *)
LEMMA ClosedSocket ==
  ASSUME TypeOK, CloseInv, CloseBoth
  PROVE  hostPc = "closed"
<1>1. Len(cbuf) \in Nat /\ Len(sbuf) \in Nat /\ BUF_SIZE \in Nat
  BY LenProperties, BuffersAssumption DEF TypeOK
<1>2. CASE ClientReady /\ 0 \in Counts(toProxy, BUF_SIZE - Len(cbuf))
  <2>1. BUF_SIZE - Len(cbuf) # 0
    BY <1>1, <1>2 DEF ClientReady, HasSpace
  <2>2. toProxy = <<>>
    BY <2>1, <1>2 DEF Counts
  <2> QED BY <2>2, <1>2 DEF ClientReady
<1>3. CASE ServerReady /\ 0 \in Counts(fromDevice, BUF_SIZE - Len(sbuf))
  <2>1. BUF_SIZE - Len(sbuf) # 0
    BY <1>1, <1>3 DEF ServerReady, HasSpace
  <2>2. fromDevice = <<>>
    BY <2>1, <1>3 DEF Counts
  <2> QED BY <2>2, <1>3 DEF ServerReady, CloseInv
<1> QED BY <1>2, <1>3 DEF CloseBoth

-----------------------------------------------------------------------------
(* Types. *)

LEMMA TypeStep == IInv /\ [Next]_vars => TypeOK'
<1> SUFFICES ASSUME IInv, [Next]_vars PROVE TypeOK'
  OBVIOUS
<1> USE DEF hostVars, proxyVars, devVars, sockets, history
<1>0. TypeOK
  BY DEF IInv
<1>1. /\ cbuf \in Seq(Cells) /\ sbuf \in Seq(Cells) /\ buf \in Seq(Cells)
      /\ toDevice \in Seq(Cells) /\ fromProxy \in Seq(Cells)
      /\ toProxy \in Seq(Cells) /\ fromDevice \in Seq(Cells)
      /\ Len(toDevice) <= Room /\ Len(fromProxy) <= Room /\ Len(buf) <= MAXBUF
      /\ Len(toDevice) \in Nat /\ Len(fromProxy) \in Nat /\ Len(buf) \in Nat
  BY <1>0, LenProperties DEF TypeOK
<1>2. ASSUME NEW len \in RequestSizes, NEW replyLen \in ReplySizes, DevWrite(len, replyLen)
      PROVE  TypeOK'
  <2> DEFINE n == Len(asked) + 1
  <2>1. n \in 1 .. MaxExchanges
    <3>1. Len(asked) \in Nat
      BY LenProperties DEF IInv, MessageInv
    <3> QED BY <3>1, <1>2, BuffersAssumption DEF DevWrite
  <2>2. Message(n, len) \in Seq(Cells)
    BY <2>1, MessageFacts
  <2>3. toProxy' \in Seq(Cells)
    BY <2>2, <1>1, <1>2, ConcatProperties DEF DevWrite
  <2> QED BY <2>3, <1>0, <1>2 DEF DevWrite, TypeOK
<1>3. CASE DevDisconnect
  BY <1>0, <1>3 DEF DevDisconnect, TypeOK
<1>4. ASSUME NEW x \in 1 .. Room, DevRead(x) PROVE TypeOK'
  <2>1. x \in Nat /\ x <= Len(fromProxy)
    <3>1. Len(buffer) \in Nat
      <4>1. hostPc = "reading"
        BY <1>4 DEF DevRead
      <4> QED BY <4>1, RequestFacts
    <3>2. x <= Least(Len(fromProxy), Len(buffer))
      BY <1>4 DEF DevRead
    <3> QED BY <3>1, <3>2, <1>1, BuffersAssumption DEF Least
  <2>2. fromProxy' \in Seq(Cells) /\ Len(fromProxy') <= Room
    <3>1. fromProxy' = Rest(fromProxy, x)
      BY <1>4 DEF DevRead
    <3>2. fromProxy' \in Seq(Cells) /\ Len(fromProxy') = Len(fromProxy) - x
      BY <3>1, <2>1, <1>1, CutFacts
    <3> QED BY <3>2, <2>1, <1>1, BuffersAssumption
  <2>3. /\ total' \in Nat /\ answered' \in Nat /\ split' \in BOOLEAN
        /\ hostPc' \in {"idle", "reading", "closed"}
    <3>1. /\ total \in Nat /\ answered \in Nat /\ split \in BOOLEAN
          /\ hostPc \in {"idle", "reading", "closed"}
      BY <1>0 DEF TypeOK
    <3>2. CASE total + x < Len(buffer)
      <4>1. total' = total + x /\ split' = TRUE /\ hostPc' = hostPc /\ answered' = answered
        BY <3>2, <1>4 DEF DevRead
      <4> QED BY <4>1, <3>1, <2>1
    <3>3. CASE ~(total + x < Len(buffer))
      <4>1. /\ total' = total + x /\ split' = split
            /\ hostPc' = "idle" /\ answered' = answered + 1
        BY <3>3, <1>4 DEF DevRead
      <4> QED BY <4>1, <3>1, <2>1
    <3> QED BY <3>2, <3>3
  <2> QED BY <2>2, <2>3, <1>0, <1>4 DEF DevRead, TypeOK
<1>5. CASE FlushToServer
  <2> DEFINE x == Taken(cbuf, toDevice)
  <2>1. x \in Nat /\ x <= Len(cbuf) /\ Len(toDevice) + x <= Room
    BY <1>1, TakenBounds
  <2> HIDE DEF x
  <2>2. /\ toDevice \o First(cbuf, x) \in Seq(Cells)
        /\ Len(toDevice \o First(cbuf, x)) = Len(toDevice) + x
        /\ Rest(cbuf, x) \in Seq(Cells) /\ Len(Rest(cbuf, x)) = Len(cbuf) - x
    BY <2>1, <1>1, MoveType
  <2>3. toDevice' = toDevice \o First(cbuf, x) /\ cbuf' = Rest(cbuf, x)
    BY <1>5 DEF FlushToServer, Unwritten, x
  <2>4. Len(cbuf') <= BUF_SIZE
    BY <2>1, <2>2, <2>3, <1>0, <1>1, LenProperties, BuffersAssumption DEF TypeOK
  <2> QED BY <2>1, <2>2, <2>3, <2>4, <1>0, <1>5 DEF FlushToServer, TypeOK
<1>6. CASE FlushToClient
  <2> DEFINE x == Taken(sbuf, fromProxy)
  <2>1. x \in Nat /\ x <= Len(sbuf) /\ Len(fromProxy) + x <= Room
    BY <1>1, TakenBounds
  <2> HIDE DEF x
  <2>2. /\ fromProxy \o First(sbuf, x) \in Seq(Cells)
        /\ Len(fromProxy \o First(sbuf, x)) = Len(fromProxy) + x
        /\ Rest(sbuf, x) \in Seq(Cells) /\ Len(Rest(sbuf, x)) = Len(sbuf) - x
    BY <2>1, <1>1, MoveType
  <2>3. fromProxy' = fromProxy \o First(sbuf, x) /\ sbuf' = Rest(sbuf, x)
    BY <1>6 DEF FlushToClient, Unwritten, x
  <2>4. Len(sbuf') <= BUF_SIZE
    BY <2>1, <2>2, <2>3, <1>0, <1>1, LenProperties, BuffersAssumption DEF TypeOK
  <2> QED BY <2>1, <2>2, <2>3, <2>4, <1>0, <1>6 DEF FlushToClient, TypeOK
<1>7. CASE Select
  <2>1. PICK x \in Nat, y \in Nat :
           /\ x <= Len(toProxy) /\ Len(cbuf) + x <= BUF_SIZE
           /\ y <= Len(fromDevice) /\ Len(sbuf) + y <= BUF_SIZE
           /\ Relay(x, y)
           /\ UNCHANGED <<hostVars, devVars, toDevice, fromProxy, history>>
    BY <1>0, <1>7, SelectMoves
  <2>2. /\ cbuf' \in Seq(Cells) /\ Len(cbuf') = Len(cbuf) + x /\ toProxy' \in Seq(Cells)
    BY <2>1, <1>1, MoveType DEF Relay
  <2>3. /\ sbuf' \in Seq(Cells) /\ Len(sbuf') = Len(sbuf) + y /\ fromDevice' \in Seq(Cells)
    BY <2>1, <1>1, MoveType DEF Relay
  <2> QED BY <2>1, <2>2, <2>3, <1>0 DEF Relay, TypeOK
<1>8. CASE CloseBoth
  BY <1>0, <1>8 DEF CloseBoth, TypeOK
<1>9. ASSUME NEW x \in 1 .. Room, Recv(x) PROVE TypeOK'
  <2> DEFINE b == buf \o First(toDevice, x)
  <2>1. x \in Nat /\ x <= Len(toDevice) /\ Len(buf) + x <= MAXBUF
    BY <1>1, <1>9, LengthsAssumption, BuffersAssumption DEF Recv, Least
  <2>2. /\ b \in Seq(Cells) /\ Len(b) = Len(buf) + x
        /\ toDevice' \in Seq(Cells) /\ Len(toDevice') = Len(toDevice) - x
    <3>1. b \in Seq(Cells) /\ Len(b) = Len(buf) + x
      BY <2>1, <1>1, MoveType
    <3>2. toDevice' = Rest(toDevice, x)
      BY <1>9 DEF Recv
    <3>3. toDevice' \in Seq(Cells) /\ Len(toDevice') = Len(toDevice) - x
      BY <3>2, <2>1, <1>1, CutFacts
    <3> QED BY <3>1, <3>3
  <2>3. buf' \in Seq(Cells) /\ Len(buf') <= MAXBUF
    <3>1. CASE Complete(b)
      <4>1. buf' = Rest(b, b[1].length) /\ b[1].length <= Len(b)
        BY <3>1, <1>9 DEF Recv, Complete, Consumed
      <4>2. b[1].length \in Nat
        <5>1. Len(b) >= HEADER /\ HEADER >= 1 /\ Len(b) \in Nat /\ HEADER \in Nat
          BY <3>1, <2>2, LenProperties, LengthsAssumption DEF Complete
        <5> HIDE DEF b
        <5>2. b[1] \in Cells
          BY <5>1, <2>2, ElementOfSeq
        <5>3. b[1].length \in {0} \cup RequestSizes \cup ReplySizes
          BY <5>2 DEF Cells
        <5>4. {0} \cup RequestSizes \cup ReplySizes \subseteq Nat
          BY LengthsAssumption
        <5> QED BY <5>3, <5>4
      <4> HIDE DEF b
      <4>3. buf' \in Seq(Cells) /\ Len(buf') = Len(b) - b[1].length
        BY <4>1, <4>2, <2>2, CutFacts
      <4>4. Len(b) = Len(buf) + x /\ Len(buf) + x <= MAXBUF /\ Len(buf) + x \in Nat
        BY <2>1, <2>2, <1>1
      <4>5. \A p, q, r \in Nat : q <= r => q - p <= r
        OBVIOUS
      <4>6. MAXBUF \in Nat
        BY LengthsAssumption
      <4>7. Len(b) - b[1].length <= MAXBUF
        BY <4>2, <4>4, <4>5, <4>6, Zenon
      <4> QED BY <4>3, <4>7, Zenon
    <3>2. CASE ~Complete(b)
      BY <3>2, <2>1, <2>2, <1>9 DEF Recv
    <3> QED BY <3>1, <3>2
  <2>4. devPc' \in {"recv", "answer", "gone"}
    BY <1>0, <1>9 DEF Recv, TypeOK
  <2> QED BY <2>1, <2>2, <2>3, <2>4, <1>0, <1>1, <1>9, BuffersAssumption DEF Recv, TypeOK
<1>10. CASE SendReply
  <2>1. hostPc = "reading"
    BY <1>10 DEF SendReply, IInv, PhaseInv, AtRest, Asking, Handling, Answering
  <2>2. fromDevice' \in Seq(Cells)
    BY <2>1, <1>1, <1>10, RequestFacts, ConcatProperties DEF SendReply
  <2> QED BY <2>2, <1>0, <1>10 DEF SendReply, TypeOK
<1>11. CASE RecvEnd
  BY <1>0, <1>11 DEF RecvEnd, TypeOK
<1>12. CASE UNCHANGED vars
  BY <1>0, <1>12 DEF vars, TypeOK
<1> QED
  BY <1>2, <1>3, <1>4, <1>5, <1>6, <1>7, <1>8, <1>9, <1>10, <1>11, <1>12
  DEF Next, HostStep, ProxyStep, DeviceStep

-----------------------------------------------------------------------------
(* Phases, one lemma per action. *)

Inv == MessageInv /\ PhaseInv /\ CloseInv

(* What every phase says of the sequences. *)
LEMMA Sequences ==
  ASSUME IInv
  PROVE  /\ cbuf \in Seq(Cells) /\ sbuf \in Seq(Cells) /\ buf \in Seq(Cells)
         /\ toDevice \in Seq(Cells) /\ fromProxy \in Seq(Cells)
         /\ toProxy \in Seq(Cells) /\ fromDevice \in Seq(Cells)
         /\ Len(cbuf) \in Nat /\ Len(sbuf) \in Nat /\ Len(buf) \in Nat
         /\ Len(toDevice) \in Nat /\ Len(fromProxy) \in Nat
         /\ Len(toProxy) \in Nat /\ Len(fromDevice) \in Nat
         /\ Len(toDevice) <= Room /\ Len(fromProxy) <= Room
         /\ total \in Nat /\ Len(asked) \in Nat
<1>1. Len(asked) \in Nat
  BY LenProperties DEF IInv, MessageInv
<1> QED BY <1>1, LenProperties DEF IInv, TypeOK

(* A step that leaves the messages and both ends as they are. *)
LEMMA MessagesKept ==
  ASSUME IInv, UNCHANGED <<hostPc, buffer, asked, handled, answered, reply>>
  PROVE  MessageInv' /\ R' = R
BY DEF IInv, MessageInv, R

LEMMA WriteStep ==
  ASSUME IInv, NEW len \in RequestSizes, NEW replyLen \in ReplySizes, DevWrite(len, replyLen)
  PROVE  Inv'
<1> DEFINE n == Len(asked) + 1
           m == Message(n, len)
<1> USE DEF hostVars, proxyVars, devVars
<1>1. AtRest /\ hostPc = "idle" /\ hostPc' = "reading"
  BY DEF DevWrite, IInv, PhaseInv, AtRest, Asking, Handling, Answering
<1>2. n \in 1 .. MaxExchanges /\ Len(asked) \in Nat
  BY Sequences, BuffersAssumption DEF DevWrite
<1>3. m \in Seq(Cells) /\ Len(m) = len /\ len \in Nat \ {0}
  BY <1>2, MessageFacts
<1>4. Message(n, replyLen) \in Seq(Cells) /\ Len(Message(n, replyLen)) = replyLen
      /\ replyLen \in Nat \ {0}
  BY <1>2, MessageFacts
<1>5. m \in Request(n) /\ Message(n, replyLen) \in Reply(n)
  BY DEF Request, Reply
<1> HIDE DEF m
<1>6. asked' = Append(asked, m) /\ reply' = Message(n, replyLen)
  BY DEF DevWrite, m
<1>7. /\ asked' \in Seq(UNION {Request(k) : k \in 1 .. MaxExchanges})
      /\ Len(asked') = n /\ asked'[n] = m
  <2>1. m \in UNION {Request(k) : k \in 1 .. MaxExchanges}
    BY <1>2, <1>5
  <2> QED BY <2>1, <1>6, AppendProperties DEF IInv, MessageInv
<1>8. R' = m
  BY <1>7 DEF R
<1>9. Len(buffer') = replyLen
  <2>1. buffer' = [i \in 1 .. replyLen |-> [of |-> 0, at |-> i, length |-> 0]]
    BY DEF DevWrite
  <2> QED BY <2>1, <1>4
<1>10. MessageInv'
  <2>1. handled' = handled /\ answered' = answered
    BY DEF DevWrite
  <2>2. asked' # <<>>
    BY <1>2, <1>7, EmptySeq
  <2>3. answered' = Len(asked') - 1
    BY <2>1, <1>1, <1>2, <1>7 DEF AtRest
  <2> QED BY <2>1, <2>2, <2>3, <1>2, <1>4, <1>5, <1>6, <1>7, <1>8, <1>9
          DEF IInv, MessageInv
<1>11. RequestPath'
  <2>1. buf' = <<>> /\ toDevice' = <<>> /\ cbuf' = <<>>
    BY <1>1 DEF DevWrite, AtRest, NoRequest
  <2>2. toProxy' = m
    <3>1. toProxy' = <<>> \o m
      BY <1>1 DEF DevWrite, AtRest, NoRequest, m
    <3> QED BY <3>1, <1>3, ConcatEmptySeq
  <2>3. Slice(m, 0, 0) = <<>>
    <3>1. 0 \in 0 .. Len(m)
      BY <1>3
    <3> QED BY <3>1, <1>3, WholeSlice
  <2>4. Len(<<>>) = 0 /\ 0 < Len(m)
    BY <1>3, EmptySeq
  <2>5. Path(m, 0, <<>>, <<>>, m)
    BY <1>3, PathStart
  <2> QED BY <2>1, <2>2, <2>3, <2>4, <2>5, <1>8 DEF RequestPath
<1>12. Asking'
  <2>1. devPc = "recv"
    BY <1>1 DEF IInv, TypeOK, CloseInv, AtRest
  <2>2. NoReply' /\ devPc' = "recv" /\ total' = 0 /\ ~split'
    BY <2>1, <1>1 DEF DevWrite, AtRest, NoReply
  <2>3. asked' = Append(handled', R')
    BY <1>1, <1>6, <1>8 DEF DevWrite, AtRest
  <2> QED BY <2>2, <2>3, <1>1, <1>11 DEF Asking
<1>13. CloseInv'
  BY <1>1 DEF DevWrite, IInv, CloseInv
<1> QED BY <1>10, <1>12, <1>13 DEF Inv, PhaseInv

LEMMA DisconnectStep ==
  ASSUME IInv, DevDisconnect
  PROVE  Inv'
<1> USE DEF hostVars, proxyVars, devVars, sockets, history
<1>1. AtRest
  BY DEF DevDisconnect, IInv, PhaseInv, AtRest, Asking, Handling, Answering
<1>2. AtRest'
  BY <1>1 DEF DevDisconnect, AtRest, NoRequest, NoReply
<1>3. MessageInv'
  BY DEF DevDisconnect, IInv, MessageInv
<1>4. CloseInv'
  BY DEF DevDisconnect, CloseInv
<1> QED BY <1>2, <1>3, <1>4 DEF Inv, PhaseInv

LEMMA ReadStep ==
  ASSUME IInv, NEW x \in 1 .. Room, DevRead(x)
  PROVE  /\ Inv'
         /\ answered' = answered \/ (answered < Len(handled) /\ answered' = answered + 1)
<1> USE DEF proxyVars, devVars
<1>1. hostPc = "reading" /\ x \in Nat /\ x >= 1
  BY BuffersAssumption DEF DevRead
<1>2. /\ reply \in Seq(Cells) /\ Len(reply) \in Nat \ {0} /\ Len(buffer) = Len(reply)
  BY <1>1, RequestFacts
<1>3. /\ fromProxy \in Seq(Cells) /\ sbuf \in Seq(Cells) /\ fromDevice \in Seq(Cells)
      /\ Len(fromProxy) \in Nat /\ total \in Nat /\ Len(asked) \in Nat
  BY Sequences
<1>4. x <= Len(fromProxy) /\ x <= Len(buffer)
  <2>1. x <= Least(Len(fromProxy), Len(buffer))
    BY DEF DevRead
  <2> QED BY <2>1, <1>1, <1>2, <1>3 DEF Least
<1>5. Answering
  <2>1. fromProxy # <<>>
    BY <1>1, <1>3, <1>4, EmptySeq
  <2> QED BY <2>1, <1>1 DEF IInv, PhaseInv, AtRest, Asking, Handling, Answering, NoReply
<1>6. Path(reply, total, fromProxy, sbuf, fromDevice)
  BY <1>5 DEF Answering, ReplyPath
<1>7. Path(reply, total + x, Rest(fromProxy, x), sbuf, fromDevice) /\ Rest(fromProxy, x) \in Seq(Cells)
  BY <1>1, <1>2, <1>3, <1>4, <1>6, PathTake, CutFacts
<1>8. /\ total' = total + x /\ buffer' = ReadAt(x) /\ fromProxy' = Rest(fromProxy, x)
      /\ UNCHANGED <<proxyPc, cbuf, sbuf, devPc, buf, toProxy, toDevice, fromDevice, asked, handled, reply>>
  BY DEF DevRead
<1>9. Len(buffer') = Len(buffer)
  BY <1>2, <1>8 DEF ReadAt
<1>10. answered = Len(asked) - 1 /\ handled = asked
  BY <1>1, <1>5 DEF IInv, MessageInv, Answering
<1>11. CloseInv'
  <2>1. proxyPc # "gone" /\ devPc # "gone"
    BY <1>1 DEF IInv, CloseInv
  <2> QED BY <2>1, <1>8 DEF CloseInv
<1>12. CASE total + x < Len(buffer)
  <2>1. split' = TRUE /\ hostPc' = hostPc /\ answered' = answered
    BY <1>12 DEF DevRead
  <2>2. MessageInv'
    BY <2>1, <1>8, <1>9 DEF IInv, MessageInv, R
  <2>3. ReplyPath'
    BY <1>2, <1>7, <1>8, <1>12 DEF ReplyPath
  <2>4. Answering'
    BY <2>1, <2>3, <1>5, <1>8 DEF Answering, NoRequest
  <2> QED BY <2>1, <2>2, <2>4, <1>11 DEF Inv, PhaseInv
<1>13. CASE ~(total + x < Len(buffer))
  <2>1. hostPc' = "idle" /\ answered' = answered + 1 /\ split' = split
    BY <1>13 DEF DevRead
  <2>2. total + x >= Len(reply) /\ total + x \in Nat
    BY <1>1, <1>2, <1>3, <1>13
  <2>3. fromProxy' = <<>> /\ sbuf' = <<>> /\ fromDevice' = <<>>
    BY <2>2, <1>2, <1>3, <1>7, <1>8, PathEnd
  <2>4. ~split => buffer' = reply
    <3> SUFFICES ASSUME ~split PROVE buffer' = reply
      OBVIOUS
    <3>1. total = 0
      BY <1>5 DEF Answering
    <3>2. x = Len(reply) /\ Len(fromProxy) = Len(reply)
      <4>1. total + Len(fromProxy) <= Len(reply)
        BY <1>2, <1>3, <1>6, PathLengths
      <4> QED BY <4>1, <3>1, <2>2, <1>1, <1>2, <1>3, <1>4
    <3>3. fromProxy = Slice(reply, 0, 0 + Len(reply)) /\ 0 + Len(reply) = Len(reply)
      BY <3>1, <3>2, <1>2, <1>3, <1>6, PathLengths
    <3>4. fromProxy = reply
      BY <3>3, <1>2, WholeSlice
    <3>5. buffer' = [i \in 1 .. Len(reply) |-> reply[i]]
      BY <3>2, <3>4, <1>2, <1>8 DEF ReadAt
    <3>6. reply = [i \in 1 .. Len(reply) |-> reply[i]]
      BY <1>2, LenProperties
    <3> QED BY <3>5, <3>6
  <2>5. answered' = Len(asked)
    BY <2>1, <1>3, <1>10
  <2>6. AtRest'
    <3>1. devPc # "answer"
      BY <1>5 DEF Answering
    <3>2. ~split' => buffer' = reply'
      BY <2>1, <2>4, <1>8
    <3>3. NoRequest'
      BY <1>5, <1>8 DEF Answering, NoRequest
    <3> QED BY <3>1, <3>2, <3>3, <2>1, <2>3, <2>5, <1>5, <1>8, <1>10 DEF AtRest, NoReply
  <2>7. MessageInv'
    BY <2>1, <1>8 DEF IInv, MessageInv
  <2> QED BY <2>1, <2>6, <2>7, <1>3, <1>10, <1>11 DEF Inv, PhaseInv
<1> QED BY <1>12, <1>13

(* A step of the relay: x1 and z1 cells of the request, x2 and z2 of the   *)
(* answer.                                                                 *)
LEMMA RelayMoves ==
  ASSUME IInv,
         NEW x1 \in Nat, x1 <= Len(cbuf), NEW z1 \in Nat, z1 <= Len(toProxy),
         NEW x2 \in Nat, x2 <= Len(sbuf), NEW z2 \in Nat, z2 <= Len(fromDevice),
         toDevice' = toDevice \o First(cbuf, x1),
         cbuf' = (Rest(cbuf, x1)) \o First(toProxy, z1),
         toProxy' = Rest(toProxy, z1),
         fromProxy' = fromProxy \o First(sbuf, x2),
         sbuf' = (Rest(sbuf, x2)) \o First(fromDevice, z2),
         fromDevice' = Rest(fromDevice, z2),
         UNCHANGED <<hostVars, devVars, history>>
  PROVE  MessageInv' /\ PhaseInv'
<1> USE DEF hostVars, devVars, history
<1>1. MessageInv'
  BY MessagesKept
<1>2. ASSUME NoRequest PROVE NoRequest'
  <2>1. x1 = 0 /\ z1 = 0
    BY <1>2, EmptySeq DEF NoRequest
  <2>2. toDevice' = toDevice /\ cbuf' = cbuf /\ toProxy' = toProxy
    BY <2>1, Sequences, NothingMoved
  <2> QED BY <2>2, <1>2 DEF NoRequest
<1>3. ASSUME NoReply PROVE NoReply'
  <2>1. x2 = 0 /\ z2 = 0
    BY <1>3, EmptySeq DEF NoReply
  <2>2. fromProxy' = fromProxy /\ sbuf' = sbuf /\ fromDevice' = fromDevice
    BY <2>1, Sequences, NothingMoved
  <2> QED BY <2>2, <1>3 DEF NoReply
<1>4. CASE AtRest
  <2>1. NoRequest' /\ NoReply'
    BY <1>2, <1>3, <1>4 DEF AtRest
  <2> QED BY <2>1, <1>1, <1>4 DEF AtRest, PhaseInv
<1>5. CASE Asking
  <2>1. Path(R, Len(buf), toDevice, cbuf, toProxy) /\ R \in Seq(Cells)
    BY <1>5, RequestFacts DEF Asking, RequestPath
  <2>2. /\ Path(R, Len(buf), toDevice', Rest(cbuf, x1), toProxy)
        /\ toDevice' \in Seq(Cells) /\ Rest(cbuf, x1) \in Seq(Cells)
    BY <2>1, Sequences, PathFlush, MoveType
  <2>3. Path(R, Len(buf), toDevice', cbuf', toProxy')
    BY <2>1, <2>2, Sequences, PathRead
  <2>4. RequestPath' /\ NoReply'
    BY <2>3, <1>3, <1>5 DEF Asking, RequestPath, R
  <2> QED BY <2>4, <1>1, <1>5 DEF Asking, PhaseInv, R
<1>6. CASE Handling
  <2>1. NoRequest' /\ NoReply'
    BY <1>2, <1>3, <1>6 DEF Handling
  <2> QED BY <2>1, <1>1, <1>6 DEF Handling, PhaseInv
<1>7. CASE Answering
  <2>1. Path(reply, total, fromProxy, sbuf, fromDevice) /\ reply \in Seq(Cells)
    BY <1>7, RequestFacts DEF Answering, ReplyPath
  <2>2. /\ Path(reply, total, fromProxy', Rest(sbuf, x2), fromDevice)
        /\ fromProxy' \in Seq(Cells) /\ Rest(sbuf, x2) \in Seq(Cells)
    BY <2>1, Sequences, PathFlush, MoveType
  <2>3. Path(reply, total, fromProxy', sbuf', fromDevice')
    BY <2>1, <2>2, Sequences, PathRead
  <2>4. NoRequest' /\ ReplyPath'
    BY <2>3, <1>2, <1>7 DEF Answering, ReplyPath
  <2> QED BY <2>4, <1>1, <1>7 DEF Answering, PhaseInv
<1> QED BY <1>4, <1>5, <1>6, <1>7 DEF IInv, PhaseInv

LEMMA RelayStep ==
  ASSUME IInv, FlushToServer \/ FlushToClient \/ Select
  PROVE  Inv' /\ UNCHANGED history
<1> USE DEF hostVars, proxyVars, devVars, history
<1>1. 0 \in Nat /\ \A s : s \in Seq(Cells) => 0 <= Len(s)
  BY LenProperties
<1>2. /\ toProxy \o First(cbuf, 0) = toProxy /\ Rest(cbuf, 0) = cbuf /\ Rest(sbuf, 0) = sbuf
      /\ Rest(toProxy, 0) = toProxy /\ Rest(fromDevice, 0) = fromDevice
      /\ toDevice \o First(cbuf, 0) = toDevice /\ fromProxy \o First(sbuf, 0) = fromProxy
      /\ cbuf \o First(toProxy, 0) = cbuf /\ sbuf \o First(fromDevice, 0) = sbuf
  BY Sequences, NothingMoved
<1>3. CASE FlushToServer
  <2> DEFINE x == Taken(cbuf, toDevice)
  <2>1. x \in Nat /\ x <= Len(cbuf) /\ Rest(cbuf, x) \in Seq(Cells)
    BY Sequences, TakenBounds, CutFacts
  <2>2. toDevice' = toDevice \o First(cbuf, x) /\ cbuf' = Rest(cbuf, x)
    BY <1>3 DEF FlushToServer, Unwritten
  <2> HIDE DEF x
  <2>3. Rest(cbuf, x) \o First(toProxy, 0) = Rest(cbuf, x)
    BY <2>1, Sequences, NothingMoved
  <2>4. UNCHANGED <<hostVars, sbuf, devVars, toProxy, fromDevice, fromProxy, history>>
    BY <1>3 DEF FlushToServer
  <2>5. MessageInv' /\ PhaseInv'
    BY <2>1, <2>2, <2>3, <2>4, <1>1, <1>2, Sequences, RelayMoves
  <2>6. CloseInv'
    BY <1>3 DEF FlushToServer, IInv, CloseInv
  <2> QED BY <2>4, <2>5, <2>6 DEF Inv
<1>4. CASE FlushToClient
  <2> DEFINE x == Taken(sbuf, fromProxy)
  <2>1. x \in Nat /\ x <= Len(sbuf) /\ Rest(sbuf, x) \in Seq(Cells)
    BY Sequences, TakenBounds, CutFacts
  <2>2. fromProxy' = fromProxy \o First(sbuf, x) /\ sbuf' = Rest(sbuf, x)
    BY <1>4 DEF FlushToClient, Unwritten
  <2> HIDE DEF x
  <2>3. Rest(sbuf, x) \o First(fromDevice, 0) = Rest(sbuf, x)
    BY <2>1, Sequences, NothingMoved
  <2>4. UNCHANGED <<hostVars, cbuf, devVars, toProxy, toDevice, fromDevice, history>>
    BY <1>4 DEF FlushToClient
  <2>5. MessageInv' /\ PhaseInv'
    BY <2>1, <2>2, <2>3, <2>4, <1>1, <1>2, Sequences, RelayMoves
  <2>6. CloseInv'
    BY <1>4 DEF FlushToClient, IInv, CloseInv
  <2> QED BY <2>4, <2>5, <2>6 DEF Inv
<1>5. CASE Select
  <2>1. PICK x \in Nat, y \in Nat :
           /\ x <= Len(toProxy) /\ y <= Len(fromDevice) /\ Relay(x, y)
           /\ UNCHANGED <<hostVars, devVars, toDevice, fromProxy, history>>
    BY <1>5, SelectMoves DEF IInv
  <2>2. /\ cbuf' = cbuf \o First(toProxy, x) /\ toProxy' = Rest(toProxy, x)
        /\ sbuf' = sbuf \o First(fromDevice, y) /\ fromDevice' = Rest(fromDevice, y)
        /\ proxyPc' = "toServer"
    BY <2>1 DEF Relay
  <2>3. MessageInv' /\ PhaseInv'
    BY <2>1, <2>2, <1>1, <1>2, Sequences, RelayMoves
  <2>4. CloseInv'
    BY <2>1, <2>2 DEF IInv, CloseInv
  <2> QED BY <2>1, <2>3, <2>4 DEF Inv
<1> QED BY <1>3, <1>4, <1>5

LEMMA CloseStep ==
  ASSUME IInv, CloseBoth
  PROVE  Inv'
<1> USE DEF hostVars, devVars, sockets, history
<1>1. hostPc = "closed"
  BY ClosedSocket DEF IInv
<1>2. UNCHANGED <<hostVars, cbuf, sbuf, devVars, sockets, history>>
  BY DEF CloseBoth
<1>3. MessageInv'
  BY <1>2, MessagesKept
<1>4. AtRest'
  BY <1>1, <1>2 DEF IInv, PhaseInv, AtRest, Asking, Handling, Answering, NoRequest, NoReply
<1>5. CloseInv'
  BY <1>1, <1>2 DEF CloseInv
<1> QED BY <1>3, <1>4, <1>5 DEF Inv, PhaseInv

(* recv takes cells of the request asked last, and processPacket takes the *)
(* packet when it has all of them, neither before nor after.               *)
LEMMA ReceiveStep ==
  ASSUME IInv, NEW x \in 1 .. Room, Recv(x)
  PROVE  /\ Inv'
         /\ handled' = handled \/ (handled' = Append(handled, R) /\ asked = Append(handled, R))
<1> DEFINE b == buf \o First(toDevice, x)
           a == Len(buf)
<1> USE DEF hostVars, proxyVars
<1>1. x \in Nat /\ x >= 1 /\ x <= Len(toDevice)
  <2>1. x <= Least(Len(toDevice), MAXBUF - Len(buf))
    BY DEF Recv
  <2> QED BY <2>1, Sequences, BuffersAssumption, LengthsAssumption DEF Least
<1>2. Asking
  <2>1. toDevice # <<>> /\ devPc = "recv"
    BY <1>1, EmptySeq DEF Recv
  <2> QED BY <2>1 DEF IInv, PhaseInv, AtRest, Asking, Handling, Answering, NoRequest
<1>3. /\ R \in Seq(Cells) /\ Len(R) \in Nat \ {0} /\ Len(R) \in HEADER .. MAXBUF
      /\ R[1].length = Len(R) /\ HEADER \in Nat /\ HEADER >= 1
  BY <1>2, RequestFacts, LengthsAssumption DEF Asking
<1>4. /\ a \in Nat /\ buf = Slice(R, 0, a)
      /\ Path(R, a, toDevice, cbuf, toProxy)
  BY <1>2, Sequences DEF Asking, RequestPath
<1>5. /\ a + Len(toDevice) <= Len(R) /\ a + x <= Len(R) /\ a + x \in Nat
      /\ toDevice = Slice(R, a, a + Len(toDevice))
  <2> HIDE DEF a
  <2>1. /\ a + Len(toDevice) + Len(cbuf) + Len(toProxy) = Len(R)
        /\ toDevice = Slice(R, a, a + Len(toDevice))
    BY <1>3, <1>4, Sequences, PathLengths
  <2>2. Len(toDevice) \in Nat /\ Len(cbuf) \in Nat /\ Len(toProxy) \in Nat
    BY Sequences
  <2> QED BY <1>1, <1>3, <1>4, <2>1, <2>2
<1>6. b = Slice(R, 0, a + x)
  <2>1. /\ 0 \in Nat /\ 0 <= a /\ a + x <= a + Len(toDevice) /\ a + Len(toDevice) \in Nat
    BY <1>1, <1>4, Sequences
  <2> HIDE DEF a
  <2>2. Joined(buf, toDevice, x) = Slice(R, 0, a + x)
    BY <2>1, <1>1, <1>3, <1>4, <1>5, Move
  <2> QED BY <2>2 DEF Joined
<1>7. b \in Seq(Cells) /\ Len(b) = a + x /\ b[1] = R[1]
  <2> DEFINE e == a + x
  <2>1. e \in Nat /\ e >= 1 /\ e <= Len(R)
    BY <1>1, <1>4, <1>5
  <2> HIDE DEF e, b
  <2>2. b = Slice(R, 0, e)
    BY <1>6 DEF e
  <2>3. /\ Slice(R, 0, e) \in Seq(Cells) /\ Len(Slice(R, 0, e)) = e
        /\ Slice(R, 0, e)[1] = R[1]
    BY <2>1, <1>3, PrefixFacts
  <2> QED BY <2>2, <2>3 DEF e
<1>8. /\ Path(R, a + x, Rest(toDevice, x), cbuf, toProxy)
      /\ Rest(toDevice, x) \in Seq(Cells)
  BY <1>1, <1>3, <1>4, Sequences, PathTake, CutFacts
<1>9. /\ toDevice' = Rest(toDevice, x)
      /\ UNCHANGED <<hostVars, proxyVars, toProxy, fromDevice, fromProxy, asked, answered, reply, split>>
  BY DEF Recv
<1>10. CloseInv'
  <2>1. hostPc = "reading" /\ devPc' \in {"recv", "answer"}
    BY <1>2 DEF Asking, Recv
  <2> QED BY <2>1, <1>9 DEF IInv, CloseInv
<1>11. hostPc' = "reading" /\ NoReply' /\ total' = 0 /\ ~split' /\ R' = R
  BY <1>2, <1>9 DEF Asking, NoReply, R
<1>12. asked = Append(handled, R)
  BY <1>2 DEF Asking
<1> HIDE DEF b
<1>13. CASE Complete(b)
  <2>1. a + x = Len(R)
    BY <1>13, <1>3, <1>5, <1>7 DEF Complete
  <2>2. b = R
    <3>1. Slice(R, 0, Len(R)) = R
      BY <1>3, WholeSlice
    <3> QED BY <2>1, <3>1, <1>6
  <2>3. Complete(b) /\ Consumed(b) = Len(R)
    BY <2>2, <1>13, <1>3 DEF Consumed
  <2>4. /\ handled' = Append(handled, First(R, Len(R))) /\ buf' = Rest(R, Len(R))
        /\ devPc' = "answer"
    BY <2>2, <2>3 DEF Recv, b
  <2>5. First(R, Len(R)) = R /\ Rest(R, Len(R)) = <<>>
    <3>1. Slice(R, 0, Len(R)) = R /\ Slice(R, Len(R), Len(R)) = <<>>
      BY <1>3, WholeSlice
    <3>2. 0 + 1 = 1
      OBVIOUS
    <3> QED BY <3>1, <3>2 DEF Slice, First, Rest
  <2>6. toDevice' = <<>> /\ cbuf' = <<>> /\ toProxy' = <<>>
    <3>1. a + x >= Len(R)
      BY <2>1, <1>3
    <3> QED BY <3>1, <1>3, <1>5, <1>8, <1>9, Sequences, PathEnd
  <2>7. handled' = asked' /\ handled' = Append(handled, R)
    BY <2>4, <2>5, <1>9, <1>12
  <2>8. Handling'
    BY <2>4, <2>5, <2>6, <2>7, <1>11 DEF Handling, NoRequest
  <2>9. MessageInv'
    BY <2>7, <1>9 DEF IInv, MessageInv, R
  <2> QED BY <2>7, <2>8, <2>9, <1>10, <1>12 DEF Inv, PhaseInv
<1>14. CASE ~Complete(b)
  <2>1. a + x < Len(R)
    BY <1>14, <1>3, <1>5, <1>7 DEF Complete
  <2>2. buf' = b /\ handled' = handled /\ devPc' = devPc
    BY <1>14 DEF Recv, b
  <2>3. Len(buf') = a + x
    BY <2>2, <1>7
  <2>4. RequestPath'
    BY <2>1, <2>2, <2>3, <1>6, <1>8, <1>9, <1>11 DEF RequestPath
  <2>5. Asking'
    BY <2>2, <2>4, <1>2, <1>9, <1>11 DEF Asking
  <2>6. MessageInv'
    BY <2>2, <1>9 DEF IInv, MessageInv, R
  <2> QED BY <2>2, <2>5, <2>6, <1>10 DEF Inv, PhaseInv
<1> QED BY <1>13, <1>14

LEMMA ReplyStep ==
  ASSUME IInv, SendReply
  PROVE  Inv'
<1> USE DEF hostVars, proxyVars, history
<1>1. Handling
  BY DEF SendReply, IInv, PhaseInv, AtRest, Asking, Handling, Answering
<1>2. reply \in Seq(Cells) /\ Len(reply) \in Nat \ {0}
  BY <1>1, RequestFacts DEF Handling
<1>3. /\ devPc' = "recv" /\ fromDevice' = reply
      /\ UNCHANGED <<hostVars, proxyVars, buf, toProxy, toDevice, fromProxy, history>>
  <2>1. fromDevice' = <<>> \o reply
    BY <1>1 DEF SendReply, Handling, NoReply
  <2> QED BY <2>1, <1>2, ConcatEmptySeq DEF SendReply
<1>4. ReplyPath'
  <2>1. Path(reply, 0, <<>>, <<>>, reply) /\ 0 < Len(reply)
    BY <1>2, PathStart
  <2> QED BY <2>1, <1>1, <1>3 DEF ReplyPath, Handling, NoReply
<1>5. Answering'
  BY <1>1, <1>3, <1>4 DEF Answering, Handling, NoRequest
<1>6. MessageInv'
  BY <1>3, MessagesKept
<1>7. CloseInv'
  <2>1. hostPc = "reading"
    BY <1>1 DEF Handling
  <2> QED BY <2>1, <1>3 DEF IInv, CloseInv
<1> QED BY <1>5, <1>6, <1>7 DEF Inv, PhaseInv

(* The receive buffer is never full when the device calls recv. *)
LEMMA EndStep ==
  ASSUME IInv, RecvEnd
  PROVE  Inv'
<1> USE DEF hostVars, proxyVars, sockets, history
<1>1. UNCHANGED <<hostVars, proxyVars, buf, sockets, history>> /\ devPc' = "gone"
  BY DEF RecvEnd
<1>2. Len(buf) # MAXBUF
  <2>1. CASE NoRequest
    BY <2>1, EmptySeq, LengthsAssumption DEF NoRequest
  <2>2. CASE Asking
    <3>1. Len(buf) < Len(R) /\ Len(R) \in HEADER .. MAXBUF
      BY <2>2, RequestFacts DEF Asking, RequestPath
    <3> QED BY <3>1, Sequences, LengthsAssumption
  <2> QED BY <2>1, <2>2 DEF IInv, PhaseInv, AtRest, Handling, Answering
<1>3. hostPc = "closed"
  BY <1>2 DEF RecvEnd, IInv, CloseInv
<1>4. MessageInv'
  BY <1>1, MessagesKept
<1>5. AtRest'
  BY <1>1, <1>3 DEF IInv, PhaseInv, AtRest, Asking, Handling, Answering, NoRequest, NoReply
<1>6. CloseInv'
  BY <1>1, <1>3 DEF CloseInv
<1> QED BY <1>4, <1>5, <1>6 DEF Inv, PhaseInv

-----------------------------------------------------------------------------
(* The invariant. *)

LEMMA InitInv == Init => IInv
<1> SUFFICES ASSUME Init PROVE IInv
  OBVIOUS
<1> USE DEF Init
<1>1. TypeOK
  <2>1. <<>> \in Seq(Cells) /\ Len(<<>>) = 0
    BY EmptySeq
  <2>2. 0 <= BUF_SIZE /\ 0 <= MAXBUF /\ 0 <= Room /\ 0 \in Nat
    BY LengthsAssumption, BuffersAssumption
  <2>3. /\ cbuf \in Seq(Cells) /\ Len(cbuf) <= BUF_SIZE
        /\ sbuf \in Seq(Cells) /\ Len(sbuf) <= BUF_SIZE
        /\ buf \in Seq(Cells) /\ Len(buf) <= MAXBUF
        /\ toDevice \in Seq(Cells) /\ Len(toDevice) <= Room
        /\ fromProxy \in Seq(Cells) /\ Len(fromProxy) <= Room
        /\ toProxy \in Seq(Cells) /\ fromDevice \in Seq(Cells)
    BY <2>1, <2>2
  <2>4. total \in Nat /\ answered \in Nat /\ split \in BOOLEAN
    BY <2>2
  <2> QED BY <2>3, <2>4 DEF TypeOK
<1>2. MessageInv
  <2>1. /\ <<>> \in Seq(UNION {Request(n) : n \in 1 .. MaxExchanges})
        /\ Len(<<>>) = 0
    BY EmptySeq
  <2> QED BY <2>1, BuffersAssumption DEF MessageInv
<1>3. AtRest
  BY EmptySeq DEF AtRest, NoRequest, NoReply
<1>4. CloseInv
  BY DEF CloseInv
<1> QED BY <1>1, <1>2, <1>3, <1>4 DEF IInv, PhaseInv

LEMMA NextInv == IInv /\ [Next]_vars => IInv'
<1> SUFFICES ASSUME IInv, [Next]_vars PROVE IInv'
  OBVIOUS
<1>1. TypeOK'
  BY TypeStep
<1>2. Inv'
  <2>1. CASE UNCHANGED vars
    BY <2>1 DEF vars, hostVars, proxyVars, devVars, sockets, history, IInv, Inv, MessageInv, PhaseInv,
         CloseInv, AtRest, Asking, Handling, Answering, NoRequest, NoReply, RequestPath, ReplyPath, R
  <2>2. CASE ProxyStep
    BY <2>2, RelayStep, CloseStep DEF ProxyStep
  <2>3. CASE DeviceStep
    BY <2>3, ReceiveStep, ReplyStep, EndStep DEF DeviceStep
  <2> QED BY <2>1, <2>2, <2>3, WriteStep, DisconnectStep, ReadStep DEF Next, HostStep
<1> QED BY <1>1, <1>2 DEF IInv, Inv

LEMMA AlwaysInv == Spec => []IInv
BY InitInv, NextInv, PTL DEF Spec

(* What the relay, the device and the sockets hold keeps within their      *)
(* buffers, and is cells of the requests and answers.                      *)
THEOREM BuffersHold == Spec => []TypeOK
<1>1. IInv => TypeOK
  BY DEF IInv
<1> QED BY <1>1, AlwaysInv, PTL

(* A read that dev_read needs one turn for leaves the answer in the        *)
(* caller's buffer, whatever the relay did to it on the way.               *)
THEOREM ReadInOnePiece == Spec => []ReadsReply
<1>1. IInv => ReadsReply
  BY DEF IInv, PhaseInv, AtRest, Asking, Handling, Answering, ReadsReply
<1> QED BY <1>1, AlwaysInv, PTL

(* Nothing of an exchange is left anywhere when dev_read returns, however  *)
(* many pieces it was read in, and the connection stands as long as the    *)
(* host keeps it.                                                          *)
THEOREM NextInStep == Spec => []InStep
<1>1. IInv => InStep
  BY DEF IInv, PhaseInv, AtRest, Asking, Handling, Answering, NoRequest, NoReply, CloseInv, InStep
<1> QED BY <1>1, AlwaysInv, PTL

(* Someone can go on: the device has a request to answer or a piece to     *)
(* read and room for it, the host has a piece to read, or the relay has    *)
(* cells for a place with nothing in it.                                   *)
CanGoOn ==
  \/ devPc = "answer"
  \/ devPc = "recv" /\ toDevice # <<>> /\ Len(buf) < MAXBUF
  \/ fromProxy # <<>>
  \/ cbuf # <<>> /\ toDevice = <<>>
  \/ toProxy # <<>> /\ cbuf = <<>>
  \/ sbuf # <<>> /\ fromProxy = <<>>
  \/ fromDevice # <<>> /\ sbuf = <<>>

(* However small the buffers are against the messages, the host, the relay *)
(* and the device never wait for room or for cells in a circle, and none   *)
(* of them is gone, while dev_read waits for its answer.                   *)
THEOREM NoCircularWait ==
  Spec => [](hostPc = "reading" => CanGoOn /\ proxyPc # "gone" /\ devPc # "gone")
<1>1. ASSUME IInv, hostPc = "reading"
      PROVE  CanGoOn /\ proxyPc # "gone" /\ devPc # "gone"
  <2>1. proxyPc # "gone" /\ devPc # "gone"
    BY <1>1 DEF IInv, CloseInv
  <2>2. CASE Asking
    <3>1. /\ R \in Seq(Cells) /\ Len(R) \in Nat \ {0} /\ Len(R) \in HEADER .. MAXBUF
          /\ Len(buf) < Len(R) /\ Len(buf) \in Nat
          /\ Path(R, Len(buf), toDevice, cbuf, toProxy)
      BY <1>1, <2>2, RequestFacts, Sequences DEF Asking, RequestPath
    <3>2. Len(buf) < MAXBUF
      BY <3>1, LengthsAssumption
    <3>3. Len(buf) + Len(toDevice) + Len(cbuf) + Len(toProxy) = Len(R)
      BY <1>1, <3>1, Sequences, PathLengths
    <3>5. Len(toDevice) # 0 \/ Len(cbuf) # 0 \/ Len(toProxy) # 0
      BY <3>1, <3>3
    <3>6. <<>> \in Seq(Cells) /\ Len(<<>>) = 0
      BY EmptySeq
    <3>4. toDevice # <<>> \/ cbuf # <<>> \/ toProxy # <<>>
      <4>1. CASE Len(toDevice) # 0
        BY <4>1, <3>6
      <4>2. CASE Len(cbuf) # 0
        BY <4>2, <3>6
      <4>3. CASE Len(toProxy) # 0
        BY <4>3, <3>6
      <4> QED BY <4>1, <4>2, <4>3, <3>5
    <3>7. CanGoOn
      <4>1. devPc = "recv"
        BY <2>2 DEF Asking
      <4> QED BY <4>1, <3>2, <3>4, Zenon DEF CanGoOn
    <3> QED BY <3>7, <2>1
  <2>3. CASE Answering
    <3>1. /\ reply \in Seq(Cells) /\ Len(reply) \in Nat \ {0} /\ total \in Nat
          /\ total < Len(reply) /\ Path(reply, total, fromProxy, sbuf, fromDevice)
      BY <1>1, <2>3, RequestFacts, Sequences DEF Answering, ReplyPath
    <3>2. total + Len(fromProxy) + Len(sbuf) + Len(fromDevice) = Len(reply)
      BY <1>1, <3>1, Sequences, PathLengths
    <3>5. Len(fromProxy) # 0 \/ Len(sbuf) # 0 \/ Len(fromDevice) # 0
      BY <3>1, <3>2
    <3>6. <<>> \in Seq(Cells) /\ Len(<<>>) = 0
      BY EmptySeq
    <3>3. fromProxy # <<>> \/ sbuf # <<>> \/ fromDevice # <<>>
      <4>1. CASE Len(fromProxy) # 0
        BY <4>1, <3>6
      <4>2. CASE Len(sbuf) # 0
        BY <4>2, <3>6
      <4>3. CASE Len(fromDevice) # 0
        BY <4>3, <3>6
      <4> QED BY <4>1, <4>2, <4>3, <3>5
    <3>7. CanGoOn
      BY <3>3, Zenon DEF CanGoOn
    <3> QED BY <3>7, <2>1
  <2> QED BY <1>1, <2>1, <2>2, <2>3 DEF IInv, PhaseInv, AtRest, Handling, CanGoOn
<1> QED BY <1>1, AlwaysInv, PTL

-----------------------------------------------------------------------------
(* The refinement of Exchange. *)

Messages == {Message(n, len) : n \in 1 .. MaxExchanges, len \in RequestSizes}

LEMMA CarriedStep == IInv /\ [Next]_vars => [Carried!Next]_(Carried!vars)
<1> SUFFICES ASSUME IInv, [Next]_vars PROVE [Carried!Next]_(Carried!vars)
  OBVIOUS
<1> USE DEF hostVars, proxyVars, devVars, sockets, history, Carried!vars
<1>1. Len(asked) \in Nat /\ handled \in Seq(UNION {Request(n) : n \in 1 .. MaxExchanges})
  BY Sequences DEF IInv, MessageInv
<1>2. ASSUME NEW len \in RequestSizes, NEW replyLen \in ReplySizes, DevWrite(len, replyLen)
      PROVE  Carried!Ask
  <2>1. answered = Len(asked)
    BY <1>2 DEF DevWrite, IInv, PhaseInv, AtRest, Asking, Handling, Answering
  <2>2. Len(asked) + 1 \in 1 .. MaxExchanges
    BY <1>1, <1>2, BuffersAssumption DEF DevWrite
  <2>3. Message(Len(asked) + 1, len) \in Messages
    BY <2>2 DEF Messages
  <2>4. /\ asked' = Append(asked, Message(Len(asked) + 1, len))
        /\ handled' = handled /\ answered' = answered
    BY <1>2 DEF DevWrite
  <2> QED BY <2>1, <2>3, <2>4 DEF Carried!Ask, Messages
<1>3. ASSUME NEW x \in 1 .. Room, DevRead(x) PROVE [Carried!Next]_(Carried!vars)
  <2>1. asked' = asked /\ handled' = handled
    BY <1>3 DEF DevRead
  <2>2. answered' = answered \/ (answered < Len(handled) /\ answered' = answered + 1)
    BY <1>3, ReadStep
  <2> QED BY <2>1, <2>2 DEF Carried!Next, Carried!Answer
<1>4. ASSUME NEW x \in 1 .. Room, Recv(x) PROVE [Carried!Next]_(Carried!vars)
  <2>1. asked' = asked /\ answered' = answered
    BY <1>4 DEF Recv
  <2>2. handled' = handled \/ (handled' = Append(handled, R) /\ asked = Append(handled, R))
    BY <1>4, ReceiveStep
  <2>3. CASE handled' = Append(handled, R) /\ asked = Append(handled, R)
    <3>1. R \in UNION {Request(n) : n \in 1 .. MaxExchanges}
      <4>1. /\ Len(asked) # 0 /\ asked \in Seq(UNION {Request(n) : n \in 1 .. MaxExchanges})
        BY <2>3, <1>1, AppendProperties, EmptySeq DEF IInv, MessageInv
      <4>2. Len(asked) \in 1 .. Len(asked)
        BY <4>1, <1>1
      <4> QED BY <4>1, <4>2, ElementOfSeq DEF R
    <3>2. Len(asked) = Len(handled) + 1 /\ asked[Len(handled) + 1] = R /\ Len(handled) \in Nat
      BY <3>1, <2>3, <1>1, AppendProperties, LenProperties
    <3>3. Len(handled) < Len(asked)
      BY <3>2
    <3>4. handled' = Append(handled, asked[Len(handled) + 1])
      BY <3>2, <2>3
    <3> QED BY <3>3, <3>4, <2>1 DEF Carried!Next, Carried!Handle
  <2> QED BY <2>1, <2>2, <2>3
<1>5. CASE DevDisconnect \/ SendReply \/ RecvEnd \/ CloseBoth \/ FlushToServer \/ FlushToClient \/ Select
  BY <1>5 DEF DevDisconnect, SendReply, RecvEnd, CloseBoth, FlushToServer, FlushToClient, Select
<1>6. CASE UNCHANGED vars
  BY <1>6 DEF vars
<1> QED
  BY <1>2, <1>3, <1>4, <1>5, <1>6 DEF Next, HostStep, ProxyStep, DeviceStep, Carried!Next

(* Through a relay and sockets that deliver what they like of what they    *)
(* hold, requests reach the device whole, once and in order, each is       *)
(* answered once, and a read ends only after the device has answered.      *)
THEOREM ImplementsExchange == Spec => RequestsCarried
<1>1. Init => Carried!Init
  BY DEF Init, Carried!Init
<1> QED BY <1>1, CarriedStep, AlwaysInv, PTL DEF Spec, RequestsCarried, Carried!Spec
=============================================================================
