---------------------------- MODULE StubsProofs -----------------------------
(***************************************************************************)
(* Proofs about the C stubs.  Of those that transfer bytes                 *)
(* (BigstringIO.tla), for every size of the pipe and of the channels'      *)
(* buffers and for all requests: no byte is lost, repeated or reordered    *)
(* (unless a signal ends a recv early), calls transfer what they promise,  *)
(* and an output that blocks has found the pipe full.  And of those that   *)
(* start programs (Processes.tla), for any number of calls, of             *)
(* descriptors and of those of 0, 1 and 2 that are closed: programs have   *)
(* the files of their calls and no other, failures are told, and nothing   *)
(* leaks in the parent.                                                    *)
(***************************************************************************)
EXTENDS BigstringIO, Processes, SelectionProofs

-----------------------------------------------------------------------------
(* The inductive invariant.  A call under way is a record of one of these. *)
Writing ==
  [pc : {"writev"}, op : {"output"}, len : Nat, min : Nat, boff : Nat, buff_len : Nat,
   buff_iov : Nat, base : Nat, bstr_len : Nat, bstr_iov : Nat]
Sending ==
  [pc : {"write"}, op : {"really_write", "write", "writev", "send"}, len : Nat, min : Nat,
   base : Nat, data : Seq(Nat)]
Closing == [pc : {"close"}, tries : Nat]
Filling == [pc : {"readv"}, op : {"input"}, len : Nat, min : Nat, base : Nat, iov_len : Nat]
Reading ==
  [pc : {"read"}, op : {"read", "really_recv", "read_nonblocking"}, len : Nat, min : Nat,
   base : Nat, left : Nat]

WriterTyped ==
  /\ wire \in Seq(Nat) /\ shut \in BOOLEAN
  /\ obuf \in Seq(Nat) /\ accepted \in Nat
  /\ w \in {Idle} \cup Closing \cup Writing \cup Sending
ReaderTyped ==
  /\ ibuf \in [0..BufSize - 1 -> Nat] /\ curr \in Nat /\ max \in Nat
  /\ bstr \in [0..Window - 1 -> Nat]
  /\ r \in {Idle, Stopped} \cup Filling \cup Reading
  /\ delivered \in Seq(Nat)
TypeOK == WriterTyped /\ ReaderTyped

(* The second iovec of an output is behind the whole of the first, and     *)
(* nothing of it is written before.                                        *)
OutputFits(q) ==
  /\ q.min <= q.len /\ q.base + q.bstr_len = q.len
  /\ q.boff + q.buff_len = Len(obuf)
  /\ q.buff_iov <= q.buff_len /\ q.bstr_iov <= q.bstr_len
  /\ q.buff_iov = q.buff_len \/ q.bstr_iov = 0
  /\ q.base = 0 \/ (q.base < q.min /\ q.buff_len = 0)
  /\ q.len > 0
SendFits(q) ==
  /\ q.min <= q.len /\ Len(q.data) = q.len
  /\ q.base = 0 \/ (q.base < q.len /\ q.op = "really_write")
  /\ \A i \in 1..q.len : q.data[i] = accepted + i
WriterFits ==
  /\ w.pc = "writev" => OutputFits(w)
  /\ w.pc = "write" => SendFits(w)

(* What a call has got is at the start of the client's bigstring.  Where a *)
(* really_recv stores what comes next is anybody's guess.                  *)
InputFits(q) ==
  /\ q.min <= q.len /\ q.len <= Window /\ q.base + q.iov_len = q.len
  /\ q.base < q.len \/ q.len = 0
ReadFits(q) ==
  /\ q.min <= q.len /\ q.len <= Window /\ q.left <= q.len
  /\ q.left > 0 \/ (q.len = 0 /\ q.op # "really_recv")
  /\ q.op = "read" => q.base = 0 \/ q.base < q.min
  /\ q.op = "read_nonblocking" => q.base = 0
  /\ q.op # "really_recv" => q.base = q.len - q.left
ReaderFits ==
  /\ curr <= max /\ max <= BufSize
  /\ r.pc = "readv" => InputFits(r)
  /\ r.pc = "read" => ReadFits(r)

(* The pipe holds no more than it can.  When the descriptor is closed all  *)
(* has been written.                                                       *)
PipeFits ==
  /\ Len(wire) <= PipeSize
  /\ Len(obuf) <= BufSize
  /\ accepted <= Total
  /\ w.pc = "close" => ~shut
  /\ shut \/ w.pc = "close" => obuf = << >> /\ accepted = Total
  /\ shut => w.pc # "writev" /\ (w.pc = "write" => w.len = 0)
  /\ w.pc \in {"writev", "write"} => accepted + w.len <= Total

(* The bytes of each stretch of the stream are numbered on from the one    *)
(* before it, those in X excepted.                                         *)
Numbered(s, a) == \A i \in 1..Len(s) : s[i] = a + i
NumberedBut(s, a, X) == \A i \in 1..Len(s) : s[i] = a + i \/ a + i \in X
Stretch(f, n, a, X) == \A i \in 0..n - 1 : f[i] = a + i + 1 \/ a + i + 1 \in X
HeldBytes(q) == IF q.pc = "readv" THEN q.base ELSE IF q.pc = "read" THEN Good(q) ELSE 0
Left(q, lo, hi) == IF q.pc = "readv" THEN 0 ELSE hi - lo
ReaderHas == Len(delivered) + HeldBytes(r) + Left(r, curr, max)
ReaderStream ==
  /\ NumberedBut(delivered, 0, astray)
  /\ Stretch(bstr, HeldBytes(r), Len(delivered), astray)
  /\ \A i \in 0..Left(r, curr, max) - 1 :
       ibuf[curr + i] = Len(delivered) + HeldBytes(r) + i + 1

Skip(q) == IF q.pc = "writev" THEN q.boff ELSE 0
Told(q) == IF q.pc \in {"writev", "write"} THEN q.base ELSE 0
WriterStream ==
  /\ Numbered(wire, ReaderHas)
  /\ \A i \in 1..Len(obuf) - Skip(w) : obuf[Skip(w) + i] = ReaderHas + Len(wire) + i
  /\ ReaderHas + Len(wire) + Len(obuf) - Skip(w) = accepted + Told(w)

(* Each end keeps to its route: bytes are in a channel's buffer only if    *)
(* the client uses the channel.                                            *)
WriterRoute ==
  /\ route.out # "channel" => obuf = << >>
  /\ w.pc = "writev" => route.out = "channel"
  /\ w.pc = "write" => route.out # "channel"
ReaderRoute ==
  /\ route.in # "channel" => curr = max
  /\ r.pc = "readv" => route.in = "channel"
  /\ r.pc = "read" => route.in # "channel"

IInv ==
  /\ TypeOK /\ WriterFits /\ ReaderFits /\ PipeFits
  /\ WriterRoute /\ ReaderRoute /\ ReaderStream /\ WriterStream

-----------------------------------------------------------------------------
(* Sequences: a stretch of one, and what the kernel and the client do.     *)
IsPart(p, s, m, k) ==
  p \in Seq(Nat) /\ Len(p) = k /\ \A i \in 1..k : p[i] = s[m + i]

LEMMA PartOf ==
  ASSUME NEW s \in Seq(Nat), NEW m \in Nat, NEW k \in Nat, m + k <= Len(s)
  PROVE  IsPart(SubSeq(s, m + 1, m + k), s, m, k)
<1>1. /\ \A i \in (m + 1)..(m + k) : i \in 1..Len(s)
      /\ \A i \in 1..k : i \in 1..((m + k) - (m + 1) + 1) /\ (m + 1) + i - 1 = m + i
      /\ (m + k) - (m + 1) + 1 = k /\ m + 1 \in Int /\ m + k \in Int
      /\ m + 1 <= m + k \/ k = 0
  BY LenProperties
<1>2. \A i \in (m + 1)..(m + k) : s[i] \in Nat
  BY <1>1, ElementOfSeq
<1>3. /\ SubSeq(s, m + 1, m + k) \in Seq(Nat)
      /\ Len(SubSeq(s, m + 1, m + k)) =
           IF m + 1 <= m + k THEN (m + k) - (m + 1) + 1 ELSE 0
      /\ \A i \in 1..((m + k) - (m + 1) + 1) :
           SubSeq(s, m + 1, m + k)[i] = s[(m + 1) + i - 1]
  <2>1. PICK x \in Int, y \in Int : x = m + 1 /\ y = m + k
    BY <1>1
  <2>2. \A i \in x..y : s[i] \in Nat
    BY <1>2, <2>1
  <2>3. /\ SubSeq(s, x, y) \in Seq(Nat)
        /\ Len(SubSeq(s, x, y)) = IF x <= y THEN y - x + 1 ELSE 0
        /\ \A i \in 1..(y - x + 1) : SubSeq(s, x, y)[i] = s[x + i - 1]
    BY <2>2, SubSeqProperties
  <2> QED BY <2>1, <2>3
<1>4. Len(SubSeq(s, m + 1, m + k)) = k
  BY <1>1, <1>3
<1> QED BY <1>1, <1>3, <1>4 DEF IsPart

(* The sequence of n numbers that follow a.                                *)
LEMMA Counting ==
  ASSUME NEW n \in Nat, NEW a \in Nat, NEW s, s = [i \in 1..n |-> a + i]
  PROVE  s \in Seq(Nat) /\ Len(s) = n /\ \A i \in 1..n : s[i] = a + i
<1>1. s \in [1..n -> Nat]
  OBVIOUS
<1> QED BY <1>1, SeqDef, LenProperties

(* n values of f, a bigstring, from its start.                             *)
LEMMA Copies ==
  ASSUME NEW m \in Nat, NEW f \in [0..m - 1 -> Nat], NEW n \in 0..m,
         NEW s, s = [i \in 1..n |-> f[i - 1]]
  PROVE  s \in Seq(Nat) /\ Len(s) = n /\ \A i \in 1..n : s[i] = f[i - 1]
<1>1. \A i \in 1..n : i - 1 \in 0..m - 1
  OBVIOUS
<1>2. s \in [1..n -> Nat]
  BY <1>1
<1> QED BY <1>2, SeqDef, LenProperties

IsJoin(u, s, t) ==
  /\ u \in Seq(Nat) /\ Len(u) = Len(s) + Len(t)
  /\ \A i \in 1..Len(s) : u[i] = s[i]
  /\ \A i \in 1..Len(t) : u[Len(s) + i] = t[i]

LEMMA Joins ==
  ASSUME NEW s \in Seq(Nat), NEW t \in Seq(Nat)
  PROVE  IsJoin(s \o t, s, t)
BY Joined DEF IsJoin

LEMMA PutAdds ==
  ASSUME wire \in Seq(Nat), NEW s \in Seq(Nat), NEW n, Put(s, n)
  PROVE  /\ n \in 0..Len(s) /\ Len(wire) + n <= PipeSize
         /\ n = 0 => Len(s) = 0
         /\ wire' \in Seq(Nat) /\ Len(wire') = Len(wire) + n
         /\ \A i \in 1..Len(wire) : wire'[i] = wire[i]
         /\ \A i \in 1..n : wire'[Len(wire) + i] = s[i]
<1>1. /\ n \in 0..Len(s) /\ Len(wire) + n <= PipeSize
      /\ n = 0 => s = << >>
      /\ wire' = wire \o SubSeq(s, 1, n)
  BY DEF Put
<1>2. n \in Nat /\ Len(s) \in Nat /\ n <= Len(s) /\ 0 + n = n /\ 0 + 1 = 1
  BY <1>1, LenProperties
<1>3. PICK p : p = SubSeq(s, 1, n)
  OBVIOUS
<1>4. IsPart(p, s, 0, n)
  BY <1>2, <1>3, PartOf
<1>5. /\ p \in Seq(Nat) /\ Len(p) = n /\ \A i \in 1..n : p[i] = s[i]
  BY <1>2, <1>4 DEF IsPart
<1>6. wire' = wire \o p
  BY <1>1, <1>3
<1>7. IsJoin(wire \o p, wire, p)
  BY <1>5, Joins
<1>9. IsJoin(wire', wire, p)
  BY <1>6, <1>7
<1>8. n = 0 => Len(s) = 0
  BY <1>1, EmptySeq
<1> QED BY <1>1, <1>5, <1>8, <1>9 DEF IsJoin

LEMMA TakeRemoves ==
  ASSUME wire \in Seq(Nat), NEW len \in Nat, NEW n, Take(len, n)
  PROVE  /\ n \in 1..len /\ n <= Len(wire)
         /\ wire' \in Seq(Nat) /\ Len(wire') = Len(wire) - n
         /\ \A i \in 1..(Len(wire) - n) : wire'[i] = wire[n + i]
<1>1. n \in 1..len /\ n <= Len(wire) /\ wire' = SubSeq(wire, n + 1, Len(wire))
  BY DEF Take
<1>2. PICK k \in Nat : k = Len(wire) - n /\ n \in Nat /\ n + k = Len(wire) /\ n + k <= Len(wire)
  <2>1. Len(wire) \in Nat /\ Len(wire) <= Len(wire)
    BY LenProperties
  <2>2. n \in Nat /\ n <= Len(wire)
    BY <1>1
  <2>3. Len(wire) - n \in Nat /\ n + (Len(wire) - n) = Len(wire)
    BY <2>1, <2>2
  <2> QED BY <2>1, <2>2, <2>3
<1>3. IsPart(SubSeq(wire, n + 1, n + k), wire, n, k)
  BY <1>2, PartOf
<1>4. IsPart(wire', wire, n, k)
  BY <1>1, <1>2, <1>3
<1> QED BY <1>1, <1>2, <1>4 DEF IsPart

LEMMA DeliverAdds ==
  ASSUME delivered \in Seq(Nat), bstr' \in [0..Window - 1 -> Nat], NEW n \in 0..Window,
         Deliver(n)
  PROVE  /\ delivered' \in Seq(Nat) /\ Len(delivered') = Len(delivered) + n
         /\ \A i \in 1..Len(delivered) : delivered'[i] = delivered[i]
         /\ \A i \in 1..n : delivered'[Len(delivered) + i] = bstr'[i - 1]
<1>1. Window \in Nat
  BY IOAssumption
<1>2. PICK f \in [0..Window - 1 -> Nat] : f = bstr'
  OBVIOUS
<1>3. PICK s : s = [i \in 1..n |-> f[i - 1]]
  OBVIOUS
<1>4. s \in Seq(Nat) /\ Len(s) = n /\ \A i \in 1..n : s[i] = f[i - 1]
  BY <1>1, <1>3, Copies
<1>5. delivered' = delivered \o s
  BY <1>2, <1>3 DEF Deliver
<1>6. IsJoin(delivered \o s, delivered, s)
  BY <1>4, Joins
<1>7. IsJoin(delivered', delivered, s)
  BY <1>5, <1>6
<1> QED BY <1>2, <1>4, <1>7 DEF IsJoin

-----------------------------------------------------------------------------
(* The initial states.                                                     *)
LEMMA IOInit == Init => IInv
<1> SUFFICES ASSUME Init PROVE IInv
  OBVIOUS
<1>1. /\ Len(<< >>) = 0 /\ << >> \in Seq(Nat)
      /\ {Total, PipeSize, BufSize, Window} \subseteq Nat
  BY IOAssumption
<1>2. /\ wire = << >> /\ shut = FALSE /\ obuf = << >> /\ accepted = 0
      /\ w = Idle /\ curr = 0 /\ max = 0 /\ r = Idle /\ delivered = << >>
      /\ ibuf \in [0..BufSize - 1 -> Nat] /\ bstr \in [0..Window - 1 -> Nat]
  BY DEF Init
<1>3. w.pc = "idle" /\ r.pc = "idle"
  BY <1>2 DEF Idle
<1>4. TypeOK
  BY <1>1, <1>2 DEF TypeOK, WriterTyped, ReaderTyped
<1>5. WriterFits /\ ReaderFits /\ PipeFits
  BY <1>1, <1>2, <1>3 DEF WriterFits, ReaderFits, PipeFits
<1>6. HeldBytes(r) = 0 /\ Left(r, curr, max) = 0 /\ Skip(w) = 0 /\ Told(w) = 0
  BY <1>2, <1>3 DEF HeldBytes, Left, Skip, Told
<1>7. ReaderStream /\ WriterStream
  BY <1>1, <1>2, <1>6 DEF ReaderStream, WriterStream, Numbered, NumberedBut, Stretch, ReaderHas
<1>8. WriterRoute /\ ReaderRoute
  BY <1>2, <1>3 DEF WriterRoute, ReaderRoute
<1> QED BY <1>4, <1>5, <1>7, <1>8 DEF IInv

(* What a step of one end leaves true of the other end.                    *)
LEMMA WriterStep ==
  ASSUME IInv, UNCHANGED readerVars, route' = route, AtEof => AtEof',
         WriterTyped', WriterFits', PipeFits', WriterRoute', WriterStream'
  PROVE  IInv'
<1>1. ReaderTyped' /\ ReaderStream'
  BY DEF IInv, TypeOK, ReaderTyped, ReaderStream, NumberedBut, Stretch, HeldBytes, Left, Good,
         readerVars
<1>2. ReaderFits'
  BY DEF IInv, ReaderFits, InputFits, ReadFits, readerVars
<1>3. ReaderRoute'
  BY DEF IInv, ReaderRoute, readerVars
<1> QED BY <1>1, <1>2, <1>3 DEF IInv, TypeOK

(* Outputs go through the channel.  All else leaves its buffer alone.      *)
LEMMA ChannelRoute ==
  ASSUME route' = route, route.out = "channel", w'.pc # "write"
  PROVE  WriterRoute'
BY DEF WriterRoute

LEMMA DescriptorRoute ==
  ASSUME WriterRoute, route' = route, obuf' = obuf, w'.pc # "writev",
         w'.pc = "write" => route.out # "channel"
  PROVE  WriterRoute'
BY DEF WriterRoute

LEMMA HasTyped == IInv => ReaderHas \in Nat
<1> SUFFICES ASSUME IInv PROVE ReaderHas \in Nat
  OBVIOUS
<1>1. Len(delivered) \in Nat /\ curr \in Nat /\ max \in Nat /\ curr <= max
  BY LenProperties DEF IInv, TypeOK, ReaderTyped, ReaderFits
<1>2. Left(r, curr, max) \in Nat
  BY <1>1 DEF Left
<1>3. HeldBytes(r) \in Nat
  <2>1. CASE r.pc = "readv"
    <3>1. r.base \in Nat
      BY <2>1 DEF IInv, TypeOK, ReaderTyped, Idle, Stopped, Reading, Filling
    <3> QED BY <2>1, <3>1 DEF HeldBytes
  <2>2. CASE r.pc = "read"
    <3>1. r.len \in Nat /\ r.left \in Nat
      BY <2>2 DEF IInv, TypeOK, ReaderTyped, Idle, Stopped, Reading, Filling
    <3>2. r.left <= r.len
      BY <2>2 DEF IInv, ReaderFits, ReadFits
    <3> QED BY <2>2, <3>1, <3>2 DEF HeldBytes, Good
  <2>3. CASE r.pc \notin {"readv", "read"}
    BY <2>3 DEF HeldBytes
  <2> QED BY <2>1, <2>2, <2>3
<1> QED BY <1>1, <1>2, <1>3 DEF ReaderHas

(* What the reader has stays the same in a step of the writer.             *)
LEMMA HasStays ==
  ASSUME UNCHANGED readerVars
  PROVE  ReaderHas' = ReaderHas
BY DEF readerVars, ReaderHas, HeldBytes, Left, Good

(* A write that continues the numbers of the wire.                         *)
LEMMA PutContinues ==
  ASSUME wire \in Seq(Nat), NEW h \in Nat, Numbered(wire, h),
         NEW g \in Seq(Nat), Numbered(g, h + Len(wire)), NEW n, Put(g, n)
  PROVE  /\ n \in 0..Len(g) /\ Len(wire) + n <= PipeSize
         /\ n = 0 => Len(g) = 0
         /\ wire' \in Seq(Nat) /\ Len(wire') = Len(wire) + n
         /\ Numbered(wire', h)
<1>1. /\ n \in 0..Len(g) /\ Len(wire) + n <= PipeSize
      /\ n = 0 => Len(g) = 0
      /\ wire' \in Seq(Nat) /\ Len(wire') = Len(wire) + n
      /\ \A i \in 1..Len(wire) : wire'[i] = wire[i]
      /\ \A i \in 1..n : wire'[Len(wire) + i] = g[i]
  BY PutAdds
<1>2. Len(wire) \in Nat /\ Len(g) \in Nat
  BY LenProperties
<1>3. ASSUME NEW i \in 1..Len(wire') PROVE wire'[i] = h + i
  <2>1. CASE i <= Len(wire)
    <3>1. i \in 1..Len(wire)
      BY <1>2, <2>1
    <3> QED BY <1>1, <3>1 DEF Numbered
  <2>2. CASE ~(i <= Len(wire))
    <3>1. PICK k \in 1..n : i = Len(wire) + k
      <4>1. PICK x \in Nat : x = Len(wire) /\ i \in 1..(x + n) /\ ~(i <= x)
        BY <1>1, <1>2, <2>2
      <4>2. n \in Nat
        BY <1>1, <1>2
      <4>3. i - x \in 1..n /\ i = x + (i - x)
        BY <4>1, <4>2
      <4> QED BY <4>1, <4>3
    <3>2. wire'[i] = g[k] /\ k \in 1..Len(g)
      <4>1. wire'[Len(wire) + k] = g[k] /\ n \in 0..Len(g)
        BY <1>1
      <4>2. k \in 1..Len(g)
        BY <1>2, <4>1
      <4> QED BY <3>1, <4>1, <4>2
    <3>3. g[k] = h + Len(wire) + k
      BY <3>2 DEF Numbered
    <3> QED BY <1>2, <3>1, <3>2, <3>3
  <2> QED BY <2>1, <2>2
<1> QED BY <1>1, <1>3 DEF Numbered

LEMMA EofOnlyByReading ==
  ASSUME shut' = shut, shut => wire' = wire
  PROVE  AtEof => AtEof'
BY DEF AtEof

-----------------------------------------------------------------------------
(* The writer's steps.  Outputs through the channel first.                 *)
LEMMA WhileIdle ==
  ASSUME IInv, w = Idle
  PROVE  w.pc = "idle" /\ Skip(w) = 0 /\ Told(w) = 0
BY DEF Idle, Skip, Told

LEMMA WhileWritev ==
  ASSUME IInv, w.pc = "writev"
  PROVE  /\ w \in Writing /\ OutputFits(w)
         /\ w.len \in Nat /\ w.min \in Nat /\ w.boff \in Nat /\ w.buff_len \in Nat
         /\ w.buff_iov \in Nat /\ w.base \in Nat /\ w.bstr_len \in Nat /\ w.bstr_iov \in Nat
         /\ Skip(w) = w.boff /\ Told(w) = w.base
         /\ shut = FALSE /\ accepted + w.len <= Total
<1>1. w \in Writing
  BY DEF IInv, TypeOK, WriterTyped, Idle, Closing, Sending, Writing
<1>2. /\ w.len \in Nat /\ w.min \in Nat /\ w.boff \in Nat /\ w.buff_len \in Nat
      /\ w.buff_iov \in Nat /\ w.base \in Nat /\ w.bstr_len \in Nat /\ w.bstr_iov \in Nat
  BY <1>1 DEF Writing
<1>3. shut = FALSE /\ accepted + w.len <= Total
  BY DEF IInv, TypeOK, WriterTyped, PipeFits
<1> QED BY <1>1, <1>2, <1>3 DEF Skip, Told, IInv, WriterFits

(* The bytes of the writer's bigstring are numbered.                       *)
LEMMA BytesNumbered ==
  ASSUME accepted \in Nat, NEW b \in Nat, NEW l \in Nat
  PROVE  /\ Bytes(b, l) \in Seq(Nat) /\ Len(Bytes(b, l)) = l
         /\ Numbered(Bytes(b, l), accepted + b)
<1>1. PICK a \in Nat : a = accepted + b
  OBVIOUS
<1>2. Bytes(b, l) = [i \in 1..l |-> a + i]
  BY <1>1 DEF Bytes
<1>3. /\ Bytes(b, l) \in Seq(Nat) /\ Len(Bytes(b, l)) = l
      /\ \A i \in 1..l : Bytes(b, l)[i] = a + i
  BY <1>2, Counting
<1> QED BY <1>1, <1>3 DEF Numbered

(* Two stretches that follow each other make one.                          *)
LEMMA JoinNumberedBut ==
  ASSUME NEW s \in Seq(Nat), NEW t \in Seq(Nat), NEW a \in Nat, NEW X,
         NumberedBut(s, a, X), NumberedBut(t, a + Len(s), X)
  PROVE  /\ s \o t \in Seq(Nat) /\ Len(s \o t) = Len(s) + Len(t)
         /\ NumberedBut(s \o t, a, X)
<1>1. IsJoin(s \o t, s, t)
  BY Joins
<1>2. PICK u : u = s \o t
  OBVIOUS
<1>3. /\ u \in Seq(Nat) /\ Len(u) = Len(s) + Len(t)
      /\ \A i \in 1..Len(s) : u[i] = s[i]
      /\ \A i \in 1..Len(t) : u[Len(s) + i] = t[i]
  BY <1>1, <1>2 DEF IsJoin
<1>4. Len(s) \in Nat /\ Len(t) \in Nat
  BY LenProperties
<1>5. ASSUME NEW i \in 1..Len(u) PROVE u[i] = a + i \/ a + i \in X
  <2>1. CASE i <= Len(s)
    <3>1. i \in 1..Len(s)
      BY <1>4, <2>1
    <3> QED BY <1>3, <3>1 DEF NumberedBut
  <2>2. CASE ~(i <= Len(s))
    <3>1. PICK k \in 1..Len(t) : i = Len(s) + k
      <4>1. i - Len(s) \in 1..Len(t) /\ i = Len(s) + (i - Len(s))
        BY <1>3, <1>4, <2>2
      <4> QED BY <4>1
    <3>2. u[i] = t[k] /\ (t[k] = a + Len(s) + k \/ a + Len(s) + k \in X)
      BY <1>3, <3>1 DEF NumberedBut
    <3> QED BY <1>4, <3>1, <3>2
  <2> QED BY <2>1, <2>2
<1> QED BY <1>2, <1>3, <1>5 DEF NumberedBut

LEMMA JoinNumbered ==
  ASSUME NEW s \in Seq(Nat), NEW t \in Seq(Nat), NEW a \in Nat,
         Numbered(s, a), Numbered(t, a + Len(s))
  PROVE  s \o t \in Seq(Nat) /\ Len(s \o t) = Len(s) + Len(t) /\ Numbered(s \o t, a)
<1>1. NumberedBut(s, a, {}) /\ NumberedBut(t, a + Len(s), {})
  BY DEF Numbered, NumberedBut
<1>2. s \o t \in Seq(Nat) /\ Len(s \o t) = Len(s) + Len(t) /\ NumberedBut(s \o t, a, {})
  BY <1>1, JoinNumberedBut
<1>3. PICK u : u = s \o t
  OBVIOUS
<1>4. Numbered(u, a)
  BY <1>2, <1>3 DEF Numbered, NumberedBut
<1> QED BY <1>2, <1>3, <1>4

(* The iovecs of an output hold the bytes that follow those on the wire.   *)
LEMMA GatheredNumbered ==
  ASSUME IInv, w.pc = "writev"
  PROVE  /\ Gathered \in Seq(Nat) /\ Len(Gathered) = w.buff_iov + w.bstr_iov
         /\ Numbered(Gathered, ReaderHas + Len(wire))
<1>1. /\ OutputFits(w) /\ w.boff \in Nat /\ w.buff_len \in Nat
      /\ w.buff_iov \in Nat /\ w.base \in Nat /\ w.bstr_iov \in Nat
      /\ Skip(w) = w.boff /\ Told(w) = w.base
  BY WhileWritev
<1>2. /\ obuf \in Seq(Nat) /\ accepted \in Nat /\ wire \in Seq(Nat) /\ ReaderHas \in Nat
      /\ Len(wire) \in Nat /\ Len(obuf) \in Nat
  BY HasTyped, LenProperties DEF IInv, TypeOK, WriterTyped
<1>3. PICK a \in Nat : a = ReaderHas + Len(wire)
  BY <1>2
<1>4. /\ \A i \in 1..Len(obuf) - w.boff : obuf[w.boff + i] = a + i
      /\ a + Len(obuf) - w.boff = accepted + w.base
  BY <1>1, <1>2, <1>3 DEF IInv, WriterStream
<1>5. /\ w.boff + w.buff_len = Len(obuf) /\ w.buff_iov <= w.buff_len
      /\ w.buff_iov = w.buff_len \/ w.bstr_iov = 0
  BY <1>1 DEF OutputFits
<1>6. PICK p, q : /\ p = SubSeq(obuf, w.boff + 1, w.boff + w.buff_iov)
                  /\ q = Bytes(w.base, w.bstr_iov)
  OBVIOUS
<1>7. /\ p \in Seq(Nat) /\ Len(p) = w.buff_iov
      /\ \A i \in 1..w.buff_iov : p[i] = obuf[w.boff + i]
  <2>1. w.boff + w.buff_iov <= Len(obuf)
    BY <1>1, <1>2, <1>5
  <2>2. IsPart(SubSeq(obuf, w.boff + 1, w.boff + w.buff_iov), obuf, w.boff, w.buff_iov)
    BY <1>1, <1>2, <2>1, PartOf
  <2>3. IsPart(p, obuf, w.boff, w.buff_iov)
    BY <1>6, <2>2
  <2> QED BY <2>3 DEF IsPart
<1>8. Numbered(p, a)
  <2>1. ASSUME NEW i \in 1..Len(p) PROVE p[i] = a + i
    <3>1. i \in 1..w.buff_iov /\ i \in 1..Len(obuf) - w.boff
      BY <1>1, <1>2, <1>5, <1>7
    <3> QED BY <1>4, <1>7, <3>1
  <2> QED BY <2>1 DEF Numbered
<1>9. /\ q \in Seq(Nat) /\ Len(q) = w.bstr_iov /\ Numbered(q, accepted + w.base)
  BY <1>1, <1>2, <1>6, BytesNumbered
<1>10. Numbered(q, a + Len(p))
  <2>1. CASE w.bstr_iov = 0
    BY <1>9, <2>1 DEF Numbered
  <2>2. CASE w.buff_iov = w.buff_len
    <3>1. a + Len(p) = accepted + w.base
      BY <1>1, <1>2, <1>4, <1>5, <1>7, <2>2
    <3> QED BY <1>9, <3>1
  <2> QED BY <1>5, <2>1, <2>2
<1>11. p \o q \in Seq(Nat) /\ Len(p \o q) = Len(p) + Len(q) /\ Numbered(p \o q, a)
  BY <1>7, <1>8, <1>9, <1>10, JoinNumbered
<1>12. Gathered = p \o q
  BY <1>6 DEF Gathered
<1> QED BY <1>3, <1>7, <1>9, <1>11, <1>12

LEMMA StartOutputStep ==
  ASSUME IInv, NEW q \in WriteAsks, StartOutput(q)
  PROVE  IInv'
<1>1. /\ w = Idle /\ accepted + q.len <= Total
      /\ UNCHANGED <<wire, shut>> /\ UNCHANGED readerVars
  BY DEF StartOutput
<1>2. q.len \in Nat /\ q.min \in Nat /\ q.min <= q.len /\ {BufSize, Total} \subseteq Nat
  BY IOAssumption
<1>3. /\ obuf \in Seq(Nat) /\ accepted \in Nat /\ wire \in Seq(Nat) /\ ReaderHas \in Nat
      /\ Len(wire) \in Nat /\ Len(obuf) \in Nat /\ shut \in BOOLEAN
  BY HasTyped, LenProperties DEF IInv, TypeOK, WriterTyped
<1>4. w.pc = "idle" /\ Skip(w) = 0 /\ Told(w) = 0
  BY <1>1, WhileIdle
<1>5. PICK h \in Nat : h = ReaderHas
  BY <1>3
<1>6. ReaderHas' = h
  BY <1>1, <1>5, HasStays
<1>7. /\ Numbered(wire, h)
      /\ \A i \in 1..Len(obuf) : obuf[i] = h + Len(wire) + i
      /\ h + Len(wire) + Len(obuf) = accepted
  BY <1>3, <1>4, <1>5 DEF IInv, WriterStream
<1>8. AtEof => AtEof'
  BY <1>1, EofOnlyByReading
<1>9. shut => obuf = << >> /\ accepted = Total
  BY DEF IInv, PipeFits
<1>12. route' = route /\ route.out = "channel"
  BY DEF StartOutput
<1>10. CASE Len(obuf) + q.len <= BufSize
  <2>1. /\ obuf' = obuf \o Bytes(0, q.len) /\ accepted' = accepted + q.len /\ w' = w
    BY <1>10 DEF StartOutput
  <2>2. PICK b : b = Bytes(0, q.len)
    OBVIOUS
  <2>3. b \in Seq(Nat) /\ Len(b) = q.len /\ Numbered(b, accepted)
    <3>1. b \in Seq(Nat) /\ Len(b) = q.len /\ Numbered(b, accepted + 0)
      BY <1>2, <1>3, <2>2, BytesNumbered
    <3>2. accepted + 0 = accepted
      BY <1>3
    <3> QED BY <3>1, <3>2
  <2>4. PICK a \in Nat : a = h + Len(wire)
    BY <1>3
  <2>5. Numbered(obuf, a)
    BY <1>7, <2>4 DEF Numbered
  <2>6. Numbered(b, a + Len(obuf))
    BY <1>7, <2>3, <2>4
  <2>7. obuf \o b \in Seq(Nat) /\ Len(obuf \o b) = Len(obuf) + Len(b) /\ Numbered(obuf \o b, a)
    BY <1>3, <2>3, <2>5, <2>6, JoinNumbered
  <2>8. obuf' \in Seq(Nat) /\ Len(obuf') = Len(obuf) + q.len /\ Numbered(obuf', a)
    BY <2>1, <2>2, <2>3, <2>7
  <2>9. WriterTyped'
    BY <1>1, <1>2, <1>3, <2>1, <2>8 DEF IInv, TypeOK, WriterTyped
  <2>10. w'.pc = "idle" /\ Skip(w') = 0 /\ Told(w') = 0
    BY <1>4, <2>1
  <2>11. WriterFits'
    BY <2>10 DEF WriterFits
  <2>12. WriterStream'
    <3>1. wire' = wire /\ ReaderHas' = h
      BY <1>1, <1>6
    <3>2. \A i \in 1..Len(obuf') - 0 : obuf'[0 + i] = h + Len(wire) + i
      BY <1>3, <2>4, <2>8 DEF Numbered
    <3>3. h + Len(wire) + Len(obuf') - 0 = accepted' + 0
      <4>1. PICK l \in Nat : l = q.len
        BY <1>2
      <4>2. Len(obuf') = Len(obuf) + l /\ accepted' = accepted + l
        BY <2>1, <2>8, <4>1
      <4>3. PICK x \in Nat, y \in Nat, c \in Nat :
              x = Len(wire) /\ y = Len(obuf) /\ c = accepted
        BY <1>3
      <4>4. h + x + y = c
        BY <1>7, <4>3
      <4>5. h + x + (y + l) - 0 = c + l + 0
        BY <4>4
      <4> QED BY <4>2, <4>3, <4>5
    <3> QED BY <1>7, <2>10, <3>1, <3>2, <3>3 DEF WriterStream
  <2>13. PipeFits'
    <3>1. shut' => obuf' = << >> /\ accepted' = Total
      <4>1. SUFFICES ASSUME shut PROVE obuf' = << >> /\ accepted' = Total
        BY <1>1
      <4>2. q.len = 0 /\ accepted' = Total /\ Len(obuf) = 0
        BY <1>1, <1>2, <1>3, <1>9, <2>1, <4>1, EmptySeq
      <4>3. Len(obuf') = 0
        BY <2>8, <4>2
      <4> QED BY <2>8, <4>2, <4>3, EmptySeq
    <3> QED BY <1>1, <1>2, <1>3, <1>10, <2>1, <2>8, <2>10, <3>1 DEF IInv, PipeFits
  <2>14. WriterRoute'
    BY <1>12, <2>10, ChannelRoute
  <2> QED BY <1>1, <1>8, <1>12, <2>9, <2>11, <2>12, <2>13, <2>14, WriterStep
<1>11. CASE ~(Len(obuf) + q.len <= BufSize)
  <2>1. /\ w' = [pc |-> "writev", op |-> q.op, len |-> q.len, min |-> q.min,
                 boff |-> 0, buff_len |-> Len(obuf), buff_iov |-> Len(obuf),
                 base |-> 0, bstr_len |-> q.len, bstr_iov |-> q.len]
        /\ UNCHANGED <<obuf, accepted>> /\ q.op = "output"
    BY <1>11 DEF StartOutput
  <2>2. w' \in Writing /\ w'.pc = "writev" /\ w'.boff = 0 /\ w'.base = 0
    BY <1>2, <1>3, <2>1 DEF Writing
  <2>3. Skip(w') = 0 /\ Told(w') = 0
    BY <2>2 DEF Skip, Told
  <2>4. q.len > 0
    <3>1. Len(obuf) <= BufSize
      BY DEF IInv, PipeFits
    <3> QED BY <1>2, <1>3, <1>11, <3>1
  <2>5. shut = FALSE
    <3>1. ~shut
      BY <1>1, <1>2, <1>3, <1>9, <2>4
    <3> QED BY <1>3, <3>1
  <2>6. WriterTyped'
    BY <1>1, <2>1, <2>2 DEF IInv, TypeOK, WriterTyped
  <2>7. WriterFits'
    BY <1>2, <1>3, <2>1, <2>4 DEF WriterFits, OutputFits
  <2>8. PipeFits'
    BY <1>1, <2>1, <2>5 DEF IInv, PipeFits
  <2>9. WriterStream'
    BY <1>1, <1>3, <1>6, <1>7, <2>1, <2>3 DEF WriterStream
  <2>10. WriterRoute'
    BY <1>12, <2>2, ChannelRoute
  <2> QED BY <1>1, <1>8, <1>12, <2>6, <2>7, <2>8, <2>9, <2>10, WriterStep
<1> QED BY <1>10, <1>11

(* A writev takes n of the bytes gathered: part of the channel's buffer,   *)
(* or all of it and then part of the bigstring.                            *)
LEMMA WritevStep ==
  ASSUME IInv, NEW n, WritevOk(n)
  PROVE  IInv'
<1>1. /\ w.pc = "writev" /\ Put(Gathered, n) /\ shut' = shut /\ UNCHANGED readerVars
  BY DEF WritevOk
<1>2. /\ w \in Writing /\ OutputFits(w)
      /\ w.len \in Nat /\ w.min \in Nat /\ w.boff \in Nat /\ w.buff_len \in Nat
      /\ w.buff_iov \in Nat /\ w.base \in Nat /\ w.bstr_len \in Nat /\ w.bstr_iov \in Nat
      /\ Skip(w) = w.boff /\ Told(w) = w.base
      /\ shut = FALSE /\ accepted + w.len <= Total
  BY <1>1, WhileWritev
<1>3. /\ obuf \in Seq(Nat) /\ accepted \in Nat /\ wire \in Seq(Nat) /\ ReaderHas \in Nat
      /\ Len(wire) \in Nat /\ Len(obuf) \in Nat /\ Total \in Nat
  BY HasTyped, LenProperties, IOAssumption DEF IInv, TypeOK, WriterTyped
<1>4. PICK h \in Nat, l \in Nat, m \in Nat, o \in Nat, b \in Nat, bi \in Nat,
           p \in Nat, s \in Nat, si \in Nat :
        /\ h = ReaderHas /\ l = w.len /\ m = w.min
        /\ o = w.boff /\ b = w.buff_len /\ bi = w.buff_iov
        /\ p = w.base /\ s = w.bstr_len /\ si = w.bstr_iov
  BY <1>2, <1>3
<1>5. ReaderHas' = h
  BY <1>1, <1>4, HasStays
<1>6. /\ Numbered(wire, h)
      /\ \A i \in 1..Len(obuf) - o : obuf[o + i] = h + Len(wire) + i
      /\ h + Len(wire) + Len(obuf) - o = accepted + p
  BY <1>2, <1>3, <1>4 DEF IInv, WriterStream
<1>7. /\ m <= l /\ p + s = l
      /\ o + b = Len(obuf)
      /\ bi <= b /\ si <= s
      /\ bi = b \/ si = 0
      /\ p = 0 \/ (p < m /\ b = 0)
      /\ l > 0
  BY <1>2, <1>4 DEF OutputFits
<1>8. /\ n \in 0..(bi + si) /\ Len(wire) + n <= PipeSize
      /\ wire' \in Seq(Nat) /\ Len(wire') = Len(wire) + n /\ Numbered(wire', h)
  <2>1. PICK g : g = Gathered
    OBVIOUS
  <2>2. g \in Seq(Nat) /\ Len(g) = bi + si /\ Numbered(g, h + Len(wire))
    BY <1>1, <1>4, <2>1, GatheredNumbered
  <2>3. Put(g, n)
    BY <1>1, <2>1
  <2> QED BY <1>3, <1>6, <2>2, <2>3, PutContinues
<1>9. AtEof => AtEof'
  BY <1>1, <1>2, EofOnlyByReading
<1>20. accepted + l <= Total /\ n \in Nat
  BY <1>2, <1>4, <1>8
<1>21. route' = route /\ route.out = "channel"
  BY <1>1 DEF WritevOk, IInv, WriterRoute
<1>10. CASE b > n
  <2>1. /\ w' = [w EXCEPT !.boff = o + n, !.buff_len = b - n, !.buff_iov = b - n]
        /\ UNCHANGED <<obuf, accepted>>
    BY <1>4, <1>10 DEF WritevOk
  <2>2. o + n \in Nat /\ b - n \in Nat
    BY <1>10, <1>20
  <2>3. /\ w' \in Writing /\ w'.pc = "writev"
        /\ w'.len = l /\ w'.min = m /\ w'.boff = o + n
        /\ w'.buff_len = b - n /\ w'.buff_iov = b - n
        /\ w'.base = p /\ w'.bstr_len = s /\ w'.bstr_iov = si
    BY <1>2, <1>4, <2>1, <2>2 DEF Writing
  <2>4. Skip(w') = o + n /\ Told(w') = p
    BY <2>3 DEF Skip, Told
  <2>5. WriterTyped'
    BY <1>1, <1>8, <2>1, <2>3 DEF IInv, TypeOK, WriterTyped
  <2>6. WriterFits'
    <3>1. o + n + (b - n) = Len(obuf) /\ p = 0 /\ b - n <= b - n
      BY <1>3, <1>7, <1>10, <1>20
    <3> QED BY <1>7, <2>1, <2>3, <3>1 DEF WriterFits, OutputFits
  <2>7. PipeFits'
    BY <1>1, <1>2, <1>8, <1>20, <2>1, <2>3 DEF IInv, PipeFits
  <2>8. WriterStream'
    <3>1. ASSUME NEW i \in 1..Len(obuf) - (o + n)
          PROVE  obuf[(o + n) + i] = h + (Len(wire) + n) + i
      <4>1. PICK k \in 1..Len(obuf) - o : k = n + i
        BY <1>3, <1>20
      <4>2. obuf[o + k] = h + Len(wire) + k
        BY <1>6
      <4>3. o + k = (o + n) + i /\ h + Len(wire) + k = h + (Len(wire) + n) + i
        BY <1>3, <1>20, <4>1
      <4> QED BY <4>2, <4>3
    <3>2. h + (Len(wire) + n) + Len(obuf) - (o + n) = accepted + p
      BY <1>3, <1>6, <1>20
    <3> QED BY <1>5, <1>8, <2>1, <2>4, <3>1, <3>2 DEF WriterStream
  <2>9. WriterRoute'
    BY <1>21, <2>3, ChannelRoute
  <2> QED BY <1>1, <1>9, <1>21, <2>5, <2>6, <2>7, <2>8, <2>9, WriterStep
<1>11. CASE ~(b > n)
  <2>1. PICK k \in Nat : k = n - b
    BY <1>11, <1>20
  <2>2. k <= s /\ n = b + k /\ h + Len(wire') = accepted + p + k
    <3>1. k <= s /\ n = b + k
      BY <1>7, <1>8, <1>20, <2>1
    <3>2. PICK x \in Nat, y \in Nat, a \in Nat : x = Len(wire) /\ y = Len(obuf) /\ a = accepted
      BY <1>3
    <3>3. h + x + y - o = a + p /\ o + b = y /\ Len(wire') = x + (b + k)
      BY <1>6, <1>7, <1>8, <3>1, <3>2
    <3>4. h + (x + (b + k)) = a + p + k
      BY <3>3
    <3> QED BY <3>1, <3>2, <3>3, <3>4
  <2>3. CASE p + k >= m
    <3>1. obuf' = << >> /\ accepted' = accepted + (p + k) /\ w' = Idle
      BY <1>4, <1>11, <2>1, <2>3 DEF WritevOk
    <3>2. w'.pc = "idle" /\ Skip(w') = 0 /\ Told(w') = 0
      BY <3>1 DEF Idle, Skip, Told
    <3>3. accepted' \in Nat /\ accepted' <= Total
      BY <1>3, <1>7, <1>20, <2>2, <3>1
    <3>4. obuf' \in Seq(Nat) /\ Len(obuf') = 0
      BY <3>1, EmptySeq
    <3>5. WriterTyped'
      BY <1>1, <1>8, <3>1, <3>3, <3>4 DEF IInv, TypeOK, WriterTyped
    <3>6. WriterFits'
      BY <3>2 DEF WriterFits
    <3>7. PipeFits'
      BY <1>1, <1>2, <1>8, <3>2, <3>3, <3>4, IOAssumption DEF PipeFits
    <3>8. WriterStream'
      <4>1. h + Len(wire') + Len(obuf') - 0 = accepted' + 0
        BY <1>3, <1>8, <1>20, <2>2, <3>1, <3>4
      <4> QED BY <1>5, <1>8, <3>2, <3>4, <4>1 DEF WriterStream
    <3>9. WriterRoute'
      BY <1>21, <3>2, ChannelRoute
    <3> QED BY <1>1, <1>9, <1>21, <3>5, <3>6, <3>7, <3>8, <3>9, WriterStep
  <2>4. CASE ~(p + k >= m)
    <3>1. /\ w' = [w EXCEPT !.base = p + k, !.boff = o + b,
                      !.buff_len = 0, !.buff_iov = 0,
                      !.bstr_len = s - k, !.bstr_iov = s - k]
          /\ UNCHANGED <<obuf, accepted>>
      BY <1>4, <1>11, <2>1, <2>4 DEF WritevOk
    <3>2. p + k \in Nat /\ o + b \in Nat /\ s - k \in Nat
      BY <2>2
    <3>3. /\ w' \in Writing /\ w'.pc = "writev"
          /\ w'.len = l /\ w'.min = m /\ w'.boff = o + b
          /\ w'.buff_len = 0 /\ w'.buff_iov = 0
          /\ w'.base = p + k /\ w'.bstr_len = s - k
          /\ w'.bstr_iov = s - k
      BY <1>2, <1>4, <3>1, <3>2 DEF Writing
    <3>4. Skip(w') = Len(obuf) /\ Told(w') = p + k
      BY <1>7, <3>3 DEF Skip, Told
    <3>5. WriterTyped'
      BY <1>1, <1>8, <3>1, <3>3 DEF IInv, TypeOK, WriterTyped
    <3>6. WriterFits'
      <4>1. /\ o + b + 0 = Len(obuf) /\ p + k + (s - k) = l
            /\ p + k < m /\ s - k <= s - k
        BY <1>3, <1>7, <2>2, <2>4
      <4>2. 0 <= 0 /\ 0 = 0 /\ 0 \in Nat
        OBVIOUS
      <4> QED BY <1>7, <3>1, <3>2, <3>3, <4>1, <4>2 DEF WriterFits, OutputFits
    <3>7. PipeFits'
      BY <1>1, <1>2, <1>8, <1>20, <3>1, <3>3 DEF IInv, PipeFits
    <3>8. WriterStream'
      <4>1. h + Len(wire') + Len(obuf) - Len(obuf) = accepted + (p + k)
        BY <1>3, <1>8, <1>20, <2>2
      <4>2. \A i \in 1..Len(obuf) - Len(obuf) : FALSE
        BY <1>3
      <4> QED BY <1>5, <1>8, <3>1, <3>4, <4>1, <4>2 DEF WriterStream
    <3>9. WriterRoute'
      BY <1>21, <3>3, ChannelRoute
    <3> QED BY <1>1, <1>9, <1>21, <3>5, <3>6, <3>7, <3>8, <3>9, WriterStep
  <2> QED BY <2>3, <2>4
<1> QED BY <1>10, <1>11

LEMMA WritevFaultStep ==
  ASSUME IInv, NEW e, WritevFault(e)
  PROVE  IInv'
<1>1. w.pc = "writev" /\ UNCHANGED <<wire, shut>> /\ UNCHANGED readerVars
  BY DEF WritevFault
<1>2. /\ w \in Writing /\ OutputFits(w)
      /\ w.len \in Nat /\ w.min \in Nat /\ w.boff \in Nat /\ w.buff_len \in Nat
      /\ w.buff_iov \in Nat /\ w.base \in Nat /\ w.bstr_len \in Nat /\ w.bstr_iov \in Nat
      /\ Skip(w) = w.boff /\ Told(w) = w.base
      /\ shut = FALSE /\ accepted + w.len <= Total
  BY <1>1, WhileWritev
<1>3. /\ obuf \in Seq(Nat) /\ accepted \in Nat /\ wire \in Seq(Nat) /\ ReaderHas \in Nat
      /\ Len(wire) \in Nat /\ Len(obuf) \in Nat /\ Total \in Nat
  BY HasTyped, LenProperties, IOAssumption DEF IInv, TypeOK, WriterTyped
<1>4. AtEof => AtEof'
  BY <1>1, EofOnlyByReading
<1>5. /\ w.min <= w.len /\ w.base + w.bstr_len = w.len
      /\ w.boff + w.buff_len = Len(obuf)
      /\ w.buff_iov <= w.buff_len /\ w.bstr_iov <= w.bstr_len
      /\ w.buff_iov = w.buff_len \/ w.bstr_iov = 0
      /\ w.base = 0 \/ (w.base < w.min /\ w.buff_len = 0)
      /\ w.len > 0
  BY <1>2 DEF OutputFits
<1>6. ReaderHas' = ReaderHas
  BY <1>1, HasStays
<1>10. route' = route /\ route.out = "channel"
  BY <1>1 DEF WritevFault, IInv, WriterRoute
<1>7. CASE e = "EINTR"
  <2>1. UNCHANGED <<obuf, accepted, w>>
    BY <1>7 DEF WritevFault
  <2>2. WriterTyped' /\ WriterFits' /\ PipeFits' /\ WriterStream'
    BY <1>1, <1>6, <2>1
       DEF IInv, TypeOK, WriterTyped, WriterFits, OutputFits, SendFits, PipeFits, WriterStream
  <2>3. WriterRoute'
    BY <1>1, <1>10, <2>1, ChannelRoute
  <2> QED BY <1>1, <1>4, <1>10, <2>2, <2>3, WriterStep
<1>8. CASE e = "EAGAIN" /\ MayTryOneByte
  <2>1. /\ w' = IF w.buff_len > 0 THEN [w EXCEPT !.buff_iov = 1, !.bstr_iov = 0]
                ELSE [w EXCEPT !.bstr_iov = 1]
        /\ UNCHANGED <<obuf, accepted>>
    BY <1>8 DEF WritevFault
  <2>2. /\ w' \in Writing /\ w'.pc = "writev"
        /\ w'.len = w.len /\ w'.min = w.min /\ w'.boff = w.boff /\ w'.buff_len = w.buff_len
        /\ w'.base = w.base /\ w'.bstr_len = w.bstr_len
        /\ IF w.buff_len > 0 THEN w'.buff_iov = 1 /\ w'.bstr_iov = 0
           ELSE w'.buff_iov = w.buff_iov /\ w'.bstr_iov = 1
    BY <1>2, <2>1 DEF Writing
  <2>3. /\ w'.buff_iov <= w.buff_len /\ w'.bstr_iov <= w.bstr_len
        /\ w'.buff_iov = w.buff_len \/ w'.bstr_iov = 0
    <3>1. w.buff_iov + w.bstr_iov > 1
      BY <1>8 DEF MayTryOneByte
    <3>2. PICK b \in Nat, bi \in Nat, s \in Nat, si \in Nat :
            /\ b = w.buff_len /\ bi = w.buff_iov /\ s = w.bstr_len /\ si = w.bstr_iov
      BY <1>2
    <3>3. bi + si > 1 /\ bi <= b /\ si <= s
      BY <1>5, <3>1, <3>2
    <3>4. CASE b > 0
      <4>1. w'.buff_iov = 1 /\ w'.bstr_iov = 0 /\ 1 <= b /\ 0 <= s
        BY <2>2, <3>2, <3>4
      <4> QED BY <3>2, <4>1
    <3>5. CASE b = 0
      <4>1. w'.buff_iov = bi /\ w'.bstr_iov = 1 /\ bi = 0 /\ 1 <= s
        BY <2>2, <3>2, <3>3, <3>5
      <4> QED BY <3>2, <3>5, <4>1
    <3> QED BY <3>2, <3>4, <3>5
  <2>4. Skip(w') = w.boff /\ Told(w') = w.base
    BY <2>2 DEF Skip, Told
  <2>5. WriterTyped'
    BY <1>1, <2>1, <2>2 DEF IInv, TypeOK, WriterTyped
  <2>6. WriterFits'
    BY <1>5, <2>1, <2>2, <2>3 DEF WriterFits, OutputFits
  <2>7. PipeFits'
    BY <1>1, <1>2, <2>1, <2>2 DEF IInv, PipeFits
  <2>8. WriterStream'
    BY <1>1, <1>2, <1>6, <2>1, <2>4 DEF IInv, WriterStream
  <2>9. WriterRoute'
    BY <1>10, <2>2, ChannelRoute
  <2> QED BY <1>1, <1>4, <1>10, <2>5, <2>6, <2>7, <2>8, <2>9, WriterStep
<1>9. CASE e # "EINTR" /\ ~(e = "EAGAIN" /\ MayTryOneByte)
  <2>1. obuf' = Kept /\ accepted' = accepted + w.base /\ w' = Idle
    BY <1>9 DEF WritevFault
  <2>2. PICK h \in Nat, l \in Nat, o \in Nat, b \in Nat, p \in Nat :
          h = ReaderHas /\ l = w.len /\ o = w.boff /\ b = w.buff_len /\ p = w.base
    BY <1>2, <1>3
  <2>3. /\ \A i \in 1..Len(obuf) - o : obuf[o + i] = h + Len(wire) + i
        /\ h + Len(wire) + Len(obuf) - o = accepted + p
        /\ Numbered(wire, h)
    BY <1>2, <2>2 DEF IInv, WriterStream
  <2>4. o + b = Len(obuf) /\ p <= l
    <3>1. PICK m \in Nat : m = w.min
      BY <1>2
    <3>2. m <= l /\ o + b = Len(obuf) /\ (p = 0 \/ p < m)
      BY <1>5, <2>2, <3>1
    <3> QED BY <3>2
  <2>5. obuf' \in Seq(Nat) /\ Len(obuf') = b /\ \A i \in 1..b : obuf'[i] = obuf[o + i]
    <3>1. o + b <= Len(obuf)
      BY <1>3, <2>4
    <3>2. IsPart(SubSeq(obuf, o + 1, o + b), obuf, o, b)
      BY <1>3, <3>1, PartOf
    <3>3. IsPart(obuf', obuf, o, b)
      BY <2>1, <2>2, <3>2 DEF Kept
    <3> QED BY <3>3 DEF IsPart
  <2>6. w'.pc = "idle" /\ Skip(w') = 0 /\ Told(w') = 0
    BY <2>1 DEF Idle, Skip, Told
  <2>7. accepted' = accepted + p /\ accepted' \in Nat /\ accepted' <= Total
    <3>1. accepted + l <= Total
      BY <1>2, <2>2
    <3>2. accepted' = accepted + p
      BY <2>1, <2>2
    <3> QED BY <1>3, <2>4, <3>1, <3>2
  <2>8. WriterTyped'
    BY <1>1, <1>3, <2>1, <2>5, <2>7 DEF IInv, TypeOK, WriterTyped
  <2>9. WriterFits'
    BY <2>6 DEF WriterFits
  <2>10. PipeFits'
    <3>1. Len(obuf) <= BufSize /\ Len(wire) <= PipeSize /\ BufSize \in Nat
      BY IOAssumption DEF IInv, PipeFits
    <3>2. Len(obuf') <= BufSize
      BY <1>3, <2>4, <2>5, <3>1
    <3> QED BY <1>1, <1>2, <2>6, <2>7, <3>1, <3>2 DEF PipeFits
  <2>11. WriterStream'
    <3>1. ASSUME NEW i \in 1..Len(obuf') - 0
          PROVE  obuf'[0 + i] = h + Len(wire) + i
      <4>1. i \in 1..b /\ i \in 1..Len(obuf) - o /\ 0 + i = i
        BY <1>3, <2>4, <2>5
      <4> QED BY <2>3, <2>5, <4>1
    <3>2. h + Len(wire) + Len(obuf') - 0 = accepted' + 0
      <4>1. PICK x \in Nat, y \in Nat, a \in Nat :
              x = Len(wire) /\ y = Len(obuf) /\ a = accepted
        BY <1>3
      <4>2. h + x + y - o = a + p /\ o + b = y
        BY <2>3, <2>4, <4>1
      <4>3. h + x + b - 0 = a + p + 0
        BY <4>2
      <4> QED BY <2>5, <2>7, <4>1, <4>3
    <3>3. ReaderHas' = h /\ wire' = wire
      BY <1>1, <1>6, <2>2
    <3> QED BY <2>3, <2>6, <3>1, <3>2, <3>3 DEF WriterStream
  <2>12. WriterRoute'
    BY <1>10, <2>6, ChannelRoute
  <2> QED BY <1>1, <1>4, <1>10, <2>8, <2>9, <2>10, <2>11, <2>12, WriterStep
<1> QED BY <1>7, <1>8, <1>9

(* Writes to the descriptor.                                               *)
LEMMA WhileWrite ==
  ASSUME IInv, w.pc = "write"
  PROVE  /\ w \in Sending /\ SendFits(w)
         /\ w.len \in Nat /\ w.min \in Nat /\ w.base \in Nat /\ w.data \in Seq(Nat)
         /\ Skip(w) = 0 /\ Told(w) = w.base
         /\ accepted + w.len <= Total /\ (shut => w.len = 0)
<1>1. w \in Sending
  BY DEF IInv, TypeOK, WriterTyped, Idle, Closing, Sending, Writing
<1>2. w.len \in Nat /\ w.min \in Nat /\ w.base \in Nat /\ w.data \in Seq(Nat)
  BY <1>1 DEF Sending
<1>3. accepted + w.len <= Total /\ (shut => w.len = 0)
  BY DEF IInv, PipeFits
<1> QED BY <1>1, <1>2, <1>3 DEF Skip, Told, IInv, WriterFits

(* The strings of a writev, copied into one buffer, are in their order.    *)
LEMMA CopiedInOrder ==
  ASSUME accepted \in Nat, NEW q, q.len \in Nat, NEW k \in 0..q.len
  PROVE  /\ Copied(Iovecs(q, k)) \in Seq(Nat) /\ Len(Copied(Iovecs(q, k))) = q.len
         /\ Numbered(Copied(Iovecs(q, k)), accepted)
<1>1. PICK l \in Nat, j \in Nat : l = q.len /\ j = l - k /\ k \in Nat
  OBVIOUS
<1>2. PICK s, t : s = Bytes(0, k) /\ t = Bytes(k, j)
  OBVIOUS
<1>3. /\ s \in Seq(Nat) /\ Len(s) = k /\ Numbered(s, accepted + 0)
      /\ t \in Seq(Nat) /\ Len(t) = j /\ Numbered(t, accepted + k)
  BY <1>1, <1>2, BytesNumbered
<1>4. accepted + 0 = accepted
  OBVIOUS
<1>5. Numbered(s, accepted) /\ Numbered(t, accepted + Len(s))
  BY <1>3, <1>4
<1>6. s \o t \in Seq(Nat) /\ Len(s \o t) = Len(s) + Len(t) /\ Numbered(s \o t, accepted)
  BY <1>3, <1>5, JoinNumbered
<1>7. Copied(Iovecs(q, k)) = s \o t
  BY <1>1, <1>2 DEF Copied, Iovecs
<1>8. Len(s) + Len(t) = q.len
  BY <1>1, <1>3
<1> QED BY <1>6, <1>7, <1>8

LEMMA StartWriteStep ==
  ASSUME IInv, NEW q \in WriteAsks, StartWrite(q)
  PROVE  IInv'
<1>1. /\ w = Idle /\ q.op \in {"really_write", "write", "writev", "send"}
      /\ accepted + q.len <= Total
      /\ UNCHANGED <<wire, shut, obuf, accepted>> /\ UNCHANGED readerVars
  BY DEF StartWrite
<1>2. q.len \in Nat /\ q.min \in Nat /\ q.min <= q.len /\ Total \in Nat
  BY IOAssumption
<1>3. accepted \in Nat /\ w.pc = "idle" /\ Skip(w) = 0 /\ Told(w) = 0
  BY <1>1, WhileIdle DEF IInv, TypeOK, WriterTyped
<1>4. PICK d : /\ w' = [pc |-> "write", op |-> q.op, len |-> q.len, min |-> q.min,
                        base |-> 0, data |-> d]
               /\ d \in Seq(Nat) /\ Len(d) = q.len /\ Numbered(d, accepted)
  <2>1. PICK k \in 0..q.len :
          w' = [pc |-> "write", op |-> q.op, len |-> q.len, min |-> q.min, base |-> 0,
                data |-> IF q.op = "writev" THEN Copied(Iovecs(q, k)) ELSE Bytes(0, q.len)]
    BY DEF StartWrite
  <2>2. CASE q.op = "writev"
    <3>1. /\ Copied(Iovecs(q, k)) \in Seq(Nat) /\ Len(Copied(Iovecs(q, k))) = q.len
          /\ Numbered(Copied(Iovecs(q, k)), accepted)
      BY <1>2, <1>3, CopiedInOrder
    <3> QED BY <2>1, <2>2, <3>1
  <2>3. CASE q.op # "writev"
    <3>1. /\ Bytes(0, q.len) \in Seq(Nat) /\ Len(Bytes(0, q.len)) = q.len
          /\ Numbered(Bytes(0, q.len), accepted + 0)
      BY <1>2, <1>3, BytesNumbered
    <3>2. accepted + 0 = accepted
      BY <1>3
    <3> QED BY <2>1, <2>3, <3>1, <3>2
  <2> QED BY <2>2, <2>3
<1>5. /\ w' \in Sending /\ w'.pc = "write" /\ w'.len = q.len /\ w'.min = q.min
      /\ w'.base = 0 /\ w'.data = d
  BY <1>1, <1>2, <1>4 DEF Sending
<1>6. Skip(w') = 0 /\ Told(w') = 0
  BY <1>5 DEF Skip, Told
<1>7. WriterTyped'
  BY <1>1, <1>5 DEF IInv, TypeOK, WriterTyped
<1>8. WriterFits'
  BY <1>1, <1>2, <1>4, <1>5 DEF WriterFits, SendFits, Numbered
<1>9. PipeFits'
  <2>1. shut => q.len = 0
    <3>1. shut => accepted = Total
      BY DEF IInv, PipeFits
    <3> QED BY <1>1, <1>2, <1>3, <3>1
  <2> QED BY <1>1, <1>5, <2>1 DEF IInv, PipeFits
<1>10. WriterStream'
  <2>1. ReaderHas' = ReaderHas
    BY <1>1, HasStays
  <2> QED BY <1>1, <1>3, <1>6, <2>1 DEF IInv, WriterStream
<1>11. AtEof => AtEof'
  BY <1>1, EofOnlyByReading
<1>12. route' = route /\ route.out # "channel"
  BY DEF StartWrite
<1>13. WriterRoute'
  BY <1>1, <1>5, <1>12, DescriptorRoute DEF IInv
<1> QED BY <1>1, <1>7, <1>8, <1>9, <1>10, <1>11, <1>12, <1>13, WriterStep

(* The bytes of a write that are left follow those on the wire.            *)
LEMMA WriteStep ==
  ASSUME IInv, NEW n, WriteOk(n)
  PROVE  IInv'
<1>1. /\ w.pc = "write" /\ Put(SubSeq(w.data, w.base + 1, w.len), n)
      /\ UNCHANGED <<shut, obuf>> /\ UNCHANGED readerVars /\ route' = route
  BY DEF WriteOk
<1>2. /\ w \in Sending /\ SendFits(w)
      /\ w.len \in Nat /\ w.min \in Nat /\ w.base \in Nat /\ w.data \in Seq(Nat)
      /\ Skip(w) = 0 /\ Told(w) = w.base
      /\ accepted + w.len <= Total /\ (shut => w.len = 0)
  BY <1>1, WhileWrite
<1>3. /\ accepted \in Nat /\ wire \in Seq(Nat) /\ ReaderHas \in Nat
      /\ Len(wire) \in Nat /\ Total \in Nat /\ shut \in BOOLEAN
  BY HasTyped, LenProperties, IOAssumption DEF IInv, TypeOK, WriterTyped
<1>4. PICK h \in Nat, l \in Nat, m \in Nat, p \in Nat, d \in Seq(Nat), a \in Nat :
        h = ReaderHas /\ l = w.len /\ m = w.min /\ p = w.base /\ d = w.data /\ a = accepted
  BY <1>2, <1>3
<1>5. /\ m <= l /\ Len(d) = l
      /\ p = 0 \/ (p < l /\ w.op = "really_write")
      /\ \A i \in 1..l : d[i] = a + i
      /\ a + l <= Total
  BY <1>2, <1>4 DEF SendFits
<1>6. PICK k \in Nat : k = l - p /\ p + k = l
  <2>1. l - p \in Nat /\ p + (l - p) = l
    BY <1>5
  <2> QED BY <2>1
<1>7. obuf = << >> /\ route.out # "channel"
  BY <1>1 DEF IInv, WriterRoute
<1>8. Len(obuf) = 0 /\ obuf \in Seq(Nat)
  BY <1>7, EmptySeq
<1>9. Numbered(wire, h) /\ h + Len(wire) = a + p
  <2>1. Numbered(wire, h) /\ h + Len(wire) + 0 - 0 = a + p
    BY <1>2, <1>4, <1>8 DEF IInv, WriterStream
  <2> QED BY <1>3, <2>1
<1>10. PICK g : g = SubSeq(d, p + 1, p + k)
  OBVIOUS
<1>11. g \in Seq(Nat) /\ Len(g) = k /\ Numbered(g, a + p)
  <2>1. p + k <= Len(d)
    BY <1>5, <1>6
  <2>2. IsPart(SubSeq(d, p + 1, p + k), d, p, k)
    BY <2>1, PartOf
  <2>3. IsPart(g, d, p, k)
    BY <1>10, <2>2
  <2>4. g \in Seq(Nat) /\ Len(g) = k /\ \A i \in 1..k : g[i] = d[p + i]
    BY <2>3 DEF IsPart
  <2>5. ASSUME NEW i \in 1..Len(g) PROVE g[i] = (a + p) + i
    <3>1. i \in 1..k /\ p + i \in 1..l
      BY <1>6, <2>4
    <3>2. g[i] = d[p + i] /\ d[p + i] = a + (p + i)
      BY <1>5, <2>4, <3>1
    <3> QED BY <3>1, <3>2
  <2> QED BY <2>4, <2>5 DEF Numbered
<1>12. /\ n \in 0..k /\ Len(wire) + n <= PipeSize
       /\ wire' \in Seq(Nat) /\ Len(wire') = Len(wire) + n /\ Numbered(wire', h)
       /\ n = 0 => k = 0
  <2>1. Put(g, n)
    BY <1>1, <1>4, <1>6, <1>10
  <2>2. Numbered(g, h + Len(wire))
    BY <1>9, <1>11
  <2> QED BY <1>3, <1>9, <1>11, <2>1, <2>2, PutContinues
<1>13. ReaderHas' = h
  BY <1>1, <1>4, HasStays
<1>14. AtEof => AtEof'
  <2>1. SUFFICES ASSUME shut, wire = << >> PROVE shut' /\ wire' = << >>
    BY DEF AtEof
  <2>2. l = 0
    BY <1>2, <1>4, <2>1
  <2>3. k = 0
    BY <1>5, <1>6, <2>2
  <2>4. Len(wire) = 0
    BY <2>1, EmptySeq
  <2>5. Len(wire') = 0
    BY <1>12, <2>3, <2>4
  <2> QED BY <1>1, <1>12, <2>1, <2>5, EmptySeq
<1>15. n \in Nat /\ p + n \in Nat /\ p + n <= l
  BY <1>6, <1>12
<1>16. CASE w.op = "really_write" /\ p + n < l
  <2>1. w' = [w EXCEPT !.base = p + n] /\ accepted' = accepted
    BY <1>4, <1>16 DEF WriteOk
  <2>2. /\ w' \in Sending /\ w'.pc = "write" /\ w'.op = "really_write" /\ w'.len = l
        /\ w'.min = m /\ w'.base = p + n /\ w'.data = d
    BY <1>2, <1>4, <1>15, <1>16, <2>1 DEF Sending
  <2>3. Skip(w') = 0 /\ Told(w') = p + n
    BY <2>2 DEF Skip, Told
  <2>4. WriterTyped'
    BY <1>1, <1>12, <2>1, <2>2 DEF IInv, TypeOK, WriterTyped
  <2>5. WriterFits'
    BY <1>4, <1>5, <1>16, <2>1, <2>2 DEF WriterFits, SendFits
  <2>6. PipeFits'
    BY <1>1, <1>2, <1>4, <1>12, <2>1, <2>2 DEF IInv, PipeFits
  <2>7. WriterRoute'
    BY <1>1, <1>7, <2>2, DescriptorRoute DEF IInv
  <2>8. WriterStream'
    <3>1. Len(obuf') = 0 /\ h + Len(wire') + 0 - 0 = accepted' + (p + n)
      <4>1. PICK x \in Nat : x = Len(wire)
        BY <1>3
      <4>2. h + (x + n) + 0 - 0 = a + (p + n)
        <5>1. h + x = a + p
          BY <1>9, <4>1
        <5> QED BY <1>15, <5>1
      <4> QED BY <1>1, <1>4, <1>8, <1>12, <2>1, <4>1, <4>2
    <3>2. \A i \in 1..0 - 0 : FALSE
      OBVIOUS
    <3> QED BY <1>12, <1>13, <2>3, <3>1, <3>2 DEF WriterStream
  <2> QED BY <1>1, <1>14, <2>4, <2>5, <2>6, <2>7, <2>8, WriterStep
<1>17. CASE ~(w.op = "really_write" /\ p + n < l)
  <2>1. w' = Idle /\ accepted' = accepted + p + n
    BY <1>4, <1>17 DEF WriteOk
  <2>2. w'.pc = "idle" /\ Skip(w') = 0 /\ Told(w') = 0
    BY <2>1 DEF Idle, Skip, Told
  <2>3. accepted' \in Nat /\ accepted' <= Total
    <3>1. accepted' = a + (p + n)
      BY <1>4, <1>15, <2>1
    <3> QED BY <1>3, <1>5, <1>15, <3>1
  <2>4. WriterTyped'
    BY <1>1, <1>8, <1>12, <2>1, <2>3 DEF IInv, TypeOK, WriterTyped
  <2>5. WriterFits'
    BY <2>2 DEF WriterFits
  <2>6. PipeFits'
    <3>1. shut => accepted' = Total
      <4>1. SUFFICES ASSUME shut PROVE accepted' = Total
        OBVIOUS
      <4>2. l = 0 /\ a = Total
        BY <1>2, <1>4, <4>1 DEF IInv, PipeFits
      <4>3. p = 0 /\ n = 0
        BY <1>5, <1>15, <4>2
      <4> QED BY <1>4, <2>1, <4>2, <4>3
    <3>2. Len(obuf) <= BufSize
      BY DEF IInv, PipeFits
    <3> QED BY <1>1, <1>7, <1>12, <2>2, <2>3, <3>1, <3>2 DEF PipeFits
  <2>7. WriterRoute'
    BY <1>1, <1>7, <2>2, DescriptorRoute DEF IInv
  <2>8. WriterStream'
    <3>1. Len(obuf') = 0 /\ h + Len(wire') + 0 - 0 = accepted' + 0
      <4>1. PICK x \in Nat : x = Len(wire)
        BY <1>3
      <4>2. h + (x + n) + 0 - 0 = a + p + n + 0
        <5>1. h + x = a + p
          BY <1>9, <4>1
        <5> QED BY <1>15, <5>1
      <4> QED BY <1>1, <1>4, <1>8, <1>12, <2>1, <4>1, <4>2
    <3>2. \A i \in 1..0 - 0 : FALSE
      OBVIOUS
    <3> QED BY <1>12, <1>13, <2>2, <3>1, <3>2 DEF WriterStream
  <2> QED BY <1>1, <1>14, <2>4, <2>5, <2>6, <2>7, <2>8, WriterStep
<1> QED BY <1>16, <1>17

LEMMA WriteFaultStep ==
  ASSUME IInv, NEW e, WriteFault(e) \/ SendBlocked
  PROVE  IInv'
<1>1. /\ w.pc = "write" /\ UNCHANGED <<route, wire, shut, obuf>> /\ UNCHANGED readerVars
      /\ w' = Idle
  BY DEF WriteFault, SendBlocked
<1>2. /\ w.len \in Nat /\ w.min \in Nat /\ w.base \in Nat
      /\ Skip(w) = 0 /\ Told(w) = w.base /\ SendFits(w)
      /\ accepted + w.len <= Total /\ (shut => w.len = 0)
  BY <1>1, WhileWrite
<1>3. accepted \in Nat /\ Total \in Nat
  BY IOAssumption DEF IInv, TypeOK, WriterTyped
<1>4. accepted' = accepted + w.base
  <2>1. CASE WriteFault(e)
    BY <2>1 DEF WriteFault
  <2>2. CASE SendBlocked
    <3>1. accepted' = accepted /\ w.op = "send"
      BY <2>2 DEF SendBlocked
    <3>2. w.base = 0
      BY <1>2, <3>1 DEF SendFits
    <3> QED BY <1>3, <3>1, <3>2
  <2> QED BY <2>1, <2>2
<1>5. PICK a \in Nat, l \in Nat, p \in Nat : a = accepted /\ l = w.len /\ p = w.base
  BY <1>2, <1>3
<1>6. p <= l /\ a + l <= Total /\ accepted' = a + p /\ (shut => l = 0)
  <2>1. p = 0 \/ p < l
    BY <1>2, <1>5 DEF SendFits
  <2>2. p <= l
    BY <2>1
  <2> QED BY <1>2, <1>4, <1>5, <2>2
<1>7. w'.pc = "idle" /\ Skip(w') = 0 /\ Told(w') = 0
  BY <1>1 DEF Idle, Skip, Told
<1>8. accepted' \in Nat /\ accepted' <= Total
  BY <1>3, <1>6
<1>9. WriterTyped'
  BY <1>1, <1>8 DEF IInv, TypeOK, WriterTyped
<1>10. WriterFits'
  BY <1>7 DEF WriterFits
<1>11. PipeFits'
  <2>1. shut => accepted' = Total
    <3>1. SUFFICES ASSUME shut PROVE accepted' = Total
      OBVIOUS
    <3>2. a = Total /\ p = 0
      BY <1>5, <1>6, <3>1 DEF IInv, PipeFits
    <3> QED BY <1>6, <3>2
  <2> QED BY <1>1, <1>7, <1>8, <2>1 DEF IInv, PipeFits
<1>12. WriterRoute'
  BY <1>1, <1>7, DescriptorRoute DEF IInv
<1>13. WriterStream'
  <2>1. ReaderHas' = ReaderHas
    BY <1>1, HasStays
  <2>2. ReaderHas + Len(wire) + Len(obuf) - 0 = accepted' + 0
    <3>1. ReaderHas + Len(wire) + Len(obuf) - 0 = a + p
      BY <1>2, <1>5 DEF IInv, WriterStream
    <3> QED BY <1>6, <3>1
  <2> QED BY <1>1, <1>2, <1>7, <2>1, <2>2 DEF IInv, WriterStream
<1>14. AtEof => AtEof'
  BY <1>1, EofOnlyByReading
<1> QED BY <1>1, <1>9, <1>10, <1>11, <1>12, <1>13, <1>14, WriterStep

LEMMA FlushStep ==
  ASSUME IInv, NEW n, FlushSome(n)
  PROVE  IInv'
<1>1. /\ w = Idle /\ accepted = Total /\ obuf # << >> /\ n > 0 /\ Put(obuf, n)
      /\ obuf' = SubSeq(obuf, n + 1, Len(obuf))
      /\ UNCHANGED <<route, shut, accepted, w>> /\ UNCHANGED readerVars
  BY DEF FlushSome
<1>2. /\ obuf \in Seq(Nat) /\ accepted \in Nat /\ wire \in Seq(Nat) /\ ReaderHas \in Nat
      /\ Len(wire) \in Nat /\ Len(obuf) \in Nat /\ shut \in BOOLEAN
  BY HasTyped, LenProperties DEF IInv, TypeOK, WriterTyped
<1>3. PICK h \in Nat, a \in Nat : h = ReaderHas /\ a = h + Len(wire)
  BY <1>2
<1>4. w.pc = "idle" /\ Skip(w) = 0 /\ Told(w) = 0
  BY <1>1, WhileIdle
<1>5. /\ Numbered(wire, h)
      /\ \A i \in 1..Len(obuf) - 0 : obuf[0 + i] = h + Len(wire) + i
      /\ h + Len(wire) + Len(obuf) - 0 = accepted + 0
  BY <1>3, <1>4 DEF IInv, WriterStream
<1>6. Numbered(obuf, a) /\ a + Len(obuf) = accepted
  <2>1. ASSUME NEW i \in 1..Len(obuf) PROVE obuf[i] = a + i
    <3>1. i \in 1..Len(obuf) - 0 /\ 0 + i = i
      BY <1>2
    <3> QED BY <1>3, <1>5, <3>1
  <2>2. a + Len(obuf) = accepted
    BY <1>2, <1>3, <1>5
  <2> QED BY <2>1, <2>2 DEF Numbered
<1>7. /\ n \in 0..Len(obuf) /\ Len(wire) + n <= PipeSize
      /\ wire' \in Seq(Nat) /\ Len(wire') = Len(wire) + n /\ Numbered(wire', h)
  <2>1. PICK g : g = obuf
    OBVIOUS
  <2>2. g \in Seq(Nat) /\ Len(g) = Len(obuf) /\ Numbered(g, h + Len(wire)) /\ Put(g, n)
    BY <1>1, <1>2, <1>3, <1>6, <2>1
  <2> QED BY <1>2, <1>5, <2>2, PutContinues
<1>8. PICK k \in Nat : k = Len(obuf) - n /\ n \in Nat /\ n + k = Len(obuf)
  <2>1. PICK y \in Nat : y = Len(obuf)
    BY <1>2
  <2>2. n \in Nat /\ y - n \in Nat /\ n + (y - n) = y
    BY <1>7, <2>1
  <2> QED BY <2>1, <2>2
<1>9. obuf' \in Seq(Nat) /\ Len(obuf') = k /\ \A i \in 1..k : obuf'[i] = obuf[n + i]
  <2>1. n + k <= Len(obuf)
    BY <1>2, <1>8
  <2>2. IsPart(SubSeq(obuf, n + 1, n + k), obuf, n, k)
    BY <1>2, <1>8, <2>1, PartOf
  <2>3. IsPart(obuf', obuf, n, k)
    BY <1>1, <1>8, <2>2
  <2> QED BY <2>3 DEF IsPart
<1>10. shut = FALSE
  BY <1>1, <1>2 DEF IInv, PipeFits
<1>11. WriterTyped'
  BY <1>1, <1>2, <1>7, <1>9 DEF IInv, TypeOK, WriterTyped
<1>12. WriterFits'
  BY <1>1, <1>4 DEF WriterFits
<1>13. PipeFits'
  <2>1. Len(obuf) <= BufSize /\ accepted <= Total /\ BufSize \in Nat
    BY IOAssumption DEF IInv, PipeFits
  <2>2. Len(obuf') <= BufSize
    BY <1>2, <1>8, <1>9, <2>1
  <2> QED BY <1>1, <1>4, <1>7, <1>10, <2>1, <2>2 DEF PipeFits
<1>14. WriterRoute'
  <2>1. route.out = "channel"
    BY <1>1 DEF IInv, WriterRoute
  <2> QED BY <1>1, <1>4, <2>1, ChannelRoute
<1>15. WriterStream'
  <2>1. ReaderHas' = h
    BY <1>1, <1>3, HasStays
  <2>2. ASSUME NEW i \in 1..Len(obuf') - 0 PROVE obuf'[0 + i] = h + Len(wire') + i
    <3>1. i \in 1..k /\ 0 + i = i /\ n + i \in 1..Len(obuf)
      BY <1>2, <1>8, <1>9
    <3>2. obuf'[i] = obuf[n + i] /\ obuf[n + i] = a + (n + i)
      BY <1>6, <1>9, <3>1 DEF Numbered
    <3>3. a + (n + i) = h + (Len(wire) + n) + i
      BY <1>2, <1>3, <1>8, <3>1
    <3> QED BY <1>7, <3>1, <3>2, <3>3
  <2>3. h + Len(wire') + Len(obuf') - 0 = accepted' + 0
    <3>1. PICK x \in Nat, y \in Nat, c \in Nat : x = Len(wire) /\ y = Len(obuf) /\ c = accepted
      BY <1>2
    <3>2. a = h + x /\ a + y = c /\ n + k = y
      BY <1>3, <1>6, <1>8, <3>1
    <3>3. h + (x + n) + k - 0 = c + 0
      BY <1>8, <3>2
    <3> QED BY <1>1, <1>7, <1>9, <3>1, <3>3
  <2> QED BY <1>1, <1>4, <1>7, <2>1, <2>2, <2>3 DEF WriterStream
<1>16. AtEof => AtEof'
  BY <1>10 DEF AtEof
<1> QED BY <1>1, <1>11, <1>12, <1>13, <1>14, <1>15, <1>16, WriterStep

LEMMA CloseStep ==
  ASSUME IInv, NEW e, StartClose \/ CloseOk \/ CloseFault(e)
  PROVE  IInv'
<1>1. /\ UNCHANGED <<route, wire, obuf, accepted>> /\ UNCHANGED readerVars
      /\ ~shut /\ obuf = << >> /\ accepted = Total
      /\ w' \in {Idle} \cup Closing /\ (w'.pc = "close" => ~shut')
      /\ shut' \in BOOLEAN
  <2>1. CASE StartClose
    <3>1. w' = [pc |-> "close", tries |-> 0] /\ shut' = shut
      BY <2>1 DEF StartClose
    <3>2. w' \in Closing
      BY <3>1 DEF Closing
    <3> QED BY <2>1, <3>1, <3>2 DEF StartClose, IInv, TypeOK, WriterTyped
  <2>2. CASE CloseOk
    <3>1. w' = Idle /\ w'.pc = "idle" /\ w.pc = "close" /\ shut' = TRUE
      BY <2>2 DEF CloseOk, Idle
    <3> QED BY <2>2, <3>1 DEF CloseOk, IInv, PipeFits
  <2>3. CASE CloseFault(e)
    <3>1. w.pc = "close" /\ shut' = shut
      BY <2>3 DEF CloseFault
    <3>2. w \in Closing
      BY <3>1 DEF IInv, TypeOK, WriterTyped, Idle, Closing, Sending, Writing
    <3>3. \/ w' = Idle
          \/ w' = [w EXCEPT !.tries = @ + 1]
      BY <2>3 DEF CloseFault
    <3>4. w' \in {Idle} \cup Closing
      BY <3>2, <3>3 DEF Closing
    <3> QED BY <2>3, <3>1, <3>4 DEF CloseFault, IInv, PipeFits, TypeOK, WriterTyped
  <2> QED BY <2>1, <2>2, <2>3
<1>2. w'.pc \in {"idle", "close"}
  BY <1>1 DEF Idle, Closing
<1>3. Skip(w') = 0 /\ Told(w') = 0
  BY <1>2 DEF Skip, Told
<1>4. Skip(w) = 0 /\ Told(w) = 0
  <2>1. CASE w.pc = "close"
    BY <2>1 DEF Skip, Told
  <2>2. CASE w.pc # "close"
    <3>1. StartClose
      BY <2>2 DEF CloseOk, CloseFault
    <3>2. w = Idle
      BY <3>1 DEF StartClose
    <3> QED BY <3>2, WhileIdle
  <2> QED BY <2>1, <2>2
<1>5. WriterTyped'
  BY <1>1 DEF IInv, TypeOK, WriterTyped
<1>6. WriterFits'
  BY <1>2 DEF WriterFits
<1>7. PipeFits'
  BY <1>1, <1>2 DEF IInv, PipeFits
<1>8. WriterRoute'
  BY <1>1, <1>2, DescriptorRoute DEF IInv
<1>9. WriterStream'
  <2>1. ReaderHas' = ReaderHas
    BY <1>1, HasStays
  <2> QED BY <1>1, <1>3, <1>4, <2>1 DEF IInv, WriterStream
<1>10. AtEof => AtEof'
  BY <1>1 DEF AtEof
<1> QED BY <1>1, <1>5, <1>6, <1>7, <1>8, <1>9, <1>10, WriterStep

-----------------------------------------------------------------------------
(* The reader's steps: n bytes leave the wire from its start.              *)
WireLoses(n) ==
  /\ n \in Nat /\ n <= Len(wire)
  /\ wire' \in Seq(Nat) /\ Len(wire') = Len(wire) - n
  /\ \A i \in 1..(Len(wire) - n) : wire'[i] = wire[n + i]

LEMMA WireStays ==
  ASSUME wire \in Seq(Nat), wire' = wire
  PROVE  WireLoses(0)
<1>1. PICK x \in Nat : x = Len(wire)
  BY LenProperties
<1>2. x - 0 = x /\ 0 <= x /\ \A i \in 1..x : 0 + i = i
  OBVIOUS
<1> QED BY <1>1, <1>2 DEF WireLoses

LEMMA TakeLoses ==
  ASSUME wire \in Seq(Nat), NEW len \in Nat, NEW n, Take(len, n)
  PROVE  n \in 1..len /\ WireLoses(n)
<1>1. /\ n \in 1..len /\ n <= Len(wire)
      /\ wire' \in Seq(Nat) /\ Len(wire') = Len(wire) - n
      /\ \A i \in 1..(Len(wire) - n) : wire'[i] = wire[n + i]
  BY TakeRemoves
<1> QED BY <1>1 DEF WireLoses

LEMMA ReaderStep ==
  ASSUME IInv, UNCHANGED <<route, shut>>, UNCHANGED writerVars, NEW n, WireLoses(n),
         ReaderHas' = ReaderHas + n,
         ReaderTyped', ReaderFits', ReaderRoute', ReaderStream'
  PROVE  IInv'
<1>1. /\ n \in Nat /\ n <= Len(wire)
      /\ wire' \in Seq(Nat) /\ Len(wire') = Len(wire) - n
      /\ \A i \in 1..(Len(wire) - n) : wire'[i] = wire[n + i]
  BY DEF WireLoses
<1>2. wire \in Seq(Nat) /\ Len(wire) \in Nat /\ ReaderHas \in Nat
  BY LenProperties, HasTyped DEF IInv, TypeOK, WriterTyped
<1>3. PICK h \in Nat, x \in Nat : h = ReaderHas /\ x = Len(wire)
  BY <1>2
<1>4. ReaderHas' = h + n /\ Len(wire') = x - n /\ n <= x /\ PipeSize \in Nat
  BY <1>1, <1>3, IOAssumption
<1>5. WriterTyped' /\ WriterFits' /\ WriterRoute'
  BY <1>1 DEF IInv, TypeOK, WriterTyped, WriterFits, OutputFits, SendFits, WriterRoute, writerVars
<1>6. PipeFits'
  <2>1. x <= PipeSize
    BY <1>3 DEF IInv, PipeFits
  <2>2. Len(wire') <= PipeSize
    BY <1>1, <1>4, <2>1
  <2> QED BY <2>2 DEF IInv, PipeFits, writerVars
<1>7. Numbered(wire', h + n)
  <2>1. ASSUME NEW i \in 1..Len(wire') PROVE wire'[i] = (h + n) + i
    <3>1. i \in 1..(Len(wire) - n) /\ n + i \in 1..Len(wire)
      BY <1>1, <1>3, <1>4
    <3>2. wire[n + i] = h + (n + i)
      BY <1>3, <3>1 DEF IInv, WriterStream, Numbered
    <3>3. h + (n + i) = (h + n) + i
      BY <1>1, <3>1
    <3> QED BY <1>1, <3>1, <3>2, <3>3
  <2> QED BY <2>1 DEF Numbered
<1>8. WriterStream'
  <2>1. /\ \A i \in 1..Len(obuf) - Skip(w) : obuf[Skip(w) + i] = h + x + i
        /\ h + x + Len(obuf) - Skip(w) = accepted + Told(w)
    BY <1>3 DEF IInv, WriterStream
  <2>2. (h + n) + (x - n) = h + x
    BY <1>1
  <2>3. UNCHANGED <<obuf, accepted, w>>
    BY DEF writerVars
  <2> QED BY <1>4, <1>7, <2>1, <2>2, <2>3 DEF WriterStream
<1> QED BY <1>5, <1>6, <1>7, <1>8 DEF IInv, TypeOK

(* The bytes in f from lo on follow a.                                     *)
Piece(f, lo, hi, a) == \A i \in 0..(hi - lo) - 1 : f[lo + i] = a + i + 1

LEMMA DeliverNumbered ==
  ASSUME delivered \in Seq(Nat), NumberedBut(delivered, 0, astray), astray \subseteq astray',
         bstr' \in [0..Window - 1 -> Nat],
         NEW k \in 0..Window, Deliver(k), Stretch(bstr', k, Len(delivered), astray')
  PROVE  /\ delivered' \in Seq(Nat) /\ Len(delivered') = Len(delivered) + k
         /\ NumberedBut(delivered', 0, astray')
<1>1. /\ delivered' \in Seq(Nat) /\ Len(delivered') = Len(delivered) + k
      /\ \A i \in 1..Len(delivered) : delivered'[i] = delivered[i]
      /\ \A i \in 1..k : delivered'[Len(delivered) + i] = bstr'[i - 1]
  BY DeliverAdds
<1>2. PICK d \in Nat : d = Len(delivered)
  BY LenProperties
<1>3. k \in Nat
  BY IOAssumption
<1>4. ASSUME NEW i \in 1..Len(delivered') PROVE delivered'[i] = 0 + i \/ 0 + i \in astray'
  <2>1. CASE i <= d
    <3>1. i \in 1..Len(delivered)
      BY <1>2, <2>1
    <3> QED BY <1>1, <3>1 DEF NumberedBut
  <2>2. CASE ~(i <= d)
    <3>1. PICK j \in 1..k : i = d + j
      <4>1. i - d \in 1..k /\ i = d + (i - d)
        BY <1>1, <1>2, <1>3, <2>2
      <4> QED BY <4>1
    <3>2. delivered'[i] = bstr'[j - 1]
      BY <1>1, <1>2, <3>1
    <3>3. j - 1 \in 0..k - 1
      BY <1>3
    <3>4. bstr'[j - 1] = d + (j - 1) + 1 \/ d + (j - 1) + 1 \in astray'
      BY <1>2, <3>3 DEF Stretch
    <3>5. d + (j - 1) + 1 = 0 + i
      BY <3>1
    <3> QED BY <3>2, <3>4, <3>5
  <2> QED BY <2>1, <2>2
<1> QED BY <1>1, <1>4 DEF NumberedBut

(* A call ends: k bytes are delivered, and what is left of those that it   *)
(* took from the wire is in the channel's buffer.                          *)
LEMMA EndStep ==
  ASSUME IInv, UNCHANGED <<route, shut>>, UNCHANGED writerVars, NEW n, WireLoses(n),
         r' \in {Idle, Stopped},
         ibuf' \in [0..BufSize - 1 -> Nat], curr' \in Nat, max' \in Nat,
         curr' <= max', max' <= BufSize, route.in # "channel" => curr' = max',
         bstr' \in [0..Window - 1 -> Nat], NEW k \in 0..Window, Deliver(k),
         astray \subseteq astray', Stretch(bstr', k, Len(delivered), astray'),
         Piece(ibuf', curr', max', Len(delivered) + k),
         Len(delivered) + k + (max' - curr') = ReaderHas + n
  PROVE  IInv'
<1>1. delivered \in Seq(Nat) /\ NumberedBut(delivered, 0, astray)
  BY DEF IInv, TypeOK, ReaderTyped, ReaderStream
<1>2. /\ delivered' \in Seq(Nat) /\ Len(delivered') = Len(delivered) + k
      /\ NumberedBut(delivered', 0, astray')
  BY <1>1, DeliverNumbered
<1>3. r'.pc \in {"idle", "stopped"}
  BY DEF Idle, Stopped
<1>4. HeldBytes(r') = 0 /\ Left(r', curr', max') = max' - curr'
  BY <1>3 DEF HeldBytes, Left
<1>5. PICK e \in Nat : e = Len(delivered) + k
  <2>1. Len(delivered) \in Nat /\ k \in Nat
    BY <1>1, LenProperties, IOAssumption
  <2> QED BY <2>1
<1>6. ReaderTyped'
  BY <1>2 DEF ReaderTyped
<1>7. ReaderFits'
  BY <1>3 DEF ReaderFits
<1>8. ReaderRoute'
  BY <1>3 DEF ReaderRoute
<1>9. ReaderHas' = ReaderHas + n
  <2>1. ReaderHas' = e + 0 + (max' - curr')
    BY <1>2, <1>4, <1>5 DEF ReaderHas
  <2>2. e + (max' - curr') = ReaderHas + n
    BY <1>5
  <2>3. e + 0 = e
    BY <1>5
  <2> QED BY <2>1, <2>2, <2>3
<1>10. ReaderStream'
  <2>1. ASSUME NEW i \in 0..Left(r', curr', max') - 1
        PROVE  ibuf'[curr' + i] = Len(delivered') + HeldBytes(r') + i + 1
    <3>1. i \in 0..(max' - curr') - 1
      BY <1>4
    <3>2. ibuf'[curr' + i] = e + i + 1
      BY <1>5, <3>1 DEF Piece
    <3>3. Len(delivered') + HeldBytes(r') = e
      BY <1>2, <1>4, <1>5
    <3> QED BY <3>2, <3>3
  <2>2. \A i \in 0..HeldBytes(r') - 1 : FALSE
    BY <1>4
  <2> QED BY <1>2, <2>1, <2>2 DEF ReaderStream, Stretch
<1> QED BY <1>6, <1>7, <1>8, <1>9, <1>10, ReaderStep

(* A call goes on, or begins, with what it has got in its bigstring and    *)
(* nothing in the channel's buffer.                                        *)
LEMMA OnStep ==
  ASSUME IInv, UNCHANGED <<route, shut>>, UNCHANGED writerVars, NEW n, WireLoses(n),
         r' \in Filling \cup Reading, ReaderFits', ReaderRoute',
         ibuf' \in [0..BufSize - 1 -> Nat], curr' \in Nat, max' \in Nat,
         bstr' \in [0..Window - 1 -> Nat], delivered' = delivered,
         NEW k \in Nat, HeldBytes(r') = k, astray \subseteq astray',
         Stretch(bstr', k, Len(delivered), astray'),
         Len(delivered) + k = ReaderHas + n
  PROVE  IInv'
<1>1. delivered \in Seq(Nat) /\ NumberedBut(delivered, 0, astray)
  BY DEF IInv, TypeOK, ReaderTyped, ReaderStream
<1>2. PICK d \in Nat : d = Len(delivered)
  BY <1>1, LenProperties
<1>3. r'.pc \in {"readv", "read"} /\ (r'.pc = "read" => route.in # "channel")
  BY DEF Filling, Reading, ReaderRoute
<1>4. Left(r', curr', max') = 0
  <2>1. CASE r'.pc = "readv"
    BY <2>1 DEF Left
  <2>2. CASE r'.pc = "read"
    <3>1. curr' = max'
      BY <1>3, <2>2 DEF ReaderRoute
    <3>2. PICK m \in Nat : m = max'
      OBVIOUS
    <3>3. m - m = 0
      OBVIOUS
    <3> QED BY <2>2, <3>1, <3>2, <3>3 DEF Left
  <2> QED BY <1>3, <2>1, <2>2
<1>5. ReaderTyped'
  BY <1>1 DEF ReaderTyped
<1>6. ReaderHas' = ReaderHas + n
  <2>1. ReaderHas' = d + k + 0
    BY <1>2, <1>4 DEF ReaderHas
  <2>2. d + k + 0 = d + k
    OBVIOUS
  <2> QED BY <1>2, <2>1, <2>2
<1>7. ReaderStream'
  <2>1. \A i \in 0..0 - 1 : FALSE
    OBVIOUS
  <2>2. NumberedBut(delivered', 0, astray')
    BY <1>1 DEF NumberedBut
  <2>3. Stretch(bstr', HeldBytes(r'), Len(delivered'), astray')
    OBVIOUS
  <2> QED BY <1>4, <2>1, <2>2, <2>3 DEF ReaderStream
<1> QED BY <1>5, <1>6, <1>7, ReaderStep

(* What is known of the reader between calls and during them.              *)
LEMMA ReaderRigid ==
  ASSUME IInv
  PROVE  /\ curr \in Nat /\ max \in Nat /\ curr <= max /\ max <= BufSize
         /\ ibuf \in [0..BufSize - 1 -> Nat] /\ bstr \in [0..Window - 1 -> Nat]
         /\ delivered \in Seq(Nat) /\ Len(delivered) \in Nat /\ ReaderHas \in Nat
         /\ wire \in Seq(Nat) /\ Len(wire) \in Nat /\ shut \in BOOLEAN
         /\ {Window, BufSize} \subseteq Nat
         /\ \A i \in 1..Len(wire) : wire[i] = ReaderHas + i
<1>1. /\ curr \in Nat /\ max \in Nat /\ curr <= max /\ max <= BufSize
      /\ ibuf \in [0..BufSize - 1 -> Nat] /\ bstr \in [0..Window - 1 -> Nat]
      /\ delivered \in Seq(Nat) /\ wire \in Seq(Nat) /\ shut \in BOOLEAN
  BY DEF IInv, TypeOK, ReaderTyped, WriterTyped, ReaderFits
<1>2. Len(delivered) \in Nat /\ Len(wire) \in Nat /\ ReaderHas \in Nat
  BY <1>1, LenProperties, HasTyped
<1>3. \A i \in 1..Len(wire) : wire[i] = ReaderHas + i
  BY DEF IInv, WriterStream, Numbered
<1> QED BY <1>1, <1>2, <1>3, IOAssumption

LEMMA WhileReaderIdle ==
  ASSUME IInv, r = Idle
  PROVE  /\ HeldBytes(r) = 0 /\ ReaderHas = Len(delivered) + (max - curr)
         /\ Piece(ibuf, curr, max, Len(delivered))
<1>1. r.pc = "idle"
  BY DEF Idle
<1>2. HeldBytes(r) = 0 /\ Left(r, curr, max) = max - curr
  BY <1>1 DEF HeldBytes, Left
<1>3. Len(delivered) \in Nat /\ max - curr \in Nat
  BY ReaderRigid
<1>4. ReaderHas = Len(delivered) + 0 + (max - curr)
  BY <1>2 DEF ReaderHas
<1>5. PICK d \in Nat : d = Len(delivered)
  BY <1>3
<1>6. d + 0 = d
  OBVIOUS
<1>7. \A i \in 0..(max - curr) - 1 : ibuf[curr + i] = d + 0 + i + 1
  BY <1>2, <1>5 DEF IInv, ReaderStream
<1> QED BY <1>2, <1>4, <1>5, <1>6, <1>7 DEF Piece

LEMMA WhileReadv ==
  ASSUME IInv, r.pc = "readv"
  PROVE  /\ r \in Filling /\ InputFits(r)
         /\ r.len \in Nat /\ r.min \in Nat /\ r.base \in Nat /\ r.iov_len \in Nat
         /\ ReaderHas = Len(delivered) + r.base /\ route.in = "channel"
         /\ Stretch(bstr, r.base, Len(delivered), astray)
<1>1. r \in Filling
  BY DEF IInv, TypeOK, ReaderTyped, Idle, Stopped, Filling, Reading
<1>2. r.len \in Nat /\ r.min \in Nat /\ r.base \in Nat /\ r.iov_len \in Nat
  BY <1>1 DEF Filling
<1>3. HeldBytes(r) = r.base /\ Left(r, curr, max) = 0
  BY DEF HeldBytes, Left
<1>4. PICK d \in Nat, b \in Nat : d = Len(delivered) /\ b = r.base
  BY <1>2, ReaderRigid
<1>5. ReaderHas = d + b + 0 /\ d + b + 0 = d + b
  BY <1>3, <1>4 DEF ReaderHas
<1>6. Stretch(bstr, r.base, Len(delivered), astray)
  BY <1>3 DEF IInv, ReaderStream
<1> QED BY <1>1, <1>2, <1>4, <1>5, <1>6 DEF IInv, ReaderFits, ReaderRoute

LEMMA WhileRead ==
  ASSUME IInv, r.pc = "read"
  PROVE  /\ r \in Reading /\ ReadFits(r)
         /\ r.len \in Nat /\ r.min \in Nat /\ r.base \in Nat /\ r.left \in Nat
         /\ Good(r) \in Nat /\ Good(r) = r.len - r.left /\ r.left <= r.len /\ r.len <= Window
         /\ ReaderHas = Len(delivered) + Good(r)
         /\ route.in # "channel" /\ curr = max
         /\ Stretch(bstr, Good(r), Len(delivered), astray)
<1>1. r \in Reading
  BY DEF IInv, TypeOK, ReaderTyped, Idle, Stopped, Filling, Reading
<1>2. r.len \in Nat /\ r.min \in Nat /\ r.base \in Nat /\ r.left \in Nat
  BY <1>1 DEF Reading
<1>3. ReadFits(r) /\ r.left <= r.len /\ r.len <= Window
  BY DEF IInv, ReaderFits, ReadFits
<1>4. Good(r) \in Nat /\ Good(r) = r.len - r.left
  BY <1>2, <1>3 DEF Good
<1>5. route.in # "channel" /\ curr = max
  BY DEF IInv, ReaderRoute
<1>6. HeldBytes(r) = Good(r) /\ Left(r, curr, max) = 0
  <2>1. max \in Nat /\ max - max = 0
    BY ReaderRigid
  <2> QED BY <1>5, <2>1 DEF HeldBytes, Left
<1>7. PICK d \in Nat, b \in Nat : d = Len(delivered) /\ b = Good(r)
  BY <1>4, ReaderRigid
<1>8. ReaderHas = d + b + 0 /\ d + b + 0 = d + b
  BY <1>6, <1>7 DEF ReaderHas
<1>9. Stretch(bstr, Good(r), Len(delivered), astray)
  BY <1>6 DEF IInv, ReaderStream
<1> QED BY <1>1, <1>2, <1>3, <1>4, <1>5, <1>7, <1>8, <1>9

(* A new input takes what is in the channel's buffer, or as much of it as  *)
(* was asked for.                                                          *)
LEMMA StartInputStep ==
  ASSUME IInv, NEW q \in ReadAsks, StartInput(q)
  PROVE  IInv'
<1>1. /\ r = Idle /\ q.op = "input" /\ route.in = "channel"
      /\ UNCHANGED <<route, shut>> /\ UNCHANGED writerVars /\ wire' = wire
      /\ UNCHANGED <<ibuf, max, astray>>
  BY DEF StartInput
<1>2. PICK l \in Nat, m \in Nat, c \in Nat, x \in Nat, d \in Nat, h \in Nat :
        /\ l = q.len /\ m = q.min /\ m <= l /\ 2 * l <= Window /\ Window \in Nat
        /\ c = curr /\ x = max /\ d = Len(delivered) /\ h = ReaderHas
        /\ c <= x /\ x <= BufSize /\ BufSize \in Nat
  <2>1. q.len \in Nat /\ q.min \in Nat /\ q.min <= q.len /\ 2 * q.len <= Window
    BY IOAssumption
  <2> QED BY <2>1, ReaderRigid
<1>3. /\ h = d + (x - c) /\ Piece(ibuf, c, x, d)
      /\ ibuf \in [0..BufSize - 1 -> Nat] /\ wire \in Seq(Nat)
  BY <1>1, <1>2, WhileReaderIdle, ReaderRigid
<1>4. PICK t \in Nat : t = Smaller(l, x - c) /\ t <= l /\ t <= x - c /\ (t = l \/ t = x - c)
  <2>1. x - c \in Nat
    BY <1>2
  <2> QED BY <2>1 DEF Smaller
<1>5. bstr' = [i \in 0..Window - 1 |-> IF i < t THEN ibuf[c + i] ELSE 0]
  BY <1>2, <1>4 DEF StartInput
<1>6. bstr' \in [0..Window - 1 -> Nat]
  <2>1. ASSUME NEW i \in 0..Window - 1, i < t PROVE ibuf[c + i] \in Nat
    <3>1. c + i \in 0..BufSize - 1
      BY <1>2, <1>4, <2>1
    <3> QED BY <1>3, <3>1
  <2> QED BY <1>5, <2>1
<1>7. Stretch(bstr', t, d, astray')
  <2>1. ASSUME NEW i \in 0..t - 1 PROVE bstr'[i] = d + i + 1
    <3>1. i \in 0..Window - 1 /\ i < t /\ i \in 0..(x - c) - 1
      BY <1>2, <1>4
    <3>2. bstr'[i] = ibuf[c + i]
      BY <1>5, <3>1
    <3>3. ibuf[c + i] = d + i + 1
      BY <1>3, <3>1 DEF Piece
    <3> QED BY <3>2, <3>3
  <2> QED BY <2>1 DEF Stretch
<1>8. WireLoses(0)
  BY <1>1, <1>3, WireStays
<1>9. CASE x - c > 0 /\ l <= x - c
  <2>1. curr' = c + t /\ r' = r /\ Deliver(l)
    BY <1>2, <1>4, <1>9 DEF StartInput
  <2>2. t = l
    BY <1>2, <1>4, <1>9
  <2>3. l \in 0..Window
    BY <1>2
  <2>4. c + t \in Nat /\ c + t <= x /\ d + l + (x - (c + t)) = h + 0
    <3>1. h = d + (x - c) /\ t <= x - c /\ c <= x
      BY <1>2, <1>3, <1>4
    <3> QED BY <2>2, <3>1
  <2>5. Piece(ibuf, c + t, x, d + l)
    <3>1. ASSUME NEW i \in 0..(x - (c + t)) - 1 PROVE ibuf[(c + t) + i] = (d + l) + i + 1
      <4>1. PICK j \in 0..(x - c) - 1 : j = t + i
        BY <1>2, <1>4
      <4>2. ibuf[c + j] = d + j + 1
        BY <1>3 DEF Piece
      <4>3. c + j = (c + t) + i /\ d + j + 1 = (d + l) + i + 1
        BY <2>2, <4>1
      <4> QED BY <4>2, <4>3
    <3> QED BY <3>1 DEF Piece
  <2>6. /\ r' \in {Idle, Stopped} /\ ibuf' \in [0..BufSize - 1 -> Nat]
        /\ curr' \in Nat /\ max' \in Nat /\ curr' <= max' /\ max' <= BufSize
        /\ Stretch(bstr', l, Len(delivered), astray')
        /\ Piece(ibuf', curr', max', Len(delivered) + l)
        /\ Len(delivered) + l + (max' - curr') = ReaderHas + 0
    BY <1>1, <1>2, <1>3, <1>7, <2>1, <2>2, <2>4, <2>5
  <2>7. route.in # "channel" => curr' = max'
    BY <1>1
  <2> QED BY <1>1, <1>6, <1>8, <2>1, <2>3, <2>6, <2>7, EndStep
<1>10. CASE ~(x - c > 0 /\ l <= x - c)
  <2>1. /\ r' = [pc |-> "readv", op |-> q.op, len |-> l, min |-> m,
                 base |-> t, iov_len |-> l - t]
        /\ curr' = curr /\ delivered' = delivered
    BY <1>2, <1>4, <1>10 DEF StartInput
  <2>2. t = x - c /\ l - t \in Nat /\ t + (l - t) = l /\ (t < l \/ l = 0)
    <3>1. t <= l /\ t <= x - c /\ (t = l \/ t = x - c)
      BY <1>4
    <3> QED BY <1>10, <3>1
  <2>3. /\ r' \in Filling /\ r'.pc = "readv" /\ r'.len = l /\ r'.min = m
        /\ r'.base = t /\ r'.iov_len = l - t
    BY <1>1, <2>1, <2>2 DEF Filling
  <2>4. HeldBytes(r') = t
    BY <2>3 DEF HeldBytes
  <2>5. l <= Window
    BY <1>2
  <2>6. ReaderFits'
    BY <1>1, <1>2, <2>1, <2>2, <2>3, <2>5 DEF ReaderFits, InputFits
  <2>7. ReaderRoute'
    BY <1>1, <2>3 DEF ReaderRoute
  <2>8. d + t = h + 0
    BY <1>3, <2>2
  <2>9. /\ curr' \in Nat /\ max' \in Nat /\ ibuf' \in [0..BufSize - 1 -> Nat]
        /\ Stretch(bstr', t, Len(delivered), astray') /\ Len(delivered) + t = ReaderHas + 0
    BY <1>1, <1>2, <1>3, <1>7, <2>1, <2>8
  <2> QED BY <1>1, <1>6, <1>8, <2>1, <2>3, <2>4, <2>6, <2>7, <2>9, OnStep
<1> QED BY <1>9, <1>10

(* What a call stores behind the bytes that it has continues them.         *)
LEMMA StoredContinues ==
  ASSUME NEW b \in Nat, NEW n \in Nat, b + n <= Window, Window \in Nat, wire \in Seq(Nat),
         n <= Len(wire), bstr \in [0..Window - 1 -> Nat], NEW d \in Nat, NEW X,
         Stretch(bstr, b, d, X), Numbered(wire, d + b)
  PROVE  /\ Stored(b, n) \in [0..Window - 1 -> Nat]
         /\ Stretch(Stored(b, n), b + n, d, X)
<1>1. PICK y \in Nat : y = Len(wire)
  BY LenProperties
<1>2. Stored(b, n) = [i \in 0..Window - 1 |->
                        IF i \in b..b + n - 1 THEN wire[i - b + 1] ELSE bstr[i]]
  BY DEF Stored
<1>3. ASSUME NEW i \in b..b + n - 1
      PROVE  wire[i - b + 1] = d + i + 1 /\ i \in 0..Window - 1
  <2>1. PICK j \in 1..y : j = i - b + 1
    BY <1>1
  <2>2. wire[j] = d + b + j
    BY <1>1 DEF Numbered
  <2>3. d + b + j = d + i + 1 /\ i \in 0..Window - 1
    BY <2>1
  <2> QED BY <2>1, <2>2, <2>3
<1>4. Stored(b, n) \in [0..Window - 1 -> Nat]
  <2>1. ASSUME NEW i \in b..b + n - 1 PROVE wire[i - b + 1] \in Nat
    <3>1. wire[i - b + 1] = d + i + 1 /\ d + i + 1 \in Nat
      BY <1>3
    <3> QED BY <3>1
  <2> QED BY <1>2, <2>1
<1>5. ASSUME NEW i \in 0..(b + n) - 1 PROVE Stored(b, n)[i] = d + i + 1 \/ d + i + 1 \in X
  <2>1. i \in 0..Window - 1
    OBVIOUS
  <2>2. CASE i \in b..b + n - 1
    BY <1>2, <1>3, <2>1, <2>2
  <2>3. CASE i \notin b..b + n - 1
    <3>1. i \in 0..b - 1
      BY <2>3
    <3>2. Stored(b, n)[i] = bstr[i]
      BY <1>2, <2>1, <2>3
    <3> QED BY <3>1, <3>2 DEF Stretch
  <2> QED BY <2>2, <2>3
<1> QED BY <1>4, <1>5 DEF Stretch

(* A readv fills the bigstring before the channel's buffer.                *)
LEMMA ReadvStep ==
  ASSUME IInv, NEW n, ReadvOk(n)
  PROVE  IInv'
<1>1. /\ r.pc = "readv" /\ Take(r.iov_len + BufSize, n)
      /\ UNCHANGED <<route, shut, astray>> /\ UNCHANGED writerVars
  BY DEF ReadvOk
<1>2. /\ r \in Filling /\ InputFits(r)
      /\ r.len \in Nat /\ r.min \in Nat /\ r.base \in Nat /\ r.iov_len \in Nat
      /\ ReaderHas = Len(delivered) + r.base /\ route.in = "channel"
      /\ Stretch(bstr, r.base, Len(delivered), astray)
  BY <1>1, WhileReadv
<1>3. PICK l \in Nat, m \in Nat, b \in Nat, v \in Nat, x \in Nat, d \in Nat, h \in Nat, y \in Nat :
        /\ l = r.len /\ m = r.min /\ b = r.base /\ v = r.iov_len
        /\ x = max /\ d = Len(delivered) /\ h = ReaderHas /\ y = Len(wire)
  BY <1>2, ReaderRigid
<1>4. /\ m <= l /\ l <= Window /\ b + v = l /\ (b < l \/ l = 0) /\ h = d + b
      /\ Stretch(bstr, b, d, astray)
  BY <1>2, <1>3 DEF InputFits
<1>5. /\ wire \in Seq(Nat) /\ ibuf \in [0..BufSize - 1 -> Nat] /\ x <= BufSize
      /\ bstr \in [0..Window - 1 -> Nat] /\ BufSize \in Nat /\ Window \in Nat
      /\ Numbered(wire, h)
  BY <1>3, ReaderRigid DEF Numbered
<1>6. n \in 1..(v + BufSize) /\ WireLoses(n) /\ n <= y
  <2>1. v + BufSize \in Nat
    BY <1>5
  <2>2. n \in 1..(v + BufSize) /\ WireLoses(n)
    BY <1>1, <1>3, <1>5, <2>1, TakeLoses
  <2> QED BY <1>3, <2>2 DEF WireLoses
<1>7. PICK t \in Nat : /\ t = Smaller(n, v) /\ t <= n /\ t <= v /\ (t = n \/ t = v)
                       /\ n \in Nat
  BY <1>5, <1>6 DEF Smaller
<1>8. /\ bstr' = Stored(b, t)
      /\ ibuf' = [i \in 0..BufSize - 1 |-> IF i < n - t THEN wire[t + i + 1] ELSE ibuf[i]]
  BY <1>3, <1>7 DEF ReadvOk
<1>9. bstr' \in [0..Window - 1 -> Nat] /\ Stretch(bstr', b + t, d, astray')
  <2>1. b + t <= Window /\ t <= Len(wire)
    <3>1. t <= y
      BY <1>6, <1>7
    <3>2. PICK z \in Nat : z = Window
      BY <1>5
    <3>3. l <= z /\ b + v = l /\ t <= v
      BY <1>4, <1>7, <3>2
    <3>4. b + t <= z
      BY <3>3
    <3> QED BY <1>3, <3>1, <3>2, <3>4
  <2>2. Numbered(wire, d + b)
    BY <1>4, <1>5
  <2>3. Stored(b, t) \in [0..Window - 1 -> Nat] /\ Stretch(Stored(b, t), b + t, d, astray)
    BY <1>4, <1>5, <2>1, <2>2, StoredContinues
  <2>4. astray' = astray
    BY <1>1
  <2> QED BY <1>8, <2>3, <2>4
<1>10. ibuf' \in [0..BufSize - 1 -> Nat] /\ Piece(ibuf', 0, n - t, h + t)
  <2>1. ASSUME NEW i \in 0..(n - t) - 1 PROVE wire[t + i + 1] = (h + t) + i + 1
    <3>1. t + i + 1 \in 1..y
      BY <1>6, <1>7
    <3>2. wire[t + i + 1] = h + (t + i + 1)
      BY <1>3, <1>5, <3>1 DEF Numbered
    <3>3. h + (t + i + 1) = (h + t) + i + 1
      BY <1>7
    <3> QED BY <3>2, <3>3
  <2>2. ASSUME NEW i \in 0..BufSize - 1 PROVE ibuf'[i] \in Nat
    <3>1. CASE i < n - t
      <4>1. i \in 0..(n - t) - 1
        BY <1>7, <3>1
      <4>2. ibuf'[i] = (h + t) + i + 1
        BY <1>8, <2>1, <3>1, <4>1
      <4> QED BY <1>7, <4>2
    <3>2. CASE ~(i < n - t)
      BY <1>5, <1>8, <3>2
    <3> QED BY <3>1, <3>2
  <2>3. ibuf' \in [0..BufSize - 1 -> Nat]
    BY <1>8, <2>2
  <2>4. ASSUME NEW i \in 0..((n - t) - 0) - 1 PROVE ibuf'[0 + i] = (h + t) + i + 1
    <3>1. i \in 0..(n - t) - 1 /\ 0 + i = i /\ i \in 0..BufSize - 1 /\ i < n - t
      BY <1>5, <1>6, <1>7
    <3> QED BY <1>8, <2>1, <3>1
  <2> QED BY <2>3, <2>4 DEF Piece
<1>11. CASE b + n >= m /\ n > v
  <2>1. max' = n - v /\ curr' = 0 /\ EndInput(l, "none")
    BY <1>3, <1>7, <1>11 DEF ReadvOk
  <2>2. r' = Idle /\ Deliver(l)
    BY <2>1 DEF EndInput
  <2>3. t = v /\ b + t = l /\ h + t = d + l
    BY <1>4, <1>7, <1>11
  <2>4. n - v \in Nat /\ n - v <= BufSize /\ 0 <= n - v /\ d + l + ((n - v) - 0) = h + n
    <3>1. n \in Nat /\ n > v /\ n <= v + BufSize /\ b + v = l /\ h = d + b
      BY <1>4, <1>6, <1>7, <1>11
    <3> QED BY <1>5, <3>1
  <2>5. /\ Stretch(bstr', l, Len(delivered), astray')
        /\ Piece(ibuf', curr', max', Len(delivered) + l)
        /\ Len(delivered) + l + (max' - curr') = ReaderHas + n
    BY <1>3, <1>9, <1>10, <2>1, <2>3, <2>4
  <2>6. /\ r' \in {Idle, Stopped} /\ curr' \in Nat /\ max' \in Nat
        /\ curr' <= max' /\ max' <= BufSize
    BY <2>1, <2>2, <2>4
  <2>7. l \in 0..Window
    BY <1>4, <1>5
  <2>8. route.in # "channel" => curr' = max'
    BY <1>2
  <2> QED BY <1>1, <1>6, <1>9, <1>10, <2>2, <2>5, <2>6, <2>7, <2>8, EndStep
<1>12. CASE b + n >= m /\ ~(n > v)
  <2>1. max' = x /\ curr' = x /\ EndInput(b + n, "none")
    BY <1>3, <1>7, <1>12 DEF ReadvOk
  <2>2. r' = Idle /\ Deliver(b + n)
    BY <2>1 DEF EndInput
  <2>3. t = n
    BY <1>7, <1>12
  <2>4. b + n \in Nat /\ b + n \in 0..Window
    BY <1>4, <1>5, <1>7, <2>3
  <2>5. d + (b + n) + (x - x) = h + n
    BY <1>4, <1>7
  <2>6. Piece(ibuf', x, x, d + (b + n))
    <3>1. \A i \in 0..(x - x) - 1 : FALSE
      OBVIOUS
    <3> QED BY <3>1 DEF Piece
  <2>7. /\ Stretch(bstr', b + n, Len(delivered), astray')
        /\ Piece(ibuf', curr', max', Len(delivered) + (b + n))
        /\ Len(delivered) + (b + n) + (max' - curr') = ReaderHas + n
    BY <1>3, <1>9, <2>1, <2>3, <2>5, <2>6
  <2>8. /\ r' \in {Idle, Stopped} /\ curr' \in Nat /\ max' \in Nat
        /\ curr' <= max' /\ max' <= BufSize
    BY <1>5, <2>1, <2>2
  <2>9. route.in # "channel" => curr' = max'
    BY <1>2
  <2> QED BY <1>1, <1>6, <1>9, <1>10, <2>2, <2>4, <2>7, <2>8, <2>9, EndStep
<1>13. CASE ~(b + n >= m)
  <2>1. r' = [r EXCEPT !.base = b + n, !.iov_len = v - n] /\ UNCHANGED <<curr, max, delivered>>
    BY <1>3, <1>13 DEF ReadvOk
  <2>2. n < v /\ v - n \in Nat /\ b + n \in Nat /\ b + n < l /\ (b + n) + (v - n) = l /\ t = n
    <3>1. b + n < m /\ m <= l /\ b + v = l /\ n \in Nat
      BY <1>4, <1>7, <1>13
    <3>2. n < v
      BY <3>1
    <3> QED BY <1>7, <3>1, <3>2
  <2>3. /\ r' \in Filling /\ r'.pc = "readv" /\ r'.len = l /\ r'.min = m
        /\ r'.base = b + n /\ r'.iov_len = v - n
    BY <1>2, <1>3, <2>1, <2>2 DEF Filling
  <2>4. HeldBytes(r') = b + n
    BY <2>3 DEF HeldBytes
  <2>5. curr \in Nat /\ max \in Nat /\ curr <= max /\ max <= BufSize
    BY ReaderRigid
  <2>6. ReaderFits'
    BY <1>4, <2>1, <2>2, <2>3, <2>5 DEF ReaderFits, InputFits
  <2>7. ReaderRoute'
    BY <1>1, <1>2, <2>3 DEF ReaderRoute
  <2>8. d + (b + n) = h + n
    BY <1>4, <1>7
  <2>9. /\ Stretch(bstr', b + n, Len(delivered), astray')
        /\ Len(delivered) + (b + n) = ReaderHas + n
    BY <1>3, <1>9, <2>2, <2>8
  <2> QED BY <1>1, <1>6, <1>9, <1>10, <2>1, <2>2, <2>3, <2>4, <2>5, <2>6, <2>7, <2>9, OnStep
<1> QED BY <1>11, <1>12, <1>13

(* An input that fails, or finds the end of the stream, delivers what it   *)
(* has got.                                                                *)
LEMMA ReadvEndStep ==
  ASSUME IInv, NEW e, ReadvFault(e) \/ ReadvEof
  PROVE  IInv'
<1>1. /\ r.pc = "readv" /\ wire' = wire
      /\ UNCHANGED <<route, shut, astray>> /\ UNCHANGED writerVars
  BY DEF ReadvFault, ReadvEof, readerVars
<1>2. /\ InputFits(r)
      /\ r.len \in Nat /\ r.min \in Nat /\ r.base \in Nat /\ r.iov_len \in Nat
      /\ ReaderHas = Len(delivered) + r.base /\ route.in = "channel"
      /\ Stretch(bstr, r.base, Len(delivered), astray)
  BY <1>1, WhileReadv
<1>3. /\ max \in Nat /\ max <= BufSize /\ wire \in Seq(Nat)
      /\ ibuf \in [0..BufSize - 1 -> Nat] /\ bstr \in [0..Window - 1 -> Nat]
      /\ Len(delivered) \in Nat /\ Window \in Nat
  BY ReaderRigid
<1>4. WireLoses(0)
  BY <1>1, <1>3, WireStays
<1>5. CASE ReadvFault(e) /\ e = "EINTR"
  <2>1. UNCHANGED readerVars
    BY <1>5 DEF ReadvFault
  <2>2. AtEof => AtEof'
    BY <1>1, EofOnlyByReading
  <2>3. WriterTyped' /\ WriterFits' /\ PipeFits' /\ WriterRoute'
    BY <1>1 DEF IInv, TypeOK, WriterTyped, WriterFits, OutputFits, SendFits, PipeFits,
                WriterRoute, writerVars
  <2>4. WriterStream'
    <3>1. ReaderHas' = ReaderHas
      BY <2>1, HasStays
    <3> QED BY <1>1, <3>1 DEF IInv, WriterStream, writerVars
  <2> QED BY <1>1, <2>1, <2>2, <2>3, <2>4, WriterStep
<1>6. CASE (ReadvFault(e) /\ e # "EINTR") \/ ReadvEof
  <2>1. PICK b \in Nat, d \in Nat, x \in Nat, h \in Nat :
          b = r.base /\ d = Len(delivered) /\ x = max /\ h = d + b /\ h = ReaderHas
    BY <1>2, <1>3
  <2>2. b \in 0..Window /\ (r.len = 0 => b = 0)
    <3>1. PICK l \in Nat, v \in Nat : l = r.len /\ v = r.iov_len
      BY <1>2
    <3>2. l <= Window /\ b + v = l
      BY <1>2, <2>1, <3>1 DEF InputFits
    <3> QED BY <1>3, <3>1, <3>2
  <2>3. curr' = x /\ max' = x /\ ibuf' = ibuf /\ bstr' = bstr
    BY <1>6, <2>1 DEF ReadvFault, ReadvEof
  <2>4. r' \in {Idle, Stopped} /\ Deliver(b)
    <3>1. \/ EndInput(r.base, e)
          \/ r.len = 0 /\ EndInput(0, "none")
          \/ EndInput(r.base, "EOF")
      BY <1>6 DEF ReadvFault, ReadvEof
    <3> QED BY <2>1, <2>2, <3>1 DEF EndInput
  <2>5. Piece(ibuf', x, x, d + b)
    <3>1. \A i \in 0..(x - x) - 1 : FALSE
      OBVIOUS
    <3> QED BY <3>1 DEF Piece
  <2>6. d + b + (x - x) = h + 0
    BY <2>1
  <2>7a. astray' = astray
    BY <1>1
  <2>7. /\ Stretch(bstr', b, Len(delivered), astray')
        /\ Piece(ibuf', curr', max', Len(delivered) + b)
        /\ Len(delivered) + b + (max' - curr') = ReaderHas + 0
    BY <1>2, <2>1, <2>3, <2>5, <2>6, <2>7a
  <2>8. /\ curr' \in Nat /\ max' \in Nat /\ curr' <= max' /\ max' <= BufSize
        /\ ibuf' \in [0..BufSize - 1 -> Nat] /\ bstr' \in [0..Window - 1 -> Nat]
        /\ (route.in # "channel" => curr' = max')
    BY <1>3, <2>1, <2>3
  <2> QED BY <1>1, <1>4, <2>2, <2>4, <2>7, <2>8, EndStep
<1> QED BY <1>5, <1>6

LEMMA StartReadStep ==
  ASSUME IInv, NEW q \in ReadAsks, StartRead(q)
  PROVE  IInv'
<1>1. /\ r = Idle /\ q.op \in {"read", "really_recv", "read_nonblocking"}
      /\ route.in = "descriptor" /\ wire' = wire
      /\ bstr' = [i \in 0..Window - 1 |-> 0]
      /\ UNCHANGED <<route, shut>> /\ UNCHANGED writerVars
      /\ UNCHANGED <<ibuf, curr, max, delivered, astray>>
  BY DEF StartRead
<1>2. PICK l \in Nat, m \in Nat, d \in Nat, x \in Nat :
        /\ l = q.len /\ m = q.min /\ m <= l /\ l <= Window
        /\ d = Len(delivered) /\ x = max
  <2>1. q.len \in Nat /\ q.min \in Nat /\ q.min <= q.len /\ 2 * q.len <= Window /\ Window \in Nat
    BY IOAssumption
  <2> QED BY <2>1, ReaderRigid
<1>3. curr = x /\ x <= BufSize /\ ibuf \in [0..BufSize - 1 -> Nat] /\ wire \in Seq(Nat)
  BY <1>1, <1>2, ReaderRigid DEF IInv, ReaderRoute
<1>4. ReaderHas = d
  <2>1. ReaderHas = d + (x - x) /\ d + (x - x) = d
    BY <1>1, <1>2, <1>3, WhileReaderIdle
  <2> QED BY <2>1
<1>5. WireLoses(0) /\ bstr' \in [0..Window - 1 -> Nat]
  BY <1>1, <1>3, WireStays
<1>6. Stretch(bstr', 0, d, astray')
  <2>1. \A i \in 0..0 - 1 : FALSE
    OBVIOUS
  <2> QED BY <2>1 DEF Stretch
<1>7. CASE q.op = "really_recv" /\ q.len = 0
  <2>1. r' = r
    BY <1>7 DEF StartRead
  <2>2. r'.pc = "idle" /\ r.pc = "idle"
    BY <1>1, <2>1 DEF Idle
  <2>3. HeldBytes(r') = 0 /\ HeldBytes(r) = 0 /\ Left(r', curr', max') = Left(r, curr, max)
    BY <1>1, <2>1, <2>2 DEF HeldBytes, Left
  <2>4. ReaderTyped' /\ ReaderRoute' /\ ReaderFits'
    BY <1>1, <1>5, <2>1, <2>2
       DEF IInv, TypeOK, ReaderTyped, ReaderRoute, ReaderFits
  <2>5. ReaderStream'
    <3>1. \A i \in 0..0 - 1 : FALSE
      OBVIOUS
    <3> QED BY <1>1, <2>1, <2>3, <3>1 DEF IInv, ReaderStream, Stretch, NumberedBut
  <2>6. ReaderHas' = ReaderHas + 0
    <3>1. ReaderHas' = ReaderHas
      BY <1>1, <2>3 DEF ReaderHas
    <3> QED BY <1>2, <1>4, <3>1
  <2> QED BY <1>1, <1>5, <2>4, <2>5, <2>6, ReaderStep
<1>8. CASE ~(q.op = "really_recv" /\ q.len = 0)
  <2>1. r' = [pc |-> "read", op |-> q.op, len |-> l, min |-> m, base |-> 0, left |-> l]
    BY <1>2, <1>8 DEF StartRead
  <2>2. /\ r' \in Reading /\ r'.pc = "read" /\ r'.op = q.op /\ r'.len = l /\ r'.min = m
        /\ r'.base = 0 /\ r'.left = l
    BY <1>1, <2>1 DEF Reading
  <2>3. l - l = 0
    OBVIOUS
  <2>4. HeldBytes(r') = 0
    BY <2>2, <2>3 DEF HeldBytes, Good
  <2>5. ReadFits(r)'
    <3>1. l > 0 \/ (l = 0 /\ q.op # "really_recv")
      BY <1>2, <1>8
    <3> QED BY <1>1, <1>2, <2>2, <2>3, <3>1 DEF ReadFits
  <2>6. ReaderFits'
    BY <1>1, <1>2, <1>3, <2>2, <2>5 DEF ReaderFits
  <2>7. ReaderRoute'
    BY <1>1, <1>2, <1>3, <2>2 DEF ReaderRoute
  <2>8. Len(delivered) + 0 = ReaderHas + 0
    BY <1>2, <1>4
  <2>9. curr' \in Nat /\ max' \in Nat /\ ibuf' \in [0..BufSize - 1 -> Nat] /\ delivered' = delivered
    BY <1>1, <1>2, <1>3
  <2>10. Stretch(bstr', 0, Len(delivered), astray')
    BY <1>2, <1>6
  <2> QED BY <1>1, <1>5, <2>2, <2>4, <2>6, <2>7, <2>8, <2>9, <2>10, OnStep
<1> QED BY <1>7, <1>8

(* A call on the descriptor that ends with k bytes, n of them new.         *)
LEMMA EndReadStep ==
  ASSUME IInv, r.pc = "read", UNCHANGED <<route, shut>>, UNCHANGED writerVars,
         UNCHANGED <<ibuf, curr, max>>, NEW n, WireLoses(n), NEW exn,
         bstr' \in [0..Window - 1 -> Nat], NEW k \in 0..Window,
         astray \subseteq astray', Stretch(bstr', k, Len(delivered), astray'),
         EndRead(k, exn), k = Good(r) + n
  PROVE  IInv'
<1>1. /\ Good(r) \in Nat /\ ReaderHas = Len(delivered) + Good(r)
      /\ route.in # "channel" /\ curr = max
  BY WhileRead
<1>2. PICK x \in Nat, d \in Nat, g \in Nat : x = max /\ d = Len(delivered) /\ g = Good(r)
  BY <1>1, ReaderRigid
<1>3. x <= BufSize /\ ibuf \in [0..BufSize - 1 -> Nat] /\ n \in Nat /\ k \in Nat
  BY <1>2, ReaderRigid, IOAssumption DEF WireLoses
<1>4. r' \in {Idle, Stopped} /\ Deliver(k)
  BY DEF EndRead
<1>5. curr' = x /\ max' = x /\ ibuf' = ibuf
  BY <1>1, <1>2
<1>6. Piece(ibuf', x, x, d + k)
  <2>1. \A i \in 0..(x - x) - 1 : FALSE
    OBVIOUS
  <2> QED BY <2>1 DEF Piece
<1>7. d + k + (x - x) = d + g + n
  BY <1>2, <1>3
<1>8. /\ Piece(ibuf', curr', max', Len(delivered) + k)
      /\ Len(delivered) + k + (max' - curr') = ReaderHas + n
  BY <1>1, <1>2, <1>5, <1>6, <1>7
<1>9. /\ curr' \in Nat /\ max' \in Nat /\ curr' <= max' /\ max' <= BufSize
      /\ ibuf' \in [0..BufSize - 1 -> Nat] /\ (route.in # "channel" => curr' = max')
  BY <1>2, <1>3, <1>5
<1> QED BY <1>4, <1>8, <1>9, EndStep

(* Bytes that a read gets go behind those that it has.                     *)
LEMMA ReadStores ==
  ASSUME IInv, r.pc = "read", r.base = Good(r), NEW n \in Nat, n <= r.left, n <= Len(wire),
         bstr' = Stored(r.base, n)
  PROVE  /\ Good(r) + n \in 0..Window /\ bstr' \in [0..Window - 1 -> Nat]
         /\ Stretch(bstr', Good(r) + n, Len(delivered), astray)
<1>1. /\ Good(r) \in Nat /\ Good(r) = r.len - r.left /\ r.len <= Window
      /\ r.len \in Nat /\ r.left \in Nat
      /\ ReaderHas = Len(delivered) + Good(r)
      /\ Stretch(bstr, Good(r), Len(delivered), astray)
  BY WhileRead
<1>2. PICK b \in Nat, d \in Nat, l \in Nat, f \in Nat, z \in Nat :
        b = Good(r) /\ d = Len(delivered) /\ l = r.len /\ f = r.left /\ z = Window
  BY <1>1, ReaderRigid, IOAssumption
<1>3. b = l - f /\ l <= z /\ n <= f
  BY <1>1, <1>2
<1>4. b + n <= z /\ b + n \in Nat
  BY <1>3
<1>5. /\ wire \in Seq(Nat) /\ bstr \in [0..Window - 1 -> Nat]
      /\ Numbered(wire, d + b) /\ Stretch(bstr, b, d, astray)
  BY <1>1, <1>2, ReaderRigid DEF Numbered
<1>6. Stored(b, n) \in [0..Window - 1 -> Nat] /\ Stretch(Stored(b, n), b + n, d, astray)
  BY <1>2, <1>4, <1>5, StoredContinues
<1> QED BY <1>2, <1>4, <1>6

LEMMA ReadStep ==
  ASSUME IInv, NEW n, ReadOk(n)
  PROVE  IInv'
<1>1. /\ r.pc = "read" /\ r.op # "really_recv"
      /\ UNCHANGED <<route, shut, astray>> /\ UNCHANGED writerVars /\ UNCHANGED <<ibuf, curr, max>>
      /\ bstr' = Stored(r.base, n)
  BY DEF ReadOk
<1>2. /\ r \in Reading /\ ReadFits(r)
      /\ r.len \in Nat /\ r.min \in Nat /\ r.base \in Nat /\ r.left \in Nat
      /\ Good(r) \in Nat /\ Good(r) = r.len - r.left /\ r.left <= r.len /\ r.len <= Window
      /\ ReaderHas = Len(delivered) + Good(r)
      /\ route.in # "channel" /\ curr = max
  BY <1>1, WhileRead
<1>3. r.base = Good(r)
  BY <1>1, <1>2 DEF ReadFits
<1>4. wire \in Seq(Nat) /\ Len(wire) \in Nat /\ max \in Nat /\ max <= BufSize
      /\ ibuf \in [0..BufSize - 1 -> Nat] /\ Len(delivered) \in Nat
  BY ReaderRigid
<1>5. n \in Nat /\ WireLoses(n) /\ n <= r.left
  <2>1. CASE r.len = 0
    <3>1. n = 0 /\ wire' = wire
      BY <2>1 DEF ReadOk
    <3>2. WireLoses(0) /\ 0 <= r.left
      BY <1>2, <1>4, <3>1, WireStays
    <3> QED BY <3>1, <3>2
  <2>2. CASE r.len # 0
    <3>1. Take(r.left, n)
      BY <2>2 DEF ReadOk
    <3>2. n \in 1..r.left /\ WireLoses(n)
      BY <1>2, <1>4, <3>1, TakeLoses
    <3>3. n <= r.left
      BY <1>2, <3>2
    <3> QED BY <3>2, <3>3 DEF WireLoses
  <2> QED BY <2>1, <2>2
<1>6. n <= Len(wire)
  BY <1>5 DEF WireLoses
<1>7. /\ Good(r) + n \in 0..Window /\ bstr' \in [0..Window - 1 -> Nat]
      /\ Stretch(bstr', Good(r) + n, Len(delivered), astray')
  BY <1>1, <1>3, <1>5, <1>6, ReadStores
<1>8. PICK b \in Nat, l \in Nat, m \in Nat, f \in Nat, d \in Nat :
        /\ b = Good(r) /\ l = r.len /\ m = r.min /\ f = r.left /\ d = Len(delivered)
        /\ b = l - f /\ n <= f /\ m <= l
  BY <1>2, <1>4, <1>5 DEF ReadFits
<1>9. CASE Enough(r, n)
  <2>1. EndRead(b + n, "none")
    BY <1>3, <1>8, <1>9 DEF ReadOk
  <2>2. b + n \in 0..Window /\ Stretch(bstr', b + n, Len(delivered), astray') /\ b + n = Good(r) + n
    BY <1>7, <1>8
  <2> QED BY <1>1, <1>5, <1>7, <2>1, <2>2, EndReadStep
<1>10. CASE ~Enough(r, n)
  <2>1. r' = [r EXCEPT !.base = b + n, !.left = f - n] /\ delivered' = delivered
    <3>1. r' = [r EXCEPT !.base = @ + n, !.left = @ - n] /\ delivered' = delivered
      BY <1>10 DEF ReadOk
    <3>2. r.base = b /\ r.left = f
      BY <1>3, <1>8
    <3> QED BY <3>1, <3>2
  <2>2. r.op = "read" /\ b + n < m
    <3>1. r.op = "read" /\ ~(r.base + n >= r.min)
      BY <1>10 DEF Enough
    <3>2. ~(b + n >= m) /\ n \in Nat
      BY <1>3, <1>5, <1>8, <3>1
    <3> QED BY <3>1, <3>2
  <2>3. b + n \in Nat /\ f - n \in Nat /\ f - n > 0 /\ f - n <= l /\ l - (f - n) = b + n
    <3>1. b = l - f /\ n \in Nat /\ n <= f /\ m <= l
      BY <1>5, <1>8
    <3> QED BY <2>2, <3>1
  <2>4. /\ r' \in Reading /\ r'.pc = "read" /\ r'.op = "read" /\ r'.len = l /\ r'.min = m
        /\ r'.base = b + n /\ r'.left = f - n
    BY <1>1, <1>2, <1>8, <2>1, <2>2, <2>3 DEF Reading
  <2>5. HeldBytes(r') = b + n
    BY <2>3, <2>4 DEF HeldBytes, Good
  <2>6. ReadFits(r)'
    BY <1>2, <1>8, <2>2, <2>3, <2>4 DEF ReadFits
  <2>7. ReaderFits' /\ ReaderRoute'
    BY <1>1, <1>2, <1>4, <2>4, <2>6 DEF ReaderFits, ReaderRoute
  <2>8. Len(delivered) + (b + n) = ReaderHas + n
    <3>1. d + (b + n) = (d + b) + n
      BY <1>5
    <3> QED BY <1>2, <1>8, <3>1
  <2>9. /\ curr' \in Nat /\ max' \in Nat /\ ibuf' \in [0..BufSize - 1 -> Nat]
        /\ Stretch(bstr', b + n, Len(delivered), astray')
    BY <1>1, <1>2, <1>4, <1>7, <1>8
  <2> QED BY <1>1, <1>5, <1>7, <2>1, <2>3, <2>4, <2>5, <2>7, <2>8, <2>9, OnStep
<1> QED BY <1>9, <1>10

(* A really_recv whose pointer is wrong makes all that it has got suspect. *)
(* Else its bytes go behind those that it has.                             *)
LEMMA RecvStores ==
  ASSUME IInv, NEW n, RecvOk(n)
  PROVE  /\ n \in 1..r.left /\ WireLoses(n) /\ n <= Len(wire) /\ astray \subseteq astray'
         /\ Good(r) + n \in 0..Window /\ bstr' \in [0..Window - 1 -> Nat]
         /\ Stretch(bstr', Good(r) + n, Len(delivered), astray')
<1>1. /\ r.pc = "read" /\ Take(r.left, n) /\ bstr' = Stored(r.base, n)
      /\ astray' = astray \cup IF r.base = Good(r) THEN {}
                               ELSE Len(delivered) + 1 .. Len(delivered) + Good(r) + n
  BY DEF RecvOk
<1>2. /\ r.base \in Nat /\ r.left \in Nat /\ r.len \in Nat
      /\ Good(r) \in Nat /\ Good(r) = r.len - r.left /\ r.len <= Window
  BY <1>1, WhileRead
<1>3. /\ wire \in Seq(Nat) /\ Len(wire) \in Nat /\ Len(delivered) \in Nat
      /\ bstr \in [0..Window - 1 -> Nat] /\ Window \in Nat
  BY ReaderRigid
<1>4. n \in 1..r.left /\ WireLoses(n)
  BY <1>1, <1>2, <1>3, TakeLoses
<1>5. n \in Nat /\ n <= Len(wire) /\ n <= r.left
  BY <1>2, <1>4 DEF WireLoses
<1>6. astray \subseteq astray'
  BY <1>1
<1>7. CASE r.base = Good(r)
  <2>1. astray' = astray
    BY <1>1, <1>7
  <2>2. /\ Good(r) + n \in 0..Window /\ bstr' \in [0..Window - 1 -> Nat]
        /\ Stretch(bstr', Good(r) + n, Len(delivered), astray)
    BY <1>1, <1>5, <1>7, ReadStores
  <2> QED BY <1>4, <1>5, <2>1, <2>2
<1>8. CASE r.base # Good(r)
  <2>1. PICK g \in Nat, d \in Nat, b \in Nat, l \in Nat, f \in Nat, z \in Nat :
          /\ g = Good(r) /\ d = Len(delivered) /\ b = r.base /\ l = r.len /\ f = r.left
          /\ z = Window
    BY <1>2, <1>3
  <2>2. g + n \in 0..z
    <3>1. g = l - f /\ l <= z /\ n <= f /\ n \in Nat
      BY <1>2, <1>5, <2>1
    <3> QED BY <3>1
  <2>3. astray' = astray \cup (d + 1 .. d + g + n)
    BY <1>1, <1>8, <2>1
  <2>4. ASSUME NEW i \in 0..(g + n) - 1 PROVE d + i + 1 \in d + 1 .. d + g + n
    BY <1>5
  <2>5. Stretch(bstr', g + n, d, astray')
    BY <2>3, <2>4 DEF Stretch
  <2>6. bstr' \in [0..Window - 1 -> Nat]
    <3>1. ASSUME NEW i \in b..b + n - 1 PROVE wire[i - b + 1] \in Nat
      <4>1. i - b + 1 \in 1..Len(wire)
        BY <1>3, <1>5
      <4> QED BY <1>3, <4>1, ElementOfSeq
    <3>2. bstr' = [i \in 0..Window - 1 |->
                     IF i \in b..b + n - 1 THEN wire[i - b + 1] ELSE bstr[i]]
      BY <1>1, <2>1 DEF Stored
    <3> QED BY <1>3, <3>1, <3>2
  <2> QED BY <1>4, <1>5, <1>6, <2>1, <2>2, <2>5, <2>6
<1> QED BY <1>7, <1>8

LEMMA RecvStep ==
  ASSUME IInv, NEW n, RecvOk(n)
  PROVE  IInv'
<1>1. /\ r.pc = "read" /\ r.op = "really_recv"
      /\ UNCHANGED <<route, shut>> /\ UNCHANGED writerVars /\ UNCHANGED <<ibuf, curr, max>>
  BY DEF RecvOk
<1>2. /\ r \in Reading /\ ReadFits(r)
      /\ r.len \in Nat /\ r.min \in Nat /\ r.base \in Nat /\ r.left \in Nat
      /\ Good(r) \in Nat /\ Good(r) = r.len - r.left /\ r.left <= r.len /\ r.len <= Window
      /\ ReaderHas = Len(delivered) + Good(r)
      /\ route.in # "channel" /\ curr = max
  BY <1>1, WhileRead
<1>3. /\ max \in Nat /\ max <= BufSize
      /\ ibuf \in [0..BufSize - 1 -> Nat] /\ Len(delivered) \in Nat
  BY ReaderRigid
<1>4. /\ n \in 1..r.left /\ WireLoses(n) /\ astray \subseteq astray'
      /\ Good(r) + n \in 0..Window /\ bstr' \in [0..Window - 1 -> Nat]
      /\ Stretch(bstr', Good(r) + n, Len(delivered), astray')
  BY RecvStores
<1>5. PICK l \in Nat, m \in Nat, f \in Nat, d \in Nat, g \in Nat, b \in Nat :
        /\ l = r.len /\ m = r.min /\ f = r.left /\ d = Len(delivered) /\ g = Good(r)
        /\ b = r.base /\ g = l - f /\ n \in 1..f /\ f <= l /\ m <= l /\ l <= Window
  BY <1>2, <1>3, <1>4 DEF ReadFits
<1>6. CASE f - n > 0
  <2>1. r' = [r EXCEPT !.base = b + (f - n), !.left = f - n] /\ delivered' = delivered
    <3>1. /\ r' = [r EXCEPT !.base = @ + (r.left - n), !.left = r.left - n]
          /\ delivered' = delivered
      BY <1>5, <1>6 DEF RecvOk
    <3>2. r.base = b /\ r.left = f
      BY <1>5
    <3> QED BY <3>1, <3>2
  <2>2. /\ f - n \in Nat /\ b + (f - n) \in Nat /\ f - n <= l /\ l - (f - n) = g + n
        /\ g + n \in Nat
    <3>1. n \in Nat /\ n <= f /\ g = l - f /\ f <= l
      BY <1>5
    <3> QED BY <1>6, <3>1
  <2>3. PICK v \in Nat, c \in Nat : v = f - n /\ c = b + (f - n)
    BY <2>2
  <2>4. r' = [r EXCEPT !.base = c, !.left = v]
    BY <2>1, <2>3
  <2>5. /\ r' \in Reading /\ r'.pc = "read" /\ r'.op = "really_recv" /\ r'.len = l
        /\ r'.min = m /\ r'.left = v
    BY <1>1, <1>2, <1>5, <2>4 DEF Reading
  <2>6. HeldBytes(r') = g + n
    BY <2>2, <2>3, <2>5 DEF HeldBytes, Good
  <2>7. ReadFits(r)'
    <3>1. v > 0 /\ v <= l
      BY <1>6, <2>2, <2>3
    <3> QED BY <1>5, <2>5, <3>1 DEF ReadFits
  <2>8. ReaderFits' /\ ReaderRoute'
    BY <1>1, <1>2, <1>3, <2>5, <2>7 DEF ReaderFits, ReaderRoute
  <2>9. Len(delivered) + (g + n) = ReaderHas + n
    <3>1. ReaderHas = d + g /\ n \in Nat
      BY <1>2, <1>5
    <3>2. d + (g + n) = (d + g) + n
      BY <3>1
    <3> QED BY <1>5, <3>1, <3>2
  <2>10. /\ curr' \in Nat /\ max' \in Nat /\ ibuf' \in [0..BufSize - 1 -> Nat]
         /\ Stretch(bstr', g + n, Len(delivered), astray')
    BY <1>1, <1>2, <1>3, <1>4, <1>5
  <2> QED BY <1>1, <1>4, <2>1, <2>2, <2>5, <2>6, <2>8, <2>9, <2>10, OnStep
<1>7. CASE ~(f - n > 0)
  <2>1. EndRead(l, "none")
    BY <1>5, <1>7 DEF RecvOk
  <2>2. l = g + n /\ l \in 0..Window
    <3>1. n \in Nat /\ n <= f /\ g = l - f /\ f <= l
      BY <1>5
    <3>2. Window \in Nat /\ l <= Window
      BY <1>5, IOAssumption
    <3> QED BY <1>7, <3>1, <3>2
  <2>3. l = Good(r) + n /\ Stretch(bstr', l, Len(delivered), astray')
    BY <1>4, <1>5, <2>2
  <2> QED BY <1>1, <1>4, <2>1, <2>2, <2>3, EndReadStep
<1> QED BY <1>6, <1>7

LEMMA ReadEndStep ==
  ASSUME IInv, NEW e, ReadFault(e) \/ ReadEof
  PROVE  IInv'
<1>1. /\ r.pc = "read" /\ wire' = wire /\ bstr' = bstr
      /\ UNCHANGED <<route, shut, astray>> /\ UNCHANGED writerVars /\ UNCHANGED <<ibuf, curr, max>>
  BY DEF ReadFault, ReadEof
<1>2. PICK exn : EndRead(Good(r), exn)
  BY DEF ReadFault, ReadEof
<1>3. /\ Good(r) \in Nat /\ Good(r) = r.len - r.left /\ r.left <= r.len /\ r.len <= Window
      /\ r.len \in Nat /\ r.left \in Nat /\ Stretch(bstr, Good(r), Len(delivered), astray)
  BY <1>1, WhileRead
<1>4. WireLoses(0)
  BY <1>1, ReaderRigid, WireStays
<1>5. Good(r) \in 0..Window /\ Good(r) = Good(r) + 0
  <2>1. PICK g \in Nat, l \in Nat, f \in Nat, z \in Nat :
          g = Good(r) /\ l = r.len /\ f = r.left /\ z = Window
    BY <1>3, IOAssumption
  <2>2. g = l - f /\ f <= l /\ l <= z
    BY <1>3, <2>1
  <2>3. g \in 0..z /\ g = g + 0
    BY <2>2
  <2> QED BY <2>1, <2>3
<1>6. PICK g : g = Good(r)
  OBVIOUS
<1>7. /\ g \in 0..Window /\ EndRead(g, exn) /\ g = Good(r) + 0
      /\ Stretch(bstr', g, Len(delivered), astray')
  BY <1>1, <1>2, <1>3, <1>5, <1>6
<1>8. bstr' \in [0..Window - 1 -> Nat]
  BY <1>1, ReaderRigid
<1> QED BY <1>1, <1>4, <1>7, <1>8, EndReadStep

LEMMA IONext ==
  ASSUME IInv, [Next]_vars
  PROVE  IInv'
<1>1. ASSUME NEW q \in WriteAsks, StartOut(q) PROVE IInv'
  BY <1>1, StartOutputStep, StartWriteStep DEF StartOut
<1>2. ASSUME Output PROVE IInv'
  BY <1>2, WritevStep, WriteStep, FlushStep DEF Output
<1>3. ASSUME NEW e \in Errors, WritevFault(e) \/ WriteFault(e) \/ CloseFault(e) PROVE IInv'
  BY <1>3, WritevFaultStep, WriteFaultStep, CloseStep
<1>4. ASSUME SendBlocked PROVE IInv'
  BY <1>4, WriteFaultStep
<1>5. ASSUME StartClose \/ CloseOk PROVE IInv'
  BY <1>5, CloseStep
<1>6. ASSUME NEW q \in ReadAsks, StartIn(q) PROVE IInv'
  BY <1>6, StartInputStep, StartReadStep DEF StartIn
<1>7. ASSUME Input PROVE IInv'
  BY <1>7, ReadvStep, ReadStep, RecvStep DEF Input
<1>8. ASSUME NEW e \in Errors, ReadvFault(e) \/ ReadFault(e) PROVE IInv'
  BY <1>8, ReadvEndStep, ReadEndStep
<1>9. ASSUME Eof PROVE IInv'
  BY <1>9, ReadvEndStep, ReadEndStep DEF Eof
<1>10. ASSUME UNCHANGED vars PROVE IInv'
  <2>1. /\ UNCHANGED <<route, wire, shut, obuf, accepted, w, ibuf, curr, max, bstr, r, delivered>>
        /\ astray' = astray
    BY <1>10 DEF vars, writerVars, readerVars
  <2>2. TypeOK'
    BY <2>1 DEF IInv, TypeOK, WriterTyped, ReaderTyped
  <2>3. WriterFits'
    BY <2>1 DEF IInv, WriterFits, OutputFits, SendFits
  <2>4. ReaderFits'
    BY <2>1 DEF IInv, ReaderFits, InputFits, ReadFits, AtEof
  <2>5. PipeFits' /\ WriterRoute' /\ ReaderRoute'
    BY <2>1 DEF IInv, PipeFits, WriterRoute, ReaderRoute
  <2>6. ReaderHas' = ReaderHas /\ HeldBytes(r') = HeldBytes(r)
    BY <2>1 DEF ReaderHas, HeldBytes, Left, Good
  <2>7. ReaderStream'
    BY <2>1, <2>6 DEF IInv, ReaderStream, NumberedBut, Stretch
  <2>8. WriterStream'
    BY <2>1, <2>6 DEF IInv, WriterStream
  <2> QED BY <2>2, <2>3, <2>4, <2>5, <2>7, <2>8 DEF IInv
<1>11. Done => UNCHANGED vars
  BY DEF Done
<1> QED
  BY <1>1, <1>2, <1>3, <1>4, <1>5, <1>6, <1>7, <1>8, <1>9, <1>10, <1>11 DEF Next

-----------------------------------------------------------------------------
(* The theorems.                                                           *)

(* The stretches of the stream, put together.                              *)
LEMMA StreamOfIInv == IInv => StreamIntact
<1> SUFFICES ASSUME IInv PROVE StreamIntact
  OBVIOUS
<1>1. PICK d \in Nat, c \in Nat, x \in Nat, h \in Nat, y \in Nat, z \in Nat :
        /\ d = Len(delivered) /\ c = curr /\ x = max /\ c <= x /\ x <= BufSize
        /\ h = ReaderHas /\ y = Len(wire) /\ z = Window
  BY ReaderRigid, IOAssumption
<1>2. /\ ibuf \in [0..BufSize - 1 -> Nat] /\ bstr \in [0..z - 1 -> Nat]
      /\ delivered \in Seq(Nat) /\ wire \in Seq(Nat) /\ obuf \in Seq(Nat)
      /\ accepted \in Nat /\ BufSize \in Nat
      /\ NumberedBut(delivered, 0, astray) /\ NumberedBut(wire, h, astray)
  BY <1>1, ReaderRigid
     DEF IInv, TypeOK, WriterTyped, ReaderStream, WriterStream, Numbered, NumberedBut
<1>3. PICK k \in Nat : k = HeldBytes(r) /\ k <= z
  <2>1. CASE r.pc = "readv"
    <3>1. r.base \in Nat /\ r.iov_len \in Nat /\ r.len \in Nat /\ InputFits(r)
      BY <2>1, WhileReadv
    <3>2. r.base + r.iov_len = r.len /\ r.len <= Window
      BY <3>1 DEF InputFits
    <3>3. PICK b \in Nat, v \in Nat : b = r.base /\ v = r.iov_len
      BY <3>1
    <3>4. b <= z
      BY <1>1, <3>2, <3>3
    <3> QED BY <2>1, <3>3, <3>4 DEF HeldBytes
  <2>2. CASE r.pc = "read"
    <3>1. /\ Good(r) \in Nat /\ Good(r) = r.len - r.left /\ r.len <= Window
          /\ r.len \in Nat /\ r.left \in Nat
      BY <2>2, WhileRead
    <3>2. PICK g \in Nat, l \in Nat, f \in Nat : g = Good(r) /\ l = r.len /\ f = r.left
      BY <3>1
    <3>3. g <= z
      BY <1>1, <3>1, <3>2
    <3> QED BY <2>2, <3>2, <3>3 DEF HeldBytes
  <2>3. CASE r.pc \notin {"readv", "read"}
    BY <1>1, <2>3 DEF HeldBytes
  <2> QED BY <2>1, <2>2, <2>3
<1>4. PICK t \in Nat : /\ t = Left(r, c, x) /\ (r.pc = "readv" => t = 0)
                       /\ (r.pc # "readv" => t = x - c)
  <2>1. x - c \in Nat
    BY <1>1
  <2> QED BY <2>1 DEF Left
<1>5. PICK s : s = InHand
  OBVIOUS
<1>6. s \in Seq(Nat) /\ Len(s) = k /\ NumberedBut(s, d, astray)
  <2>1. s = [i \in 1..k |-> bstr[i - 1]]
    BY <1>3, <1>5 DEF InHand, HeldBytes
  <2>2. PICK f \in [0..z - 1 -> Nat] : f = bstr
    BY <1>2
  <2>3. s \in Seq(Nat) /\ Len(s) = k /\ \A i \in 1..k : s[i] = f[i - 1]
    <3>1. k \in 0..z /\ s = [i \in 1..k |-> f[i - 1]]
      BY <1>3, <2>1, <2>2
    <3> QED BY <3>1, Copies
  <2>4. ASSUME NEW i \in 1..Len(s) PROVE s[i] = d + i \/ d + i \in astray
    <3>1. i - 1 \in 0..k - 1
      BY <2>3
    <3>2. bstr[i - 1] = d + (i - 1) + 1 \/ d + (i - 1) + 1 \in astray
      BY <1>1, <1>3, <3>1 DEF IInv, ReaderStream, Stretch
    <3>3. d + (i - 1) + 1 = d + i
      BY <3>1
    <3> QED BY <2>2, <2>3, <3>2, <3>3
  <2> QED BY <2>3, <2>4 DEF NumberedBut
<1>7. PICK b : b = Buffered
  OBVIOUS
<1>8. b \in Seq(Nat) /\ Len(b) = t /\ NumberedBut(b, d + k, astray)
  <2>1. CASE r.pc = "readv"
    <3>1. b = << >> /\ t = 0
      BY <1>4, <1>7, <2>1 DEF Buffered
    <3>2. b \in Seq(Nat) /\ Len(b) = 0
      BY <3>1, EmptySeq
    <3> QED BY <3>1, <3>2 DEF NumberedBut
  <2>2. CASE r.pc # "readv"
    <3>1. b = [i \in 1..t |-> ibuf[c + i - 1]] /\ t = x - c
      BY <1>1, <1>4, <1>7, <2>2 DEF Buffered
    <3>2. ASSUME NEW i \in 1..t PROVE ibuf[c + i - 1] = d + k + i /\ d + k + i \in Nat
      <4>1. PICK j \in 0..t - 1 : j = i - 1
        OBVIOUS
      <4>2. ibuf[c + j] = d + k + j + 1
        BY <1>1, <1>3, <1>4 DEF IInv, ReaderStream
      <4>3. c + i - 1 = c + j /\ d + k + j + 1 = d + k + i
        BY <4>1
      <4> QED BY <4>2, <4>3
    <3>3. PICK a \in Nat : a = d + k
      OBVIOUS
    <3>4. b = [i \in 1..t |-> a + i]
      BY <3>1, <3>2, <3>3
    <3>5. b \in Seq(Nat) /\ Len(b) = t /\ \A i \in 1..t : b[i] = a + i
      BY <3>4, Counting
    <3> QED BY <3>3, <3>5 DEF NumberedBut
  <2> QED BY <2>1, <2>2
<1>9. h = d + k + t
  BY <1>1, <1>3, <1>4 DEF ReaderHas
<1>10. PICK u : u = Unsent
  OBVIOUS
<1>11. PICK o \in Nat : o = Skip(w) /\ o <= Len(obuf) /\ (w.pc # "writev" => o = 0)
  <2>1. CASE w.pc = "writev"
    <3>1. w.boff \in Nat /\ w.buff_len \in Nat /\ w.boff + w.buff_len = Len(obuf)
      BY <2>1, WhileWritev DEF OutputFits
    <3>2. PICK f \in Nat, g \in Nat : f = w.boff /\ g = w.buff_len
      BY <3>1
    <3>3. f <= Len(obuf)
      BY <3>1, <3>2
    <3> QED BY <2>1, <3>2, <3>3 DEF Skip
  <2>2. CASE w.pc # "writev"
    <3>1. 0 <= Len(obuf)
      BY <1>2, LenProperties
    <3> QED BY <2>2, <3>1 DEF Skip
  <2> QED BY <2>1, <2>2
<1>12. PICK m \in Nat : m = Len(obuf)
  BY <1>2, LenProperties
<1>13. PICK j \in Nat : j = m - o /\ o + j = m /\ o + j <= Len(obuf)
  <2>1. m - o \in Nat /\ o + (m - o) = m
    BY <1>11, <1>12
  <2> QED BY <1>12, <2>1
<1>14. \A i \in 1..j : obuf[o + i] = h + y + i
  BY <1>1, <1>11, <1>12, <1>13 DEF IInv, WriterStream
<1>15. u \in Seq(Nat) /\ Len(u) = j /\ NumberedBut(u, h + y, astray)
  <2>1. CASE w.pc = "writev"
    <3>1. u = SubSeq(obuf, o + 1, o + j)
      BY <1>10, <1>11, <1>12, <1>13, <2>1 DEF Unsent, Skip
    <3>2. IsPart(SubSeq(obuf, o + 1, o + j), obuf, o, j)
      BY <1>2, <1>13, PartOf
    <3>3. IsPart(u, obuf, o, j)
      BY <3>1, <3>2
    <3>4. u \in Seq(Nat) /\ Len(u) = j /\ \A i \in 1..j : u[i] = obuf[o + i]
      BY <3>3 DEF IsPart
    <3> QED BY <1>14, <3>4 DEF NumberedBut
  <2>2. CASE w.pc # "writev"
    <3>1. u = obuf /\ o = 0 /\ m = j
      BY <1>10, <1>11, <1>13, <2>2 DEF Unsent
    <3>2. \A i \in 1..j : o + i = i
      BY <3>1
    <3>3. \A i \in 1..j : u[i] = h + y + i
      BY <1>14, <3>1, <3>2
    <3> QED BY <1>2, <1>12, <3>1, <3>3 DEF NumberedBut
  <2> QED BY <2>1, <2>2
<1>16. PICK s1 : s1 = delivered \o s
  OBVIOUS
<1>17. s1 \in Seq(Nat) /\ Len(s1) = d + k /\ NumberedBut(s1, 0, astray)
  <2>1. 0 + Len(delivered) = d
    BY <1>1
  <2> QED BY <1>1, <1>2, <1>6, <1>16, <2>1, JoinNumberedBut
<1>18. PICK s2 : s2 = s1 \o b
  OBVIOUS
<1>19. s2 \in Seq(Nat) /\ Len(s2) = h /\ NumberedBut(s2, 0, astray)
  <2>1. 0 + Len(s1) = d + k
    BY <1>17
  <2> QED BY <1>8, <1>9, <1>17, <1>18, <2>1, JoinNumberedBut
<1>20. PICK s3 : s3 = s2 \o wire
  OBVIOUS
<1>21. s3 \in Seq(Nat) /\ Len(s3) = h + y /\ NumberedBut(s3, 0, astray)
  <2>1. 0 + Len(s2) = h
    BY <1>19
  <2> QED BY <1>1, <1>2, <1>19, <1>20, <2>1, JoinNumberedBut
<1>22. PICK s4 : s4 = s3 \o u
  OBVIOUS
<1>23. s4 \in Seq(Nat) /\ Len(s4) = h + y + j /\ NumberedBut(s4, 0, astray)
  <2>1. 0 + Len(s3) = h + y
    BY <1>21
  <2> QED BY <1>15, <1>21, <1>22, <2>1, JoinNumberedBut
<1>24. PICK n : n = accepted + IF w.pc \in {"idle", "close"} THEN 0 ELSE w.base
  OBVIOUS
<1>25. n = h + y + j
  <2>1. w.pc \in {"idle", "close", "writev", "write"}
    BY DEF IInv, TypeOK, WriterTyped, Idle, Closing, Writing, Sending
  <2>2. n = accepted + Told(w)
    BY <1>24, <2>1 DEF Told
  <2>3. h + y + m - o = accepted + Told(w)
    BY <1>1, <1>11, <1>12 DEF IInv, WriterStream
  <2>4. h + y + m - o = h + y + j
    BY <1>13
  <2> QED BY <2>2, <2>3, <2>4
<1>26. Len(s4) = n /\ \A i \in 1..n : s4[i] = i \/ i \in astray
  <2>1. Len(s4) = n
    BY <1>23, <1>25
  <2>2. ASSUME NEW i \in 1..n PROVE s4[i] = i \/ i \in astray
    <3>1. i \in 1..Len(s4) /\ 0 + i = i
      BY <2>1, <1>25
    <3> QED BY <1>23, <3>1 DEF NumberedBut
  <2> QED BY <2>1, <2>2
<1>27. delivered \o InHand \o Buffered \o wire \o Unsent = s4
  BY <1>5, <1>7, <1>10, <1>16, <1>18, <1>20, <1>22
<1> QED BY <1>24, <1>26, <1>27 DEF StreamIntact

(* No byte is lost, repeated or reordered by any of the calls, for all     *)
(* sizes and requests, signals and failures, but within a really_recv that *)
(* a signal has made store its bytes in the wrong place, which still takes *)
(* no byte too many or too few (bigstring_input_stub, bigstring_read_stub, *)
(* bigstring_output_stub, bigstring_really_recv_stub, really_output).      *)
THEOREM NoByteIsLost == Spec => []StreamIntact
<1>1. IInv /\ [Next]_vars => IInv'
  BY IONext
<1> QED BY <1>1, IOInit, StreamOfIInv, PTL DEF Spec

(* The end of the stream is final.                                         *)
LEMMA EofStays ==
  ASSUME IInv, [Next]_vars, AtEof
  PROVE  AtEof'
<1>1. shut /\ wire = << >> /\ obuf = << >> /\ w.pc # "writev" /\ w.pc # "close"
  BY DEF AtEof, IInv, PipeFits
<1>2. Len(wire) = 0 /\ wire \in Seq(Nat)
  BY <1>1, EmptySeq
<1>3. SUFFICES shut' /\ wire' = wire
  BY <1>1 DEF AtEof
<1>4. ASSUME NEW len \in Nat, NEW n, Take(len, n) PROVE FALSE
  <2>1. n \in 1..len /\ n <= Len(wire)
    BY <1>2, <1>4, TakeRemoves
  <2> QED BY <1>2, <2>1
<1>5. ASSUME NEW n, WriteOk(n) PROVE shut' /\ wire' = wire
  <2>1. w.pc = "write" /\ Put(SubSeq(w.data, w.base + 1, w.len), n) /\ shut' = shut
    BY <1>5 DEF WriteOk
  <2>2. /\ w.len \in Nat /\ w.base \in Nat /\ w.data \in Seq(Nat) /\ SendFits(w)
        /\ w.len = 0
    BY <1>1, <2>1, WhileWrite
  <2>3. w.base = 0 /\ Len(w.data) = 0
    BY <2>2 DEF SendFits
  <2>4. PICK d \in Seq(Nat) : d = w.data /\ Len(d) = 0
    BY <2>2, <2>3
  <2>5. IsPart(SubSeq(d, 0 + 1, 0 + 0), d, 0, 0)
    <3>1. 0 + 0 <= Len(d)
      BY <2>4
    <3> QED BY <3>1, PartOf
  <2>6. PICK g : g = SubSeq(d, 0 + 1, 0 + 0)
    OBVIOUS
  <2>7. g \in Seq(Nat) /\ Len(g) = 0
    BY <2>5, <2>6 DEF IsPart
  <2>8. 0 + 0 = 0
    OBVIOUS
  <2>9. Put(g, n)
    BY <2>1, <2>2, <2>3, <2>4, <2>6, <2>8
  <2>10. n \in 0..0 /\ wire' \in Seq(Nat) /\ Len(wire') = Len(wire) + n
    BY <1>2, <2>7, <2>9, PutAdds
  <2>11. Len(wire') = 0
    BY <1>2, <2>10
  <2> QED BY <1>1, <2>1, <2>10, <2>11, EmptySeq
<1>6. ASSUME Output PROVE shut' /\ wire' = wire
  BY <1>1, <1>5, <1>6 DEF Output, WritevOk, FlushSome
<1>7. ASSUME Input PROVE shut' /\ wire' = wire
  <2>1. PICK n : ReadvOk(n) \/ ReadOk(n) \/ RecvOk(n)
    BY <1>7 DEF Input
  <2>2. CASE ReadvOk(n)
    <3>1. r.pc = "readv" /\ Take(r.iov_len + BufSize, n)
      BY <2>2 DEF ReadvOk
    <3>2. r.iov_len + BufSize \in Nat
      <4>1. r.iov_len \in Nat /\ BufSize \in Nat
        BY <3>1, WhileReadv, IOAssumption
      <4> QED BY <4>1
    <3> QED BY <1>4, <3>1, <3>2
  <2>3. CASE ReadOk(n)
    <3>1. r.pc = "read" /\ shut' = shut
      BY <2>3 DEF ReadOk
    <3>2. r.left \in Nat
      BY <3>1, WhileRead
    <3>3. ~Take(r.left, n)
      BY <1>4, <3>2
    <3> QED BY <1>1, <2>3, <3>1, <3>3 DEF ReadOk
  <2>4. CASE RecvOk(n)
    <3>1. r.pc = "read" /\ Take(r.left, n)
      BY <2>4 DEF RecvOk
    <3>2. r.left \in Nat
      BY <3>1, WhileRead
    <3> QED BY <1>4, <3>1, <3>2
  <2> QED BY <2>1, <2>2, <2>3, <2>4
<1>8. ASSUME NEW q, StartOut(q) \/ StartIn(q) PROVE shut' /\ wire' = wire
  BY <1>1, <1>8 DEF StartOut, StartIn, StartOutput, StartWrite, StartInput, StartRead
<1>9. ASSUME NEW e, WritevFault(e) \/ WriteFault(e) \/ CloseFault(e)
                    \/ ReadvFault(e) \/ ReadFault(e)
      PROVE  shut' /\ wire' = wire
  BY <1>1, <1>9 DEF WritevFault, WriteFault, CloseFault, ReadvFault, ReadFault
<1>10. ASSUME SendBlocked \/ StartClose \/ CloseOk \/ Eof PROVE shut' /\ wire' = wire
  BY <1>1, <1>10 DEF SendBlocked, StartClose, CloseOk, Eof, ReadvEof, ReadEof
<1>11. ASSUME Done \/ UNCHANGED vars PROVE shut' /\ wire' = wire
  BY <1>1, <1>11 DEF Done, vars
<1> QED BY <1>6, <1>7, <1>8, <1>9, <1>10, <1>11 DEF Next

(* What a call for len bytes, at least min of them, may answer.            *)
WordKept(op, len, min, n, exn) ==
  /\ exn = "none" =>
       /\ n <= len
       /\ n >= min \/ op \in {"write", "writev", "send", "read_nonblocking"}
       /\ n >= 0 \/ op = "send"
       /\ op \in {"really_write", "really_recv"} => n = len
  /\ exn # "none" =>
       /\ n < len \/ len = 0
       /\ op \in {"read", "output"} => n = 0 \/ n < min

LEMMA AnswerKeeps ==
  ASSUME NEW who, NEW q, NEW n, NEW exn, Answer(who, q, n, exn),
         WordKept(q.op, q.len, q.min, n, exn), exn = "EOF" => AtEof'
  PROVE  CallsKeepTheirWord'
<1>1. /\ answer'.op = q.op /\ answer'.len = q.len /\ answer'.min = q.min
      /\ answer'.n = n /\ answer'.exn = exn
  BY DEF Answer
<1>2. WordKept(answer'.op, answer'.len, answer'.min, answer'.n, answer'.exn)
  BY <1>1
<1> QED BY <1>1, <1>2 DEF WordKept, CallsKeepTheirWord

LEMMA SilenceKeeps ==
  ASSUME CallsKeepTheirWord, answer' = answer, AtEof => AtEof'
  PROVE  CallsKeepTheirWord'
BY DEF CallsKeepTheirWord

LEMMA OutputKeeps ==
  ASSUME IInv, CallsKeepTheirWord, AtEof => AtEof', NEW n, NEW e, NEW q,
         \/ q \in WriteAsks /\ StartOutput(q)
         \/ WritevOk(n)
         \/ e \in Errors /\ WritevFault(e)
  PROVE  CallsKeepTheirWord'
<1>1. CASE answer' = answer
  BY <1>1, SilenceKeeps
<1>2. CASE q \in WriteAsks /\ StartOutput(q) /\ Answer("writer", q, q.len, "none")
  <2>1. q.op = "output" /\ q.len \in Nat /\ q.min \in Nat /\ q.min <= q.len
    BY <1>2, IOAssumption DEF StartOutput
  <2>2. WordKept(q.op, q.len, q.min, q.len, "none")
    BY <2>1 DEF WordKept
  <2> QED BY <1>2, <2>2, AnswerKeeps
<1>3. CASE WritevOk(n) /\ answer' # answer
  <2>1. w.pc = "writev" /\ Put(Gathered, n)
    BY <1>3 DEF WritevOk
  <2>2. /\ OutputFits(w) /\ w \in Writing
        /\ w.len \in Nat /\ w.min \in Nat /\ w.boff \in Nat /\ w.buff_len \in Nat
        /\ w.buff_iov \in Nat /\ w.base \in Nat /\ w.bstr_len \in Nat /\ w.bstr_iov \in Nat
    BY <2>1, WhileWritev
  <2>3. PICK l \in Nat, m \in Nat, b \in Nat, bi \in Nat, p \in Nat, s \in Nat, si \in Nat :
          /\ l = w.len /\ m = w.min /\ b = w.buff_len /\ bi = w.buff_iov
          /\ p = w.base /\ s = w.bstr_len /\ si = w.bstr_iov
    BY <2>2
  <2>4. m <= l /\ p + s = l /\ bi <= b /\ si <= s /\ w.op = "output"
    BY <2>2, <2>3 DEF OutputFits, Writing
  <2>5. n \in 0..(bi + si)
    <3>1. PICK g : g = Gathered
      OBVIOUS
    <3>2. g \in Seq(Nat) /\ Len(g) = bi + si /\ Put(g, n)
      BY <2>1, <2>3, <3>1, GatheredNumbered
    <3>3. wire \in Seq(Nat)
      BY ReaderRigid
    <3> QED BY <3>2, <3>3, PutAdds
  <2>6. /\ p + (n - b) >= m /\ Answer("writer", w, p + (n - b), "none") /\ ~(b > n)
    BY <1>3, <2>3 DEF WritevOk
  <2>7. p + (n - b) <= l /\ p + (n - b) >= 0
    BY <2>4, <2>5, <2>6
  <2>8. WordKept(w.op, w.len, w.min, p + (n - b), "none")
    BY <2>3, <2>4, <2>6, <2>7 DEF WordKept
  <2> QED BY <2>6, <2>8, AnswerKeeps
<1>4. CASE e \in Errors /\ WritevFault(e) /\ answer' # answer
  <2>1. w.pc = "writev" /\ Answer("writer", w, w.base, e) /\ e \notin {"EOF", "none"}
    BY <1>4 DEF WritevFault, Errors
  <2>2. /\ OutputFits(w) /\ w \in Writing
        /\ w.len \in Nat /\ w.min \in Nat /\ w.base \in Nat
    BY <2>1, WhileWritev
  <2>3. PICK l \in Nat, m \in Nat, p \in Nat : l = w.len /\ m = w.min /\ p = w.base
    BY <2>2
  <2>4. m <= l /\ l > 0 /\ (p = 0 \/ p < m)
    BY <2>2, <2>3 DEF OutputFits
  <2>5. p < l
    BY <2>4
  <2>6. WordKept(w.op, w.len, w.min, w.base, e)
    BY <2>1, <2>3, <2>4, <2>5 DEF WordKept
  <2> QED BY <2>1, <2>6, AnswerKeeps
<1> QED BY <1>1, <1>2, <1>3, <1>4 DEF StartOutput

LEMMA WriteKeeps ==
  ASSUME IInv, CallsKeepTheirWord, AtEof => AtEof', NEW n, NEW e,
         WriteOk(n) \/ (e \in Errors /\ WriteFault(e)) \/ SendBlocked
  PROVE  CallsKeepTheirWord'
<1>1. w.pc = "write"
  BY DEF WriteOk, WriteFault, SendBlocked
<1>2. w \in Sending /\ SendFits(w) /\ w.len \in Nat /\ w.min \in Nat /\ w.base \in Nat
  BY <1>1, WhileWrite
<1>3. PICK l \in Nat, m \in Nat, p \in Nat : l = w.len /\ m = w.min /\ p = w.base
  BY <1>2
<1>4. /\ m <= l /\ (p = 0 \/ (p < l /\ w.op = "really_write"))
      /\ w.op \in {"really_write", "write", "writev", "send"}
  BY <1>2, <1>3 DEF SendFits, Sending
<1>5. CASE answer' = answer
  BY <1>5, SilenceKeeps
<1>6. CASE WriteOk(n) /\ answer' # answer
  <2>1. /\ Put(SubSeq(w.data, w.base + 1, w.len), n) /\ Answer("writer", w, p + n, "none")
        /\ ~(w.op = "really_write" /\ p + n < l)
    BY <1>3, <1>6 DEF WriteOk
  <2>2. PICK d \in Seq(Nat) : d = w.data /\ Len(d) = l
    BY <1>1, <1>2, <1>3, WhileWrite DEF SendFits
  <2>3. PICK k \in Nat : k = l - p /\ p + k = l /\ p + k <= Len(d)
    <3>1. l - p \in Nat /\ p + (l - p) = l
      BY <1>4
    <3> QED BY <2>2, <3>1
  <2>4. PICK g : g = SubSeq(d, p + 1, p + k)
    OBVIOUS
  <2>5. g \in Seq(Nat) /\ Len(g) = k
    <3>1. IsPart(SubSeq(d, p + 1, p + k), d, p, k)
      BY <2>3, PartOf
    <3> QED BY <2>4, <3>1 DEF IsPart
  <2>6. Put(g, n)
    BY <1>3, <2>1, <2>2, <2>3, <2>4
  <2>7. n \in 0..k
    BY <2>5, <2>6, PutAdds, ReaderRigid
  <2>8. p + n <= l /\ p + n >= 0 /\ (w.op = "really_write" => p + n = l)
    BY <2>1, <2>3, <2>7
  <2>9. p + n = l => p + n >= m
    BY <1>4
  <2>10. WordKept(w.op, w.len, w.min, p + n, "none")
    BY <1>3, <1>4, <2>8, <2>9 DEF WordKept
  <2> QED BY <2>1, <2>10, AnswerKeeps
<1>7. CASE e \in Errors /\ WriteFault(e)
  <2>1. Answer("writer", w, w.base, e) /\ e \notin {"EOF", "none"}
    BY <1>7 DEF WriteFault, Errors
  <2>2. p < l \/ l = 0
    BY <1>4
  <2>3. WordKept(w.op, w.len, w.min, w.base, e)
    BY <1>3, <1>4, <2>1, <2>2 DEF WordKept
  <2> QED BY <2>1, <2>3, AnswerKeeps
<1>8. CASE SendBlocked
  <2>1. Answer("writer", w, -1, "none") /\ w.op = "send"
    BY <1>8 DEF SendBlocked
  <2>2. -1 <= l
    OBVIOUS
  <2>3. WordKept(w.op, w.len, w.min, -1, "none")
    BY <1>3, <2>1, <2>2 DEF WordKept
  <2> QED BY <2>1, <2>3, AnswerKeeps
<1> QED BY <1>5, <1>6, <1>7, <1>8

LEMMA InputKeeps ==
  ASSUME IInv, CallsKeepTheirWord, AtEof => AtEof', NEW n, NEW e, NEW q,
         \/ q \in ReadAsks /\ StartInput(q)
         \/ ReadvOk(n) \/ ReadvEof
         \/ e \in Errors /\ ReadvFault(e)
  PROVE  CallsKeepTheirWord'
<1>1. CASE answer' = answer
  BY <1>1, SilenceKeeps
<1>2. CASE q \in ReadAsks /\ StartInput(q) /\ answer' # answer
  <2>1. q.op = "input" /\ Answer("reader", q, q.len, "none")
    BY <1>2 DEF StartInput
  <2>2. q.len \in Nat /\ q.min \in Nat /\ q.min <= q.len
    BY <1>2, IOAssumption
  <2>3. WordKept(q.op, q.len, q.min, q.len, "none")
    BY <2>1, <2>2 DEF WordKept
  <2> QED BY <2>1, <2>3, AnswerKeeps
<1>3. CASE r.pc = "readv" /\ ~(q \in ReadAsks /\ StartInput(q)) /\ answer' # answer
  <2>1. /\ r \in Filling /\ InputFits(r)
        /\ r.len \in Nat /\ r.min \in Nat /\ r.base \in Nat /\ r.iov_len \in Nat
    BY <1>3, WhileReadv
  <2>2. PICK l \in Nat, m \in Nat, b \in Nat, v \in Nat :
          l = r.len /\ m = r.min /\ b = r.base /\ v = r.iov_len
    BY <2>1
  <2>3. m <= l /\ b + v = l /\ (b < l \/ l = 0) /\ r.op = "input"
    BY <2>1, <2>2 DEF InputFits, Filling
  <2>4. CASE ReadvOk(n)
    <3>1. /\ b + n >= m /\ Take(r.iov_len + BufSize, n)
          /\ IF n > v THEN EndInput(r.len, "none") ELSE EndInput(b + n, "none")
      BY <1>3, <2>2, <2>4 DEF ReadvOk
    <3>2. n \in Nat
      <4>1. r.iov_len + BufSize \in Nat /\ wire \in Seq(Nat)
        <5>1. BufSize \in Nat /\ wire \in Seq(Nat)
          BY IOAssumption, ReaderRigid
        <5> QED BY <2>1, <5>1
      <4>2. n \in 1..(r.iov_len + BufSize)
        BY <3>1, <4>1, TakeRemoves
      <4> QED BY <4>1, <4>2
    <3>3. CASE n > v
      <4>1. Answer("reader", r, r.len, "none")
        BY <3>1, <3>3 DEF EndInput
      <4>2. WordKept(r.op, r.len, r.min, r.len, "none")
        BY <2>2, <2>3 DEF WordKept
      <4> QED BY <4>1, <4>2, AnswerKeeps
    <3>4. CASE ~(n > v)
      <4>1. Answer("reader", r, b + n, "none")
        BY <3>1, <3>4 DEF EndInput
      <4>2. b + n <= l /\ b + n >= 0
        BY <2>3, <3>2, <3>4
      <4>3. WordKept(r.op, r.len, r.min, b + n, "none")
        BY <2>2, <2>3, <3>1, <4>2 DEF WordKept
      <4> QED BY <4>1, <4>3, AnswerKeeps
    <3> QED BY <3>3, <3>4
  <2>5. CASE e \in Errors /\ ReadvFault(e)
    <3>1. Answer("reader", r, r.base, e) /\ e \notin {"none", "EOF"}
      BY <1>3, <2>5 DEF ReadvFault, EndInput, Errors
    <3>2. WordKept(r.op, r.len, r.min, r.base, e)
      BY <2>2, <2>3, <3>1 DEF WordKept
    <3> QED BY <3>1, <3>2, AnswerKeeps
  <2>6. CASE ReadvEof
    <3>1. AtEof'
      BY <2>6 DEF ReadvEof
    <3>2. CASE r.len = 0
      <4>1. Answer("reader", r, 0, "none")
        BY <2>6, <3>2 DEF ReadvEof, EndInput
      <4>2. 0 >= m /\ 0 <= l
        BY <2>2, <2>3, <3>2
      <4>3. WordKept(r.op, r.len, r.min, 0, "none")
        BY <2>2, <2>3, <4>2 DEF WordKept
      <4> QED BY <4>1, <4>3, AnswerKeeps
    <3>3. CASE r.len # 0
      <4>1. Answer("reader", r, r.base, "EOF")
        BY <2>6, <3>3 DEF ReadvEof, EndInput
      <4>2. WordKept(r.op, r.len, r.min, r.base, "EOF")
        BY <2>2, <2>3 DEF WordKept
      <4> QED BY <3>1, <4>1, <4>2, AnswerKeeps
    <3> QED BY <3>2, <3>3
  <2> QED BY <1>3, <2>4, <2>5, <2>6
<1> QED BY <1>1, <1>2, <1>3 DEF ReadvOk, ReadvFault, ReadvEof

LEMMA ReadKeeps ==
  ASSUME IInv, CallsKeepTheirWord, AtEof => AtEof', NEW n, NEW e, NEW q,
         \/ q \in ReadAsks /\ StartRead(q)
         \/ ReadOk(n) \/ RecvOk(n) \/ ReadEof
         \/ e \in Errors /\ ReadFault(e)
  PROVE  CallsKeepTheirWord'
<1>1. CASE answer' = answer
  BY <1>1, SilenceKeeps
<1>2. CASE q \in ReadAsks /\ StartRead(q) /\ answer' # answer
  <2>1. q.op = "really_recv" /\ q.len = 0 /\ Answer("reader", q, 0, "none")
    BY <1>2 DEF StartRead
  <2>2. q.len \in Nat /\ q.min \in Nat /\ q.min <= q.len
    BY <1>2, IOAssumption
  <2>3. WordKept(q.op, q.len, q.min, 0, "none")
    BY <2>1, <2>2 DEF WordKept
  <2> QED BY <2>1, <2>3, AnswerKeeps
<1>3. CASE r.pc = "read" /\ ~(q \in ReadAsks /\ StartRead(q)) /\ answer' # answer
  <2>1. /\ r \in Reading /\ ReadFits(r)
        /\ r.len \in Nat /\ r.min \in Nat /\ r.base \in Nat /\ r.left \in Nat
        /\ Good(r) \in Nat /\ Good(r) = r.len - r.left /\ r.left <= r.len
    BY <1>3, WhileRead
  <2>2. PICK l \in Nat, m \in Nat, b \in Nat, f \in Nat, g \in Nat :
          l = r.len /\ m = r.min /\ b = r.base /\ f = r.left /\ g = Good(r)
    BY <2>1
  <2>3. /\ m <= l /\ g = l - f /\ f <= l /\ (f > 0 \/ l = 0)
        /\ r.op \in {"read", "really_recv", "read_nonblocking"}
        /\ (r.op # "really_recv" => b = g)
    BY <2>1, <2>2 DEF ReadFits, Reading
  <2>4. CASE ReadOk(n)
    <3>1. r.op # "really_recv" /\ Enough(r, n) /\ Answer("reader", r, b + n, "none")
      BY <1>3, <2>2, <2>4 DEF ReadOk, EndRead
    <3>2. n \in Nat /\ n <= f
      <4>1. CASE r.len = 0
        BY <2>2, <2>4, <4>1 DEF ReadOk
      <4>2. CASE r.len # 0
        <5>1. Take(f, n) /\ wire \in Seq(Nat)
          BY <2>2, <2>4, <4>2, ReaderRigid DEF ReadOk
        <5>2. n \in 1..f
          BY <5>1, TakeRemoves
        <5> QED BY <5>2
      <4> QED BY <4>1, <4>2
    <3>3. b + n <= l /\ b + n >= 0
      <4>1. b = l - f
        BY <2>3, <3>1
      <4> QED BY <3>2, <4>1
    <3>4. r.op = "read" => b + n >= m
      BY <2>2, <3>1 DEF Enough
    <3>5. WordKept(r.op, r.len, r.min, b + n, "none")
      BY <2>2, <2>3, <3>1, <3>3, <3>4 DEF WordKept
    <3> QED BY <3>1, <3>5, AnswerKeeps
  <2>5. CASE RecvOk(n)
    <3>1. Answer("reader", r, r.len, "none")
      BY <1>3, <2>5 DEF RecvOk, EndRead
    <3>2. WordKept(r.op, r.len, r.min, r.len, "none")
      BY <2>2, <2>3 DEF WordKept
    <3> QED BY <3>1, <3>2, AnswerKeeps
  <2>6. g < l \/ l = 0
    BY <2>3
  <2>7. r.op = "read" => g = 0 \/ g < m
    BY <2>1, <2>2, <2>3 DEF ReadFits
  <2>8. \A x : x # "none" => WordKept(r.op, r.len, r.min, Good(r), x)
    BY <2>2, <2>3, <2>6, <2>7 DEF WordKept
  <2>9. CASE e \in Errors /\ ReadFault(e)
    <3>1. Answer("reader", r, Good(r), e) /\ e \notin {"none", "EOF"}
      BY <2>9 DEF ReadFault, EndRead, Errors
    <3> QED BY <2>8, <3>1, AnswerKeeps
  <2>10. CASE ReadEof
    <3>1. AtEof'
      BY <2>10 DEF ReadEof
    <3>2. CASE r.op = "read_nonblocking"
      <4>1. Answer("reader", r, Good(r), "none")
        BY <2>10, <3>2 DEF ReadEof, EndRead
      <4>2. g <= l /\ g >= 0
        BY <2>3
      <4>3. WordKept(r.op, r.len, r.min, Good(r), "none")
        BY <2>2, <3>2, <4>2 DEF WordKept
      <4> QED BY <4>1, <4>3, AnswerKeeps
    <3>3. CASE r.op # "read_nonblocking"
      <4>1. Answer("reader", r, Good(r), "EOF")
        BY <2>10, <3>3 DEF ReadEof, EndRead
      <4> QED BY <2>8, <3>1, <4>1, AnswerKeeps
    <3> QED BY <3>2, <3>3
  <2> QED BY <1>3, <2>4, <2>5, <2>9, <2>10
<1> QED BY <1>1, <1>2, <1>3 DEF ReadOk, RecvOk, ReadFault, ReadEof

LEMMA WordStays ==
  ASSUME IInv, CallsKeepTheirWord, [Next]_vars
  PROVE  CallsKeepTheirWord'
<1>1. AtEof => AtEof'
  BY EofStays
<1>2. ASSUME answer' = answer PROVE CallsKeepTheirWord'
  BY <1>1, <1>2, SilenceKeeps
<1>3. ASSUME NEW q \in WriteAsks, StartOut(q) PROVE CallsKeepTheirWord'
  <2>1. CASE StartOutput(q)
    BY <1>1, <2>1, OutputKeeps
  <2>2. CASE StartWrite(q)
    BY <1>2, <2>2 DEF StartWrite
  <2> QED BY <1>3, <2>1, <2>2 DEF StartOut
<1>4. ASSUME NEW n, WritevOk(n) \/ WriteOk(n) PROVE CallsKeepTheirWord'
  BY <1>1, <1>4, OutputKeeps, WriteKeeps
<1>5. ASSUME NEW e \in Errors, WritevFault(e) \/ WriteFault(e) PROVE CallsKeepTheirWord'
  BY <1>1, <1>5, OutputKeeps, WriteKeeps
<1>6. ASSUME SendBlocked PROVE CallsKeepTheirWord'
  BY <1>1, <1>6, WriteKeeps
<1>7. ASSUME NEW q \in ReadAsks, StartIn(q) PROVE CallsKeepTheirWord'
  BY <1>1, <1>7, InputKeeps, ReadKeeps DEF StartIn
<1>8. ASSUME NEW n, ReadvOk(n) \/ ReadOk(n) \/ RecvOk(n) PROVE CallsKeepTheirWord'
  BY <1>1, <1>8, InputKeeps, ReadKeeps
<1>9. ASSUME NEW e \in Errors, ReadvFault(e) \/ ReadFault(e) PROVE CallsKeepTheirWord'
  BY <1>1, <1>9, InputKeeps, ReadKeeps
<1>10. ASSUME Eof PROVE CallsKeepTheirWord'
  BY <1>1, <1>10, InputKeeps, ReadKeeps DEF Eof
<1>11. ASSUME NEW n, NEW e, FlushSome(n) \/ CloseFault(e) \/ StartClose \/ CloseOk \/ Done
                            \/ UNCHANGED vars
       PROVE  CallsKeepTheirWord'
  BY <1>2, <1>11 DEF FlushSome, CloseFault, StartClose, CloseOk, Done, vars
<1> QED
  BY <1>3, <1>4, <1>5, <1>6, <1>7, <1>8, <1>9, <1>10, <1>11 DEF Next, Output, Input

(* The fallback of an output to a single byte has failed: the wire is full.*)
LEMMA BlockedFull ==
  ASSUME IInv, WritevFault("EAGAIN"), answer' # answer
  PROVE  Len(wire) = PipeSize
<1>1. /\ w.pc = "writev" /\ ~MayTryOneByte
      /\ Len(wire) + w.buff_iov + w.bstr_iov > PipeSize
  BY DEF WritevFault, Fault
<1>2. w.buff_iov \in Nat /\ w.bstr_iov \in Nat
  BY <1>1, WhileWritev
<1>3. PICK bi \in Nat, si \in Nat, y \in Nat, z \in Nat :
        bi = w.buff_iov /\ si = w.bstr_iov /\ y = Len(wire) /\ z = PipeSize
  BY <1>2, ReaderRigid, IOAssumption
<1>4. bi + si <= 1 /\ y + bi + si > z /\ y <= z
  BY <1>1, <1>3 DEF MayTryOneByte, IInv, PipeFits
<1>5. y = z
  BY <1>4
<1> QED BY <1>3, <1>5

LEMMA OnlyWritevBlocks ==
  ASSUME IInv, [Next]_vars, answer' # answer, answer'.op = "output", answer'.exn = "EAGAIN"
  PROVE  WritevFault("EAGAIN")
<1>1. ASSUME NEW q, StartOut(q) \/ StartIn(q) PROVE FALSE
  BY <1>1 DEF StartOut, StartIn, StartOutput, StartWrite, StartInput, StartRead, Answer
<1>2. ASSUME NEW n, WritevOk(n) \/ WriteOk(n) \/ FlushSome(n) PROVE FALSE
  BY <1>2 DEF WritevOk, WriteOk, FlushSome, Answer
<1>3. ASSUME NEW n, ReadvOk(n) \/ ReadOk(n) \/ RecvOk(n) PROVE FALSE
  BY <1>3 DEF ReadvOk, ReadOk, RecvOk, EndInput, EndRead, Answer
<1>4. ASSUME NEW e \in Errors, WritevFault(e) PROVE WritevFault("EAGAIN")
  <2>1. e = "EAGAIN"
    BY <1>4 DEF WritevFault, Answer, Errors
  <2> QED BY <1>4, <2>1
<1>5. ASSUME NEW e, WriteFault(e) \/ SendBlocked PROVE FALSE
  <2>1. w.pc = "write" /\ answer'.op = w.op
    BY <1>5 DEF WriteFault, SendBlocked, Answer
  <2>2. w.op # "output"
    BY <2>1, WhileWrite DEF Sending
  <2> QED BY <2>1, <2>2
<1>6. ASSUME NEW e, ReadvFault(e) \/ ReadvEof PROVE FALSE
  <2>1. r.pc = "readv" /\ answer'.op = r.op
    BY <1>6 DEF ReadvFault, ReadvEof, EndInput, Answer
  <2>2. r.op # "output"
    BY <2>1, WhileReadv DEF Filling
  <2> QED BY <2>1, <2>2
<1>7. ASSUME NEW e, ReadFault(e) \/ ReadEof PROVE FALSE
  <2>1. r.pc = "read" /\ answer'.op = r.op
    BY <1>7 DEF ReadFault, ReadEof, EndRead, Answer
  <2>2. r.op # "output"
    BY <2>1, WhileRead DEF Reading
  <2> QED BY <2>1, <2>2
<1>8. ASSUME NEW e, CloseFault(e) \/ StartClose \/ CloseOk \/ Done \/ UNCHANGED vars PROVE FALSE
  BY <1>8 DEF CloseFault, StartClose, CloseOk, Done, vars
<1> QED
  BY <1>1, <1>2, <1>3, <1>4, <1>5, <1>6, <1>7, <1>8 DEF Next, Output, Input, Eof

(* Calls transfer what they promise: all of it or at least min_len bytes,  *)
(* less than asked for only when they fail, and End_of_file is raised only *)
(* at the end of the stream (the stubs' loops and their error paths).      *)
THEOREM CallsDoWhatTheyPromise == Spec => []CallsKeepTheirWord
<1>1. Init => CallsKeepTheirWord
  BY DEF Init, CallsKeepTheirWord
<1>2. IInv /\ [Next]_vars => IInv'
  BY IONext
<1>3. IInv /\ CallsKeepTheirWord /\ [Next]_vars => CallsKeepTheirWord'
  BY WordStays
<1> QED BY <1>1, <1>2, <1>3, IOInit, PTL DEF Spec

(* bigstring_output_stub raises EAGAIN only after it has tried to write a  *)
(* single byte: whatever the sizes, the kernel holds all that it can.      *)
THEOREM OutputBlocksOnlyWhenFull == Spec => BlockedOnlyWhenFull
<1>1. IInv /\ [Next]_vars => IInv'
  BY IONext
<1>2. IInv /\ [Next]_vars =>
        [answer' # answer /\ answer'.op = "output" /\ answer'.exn = "EAGAIN"
           => Len(wire) = PipeSize]_vars
  BY OnlyWritevBlocks, BlockedFull
<1> QED BY <1>1, <1>2, IOInit, PTL DEF Spec, BlockedOnlyWhenFull

-----------------------------------------------------------------------------
(* Programs that are started (Processes.tla).                              *)

(* What a table of descriptors holds.                                      *)
Standard == {Std(d) : d \in Fds}
Pipes    == UNION {EndsOf(c) : c \in Calls}
AnyFile  == {None} \cup Standard \cup Pipes
Entry    == [file : AnyFile, cloexec : BOOLEAN]
Table    == [Fds -> Entry]

(* The inductive invariant.  The descriptors of a table above 2 are free   *)
(* or close on exec; the program's files are in their places.              *)
Clean(T)     == \A d \in Fds : d > 2 => T[d].file = None \/ T[d].cloexec
Stands(T, k) == \A i \in 1..3 : T[i - 1] = [file |-> k.files[i], cloexec |-> FALSE]
Runs(T, k)   ==
  \A d \in Fds : T[d].file = IF d \in 0..2 THEN k.files[d + 1] ELSE None

(* A call, its child and the bytes in its pipe, of types ...               *)
Results == {"none", "ok", "EMFILE", "EAGAIN", "ENOENT", "EPERM", "EINVAL", "ENOEXEC"}
CallType ==
  [pc : {"called", "reading", "waiting", "done"}, q : Requests,
   fds : Seq(Fds), offset : Nat, result : Results,
   got : SUBSET Fds, files : [1..3 -> AnyFile]]
BeforeExec == {"dup", "chdir", "setuid", "setgid", "exec"}
ChildStates ==
  BeforeExec \cup {"none", "running", "ended", "report", "spinning", "dead", "reaped"}
ChildType ==
  [state : ChildStates, T : Table, uid : {0, 1}, errno : Results \ {"ok"}]

(* ... and what they have in common.  The write end of a spawn's pipe is   *)
(* there until its child executes the program, unless dup2 took away its   *)
(* descriptor.                                                             *)
NotCalled(k, h, e)   == k = NoCall /\ h = NoChild /\ e = 0
Forkless(k, h, e) == k \in CallType /\ k.pc = "done" /\ k.got = {} /\ h = NoChild /\ e = 0

SpawnFiles(k, h) ==
  /\ h.state \in BeforeExec => Clean(h.T)
  /\ h.state = "dup" => \A i \in 1..3 : h.T[k.q.std[i]].file = k.files[i]
  /\ h.state \in BeforeExec \ {"dup"} => Stands(h.T, k)
  /\ h.state = "running" => Runs(h.T, k)
SpawnErrno(c, k, h, e) ==
  /\ k.fds[2] > 2 =>
       /\ h.state \in BeforeExec \cup {"report"} =>
            h.T[k.fds[2]].file = End(c, "errno", "write")
       /\ h.state = "dead" => k.offset + e = IntSize
       /\ h.state # "spinning"
  /\ k.pc # "done" => h.state # "reaped"
  /\ k.pc = "done" =>
       /\ k.result = "ok" /\ k.fds[2] > 2 => h.state \in {"running", "ended"}
       /\ k.result # "ok" => h.state = "reaped" /\ k.result = h.errno
Spawned(c, k, h, e) ==
  /\ k \in CallType /\ h \in ChildType /\ e \in Nat
  /\ k.q.kind = "spawn" /\ k.got = {} /\ h.state # "none"
  /\ k.fds \in [1..2 -> Fds] /\ k.fds[1] # k.fds[2]
  /\ SpawnFiles(k, h) /\ SpawnErrno(c, k, h, e)

CreateFiles(c, k, h) ==
  /\ k.files[1] = End(c, "stdin", "read") /\ k.files[2] = End(c, "stdout", "write")
  /\ k.files[3] = End(c, "stderr", "write")
  /\ h.state = "dup" =>
       /\ h.T[k.fds[1]].file = k.files[1] /\ h.T[k.fds[4]].file = k.files[2]
       /\ h.T[k.fds[6]].file = k.files[3]
       /\ \A i \in 1..6 : h.T[k.fds[i]].file # None
       /\ \A d \in 0..2 : h.T[d] # Free
       /\ \A d \in Fds : d > 2 /\ (\A i \in 1..6 : k.fds[i] # d) =>
            h.T[d].file = None \/ h.T[d].cloexec
  /\ h.state \in {"chdir", "exec"} => Clean(h.T) /\ Stands(h.T, k)
  /\ h.state = "running" => Runs(h.T, k)
CreateErrno(k, h, e) ==
  /\ h.state = "report" =>
       h.T[IF h.errno = "EMFILE" THEN k.fds[6] ELSE 2].file = k.files[3]
  /\ h.state = "dead" => e = 1
Created(c, k, h, e) ==
  /\ k \in CallType /\ h \in ChildType /\ e \in Nat
  /\ k.q.kind = "create" /\ k.pc = "done"
  /\ h.state \in {"dup", "chdir", "exec", "running", "ended", "report", "dead"}
  /\ k.fds \in [1..6 -> Fds] /\ \A i, j \in 1..6 : k.fds[i] = k.fds[j] => i = j
  /\ CreateFiles(c, k, h) /\ CreateErrno(k, h, e)

Story(c, k, h, e) ==
  NotCalled(k, h, e) \/ Forkless(k, h, e) \/ Spawned(c, k, h, e) \/ Created(c, k, h, e)

(* The pipes that the parent holds ends of are those of its calls: it has  *)
(* either end of its own during a spawn, and what it gave to its client.   *)
Gets(k) ==
  IF k.pc = "called" THEN {k.fds[1], k.fds[2]}
  ELSE IF k.pc = "reading" THEN {k.fds[1]}
  ELSE IF k.pc = "done" THEN k.got ELSE {}
Tidy(P) == P \in Table /\ Clean(P) /\ \A d \in Fds : P[d].file = None => P[d] = Free
Accounted(P, cl) ==
  /\ \A d \in Fds : P[d].file \in Pipes => \E c \in Calls : d \in Gets(cl[c])
  /\ \A c \in Calls : \A d \in Gets(cl[c]) : d \in Fds /\ P[d].file \in EndsOf(c)

ProcessIInv ==
  /\ uid \in {0, 1}
  /\ call \in [Calls -> CallType \cup {NoCall}]
  /\ child \in [Calls -> ChildType] /\ errpipe \in [Calls -> Nat]
  /\ \A c \in Calls : Story(c, call[c], child[c], errpipe[c])
  /\ Tidy(parent) /\ Accounted(parent, call)
-----------------------------------------------------------------------------
(* Files are what their names say.                                         *)
LEMMA FilesDiffer ==
  /\ None \notin Standard /\ None \notin Pipes /\ Standard \cap Pipes = {}
  /\ \A c \in Calls : EndsOf(c) \subseteq Pipes
  /\ \A c, o \in Calls : c # o => EndsOf(c) \cap EndsOf(o) = {}
<1>1. None \notin Standard /\ None \notin Pipes
  BY NoFileAssumption DEF Standard, Pipes
<1>2. ASSUME NEW d \in Fds, NEW c, NEW k, NEW e PROVE Std(d) # End(c, k, e)
  <2>1. DOMAIN Std(d) = {"std"}
    BY DEF Std
  <2>2. DOMAIN End(c, k, e) = {"pipe", "end"}
    BY DEF End
  <2>3. "pipe" \in {"pipe", "end"} /\ "pipe" \notin {"std"}
    OBVIOUS
  <2> QED BY <2>1, <2>2, <2>3
<1>3. Standard \cap Pipes = {}
  BY <1>2 DEF Standard, Pipes, EndsOf
<1>4. ASSUME NEW c \in Calls, NEW o \in Calls, c # o, NEW k, NEW e, NEW l, NEW f
      PROVE  End(c, k, e) # End(o, l, f)
  <2>1. End(c, k, e).pipe[1] = c /\ End(o, l, f).pipe[1] = o
    BY DEF End
  <2> QED BY <2>1, <1>4
<1>5. \A c, o \in Calls : c # o => EndsOf(c) \cap EndsOf(o) = {}
  BY <1>4 DEF EndsOf
<1>6. \A c \in Calls : EndsOf(c) \subseteq Pipes
  BY DEF Pipes
<1> QED BY <1>1, <1>3, <1>5, <1>6

LEMMA EndIsPipe ==
  ASSUME NEW c \in Calls, NEW k \in Kinds, NEW e \in {"read", "write"}
  PROVE  End(c, k, e) \in EndsOf(c) /\ End(c, k, e) \in Pipes /\ End(c, k, e) # None
<1>1. End(c, k, e) \in EndsOf(c)
  BY DEF EndsOf
<1> QED BY <1>1, FilesDiffer

LEMMA FreeEntry ==
  /\ Free \in Entry /\ Free.file = None /\ Free.cloexec = FALSE
  /\ \A x \in Entry : x.file = None /\ ~x.cloexec => x = Free
BY DEF Free, Entry, AnyFile

LEMMA EntryFields ==
  ASSUME NEW T \in Table, NEW d \in Fds
  PROVE  T[d] \in Entry /\ T[d].file \in AnyFile /\ T[d].cloexec \in BOOLEAN
BY DEF Table, Entry

LEMMA LimitFacts == Limit \in Nat /\ Limit > 2 /\ Limit - 1 \in Nat /\ 0..2 \subseteq Fds
BY LimitAssumption DEF Fds

-----------------------------------------------------------------------------
(* The lowest descriptors that are free.                                   *)
LEMMA RoomType ==
  ASSUME NEW T, NEW n \in Int, NEW m \in Int
  PROVE  Room(T, n, m) \in Nat /\ (n > m => Room(T, n, m) = 0)
<1>1. IsFiniteSet(n..m)
  BY FS_Interval
<1>2. IsFiniteSet({d \in n..m : T[d] = Free})
  BY <1>1, FS_Subset
<1>3. ASSUME n > m PROVE Cardinality({d \in n..m : T[d] = Free}) = 0
  <2>1. {d \in n..m : T[d] = Free} = {}
    BY <1>3
  <2> QED BY <2>1, FS_EmptySet
<1>4. Cardinality({d \in n..m : T[d] = Free}) \in Nat
  BY <1>2, FS_CardinalityType
<1> QED BY <1>3, <1>4 DEF Room

LEMMA RoomGrows ==
  ASSUME NEW T, NEW n \in Int, NEW m \in Int, NEW o \in Int, m <= o
  PROVE  Room(T, n, m) <= Room(T, n, o)
<1>1. {d \in n..m : T[d] = Free} \subseteq {d \in n..o : T[d] = Free}
  OBVIOUS
<1>2. IsFiniteSet(n..o)
  BY FS_Interval
<1>3. IsFiniteSet({d \in n..o : T[d] = Free})
  BY <1>2, FS_Subset
<1>4. Cardinality({d \in n..m : T[d] = Free}) <= Cardinality({d \in n..o : T[d] = Free})
  BY <1>1, <1>3, FS_Subset
<1> QED BY <1>4 DEF Room

LEMMA RoomStep ==
  ASSUME NEW T, NEW n \in Int, NEW m \in Int, n <= m
  PROVE  Room(T, n, m) = Room(T, n, m - 1) + IF T[m] = Free THEN 1 ELSE 0
<1>1. PICK A, B : A = {d \in n..m : T[d] = Free} /\ B = {d \in n..m - 1 : T[d] = Free}
  OBVIOUS
<1>2. IsFiniteSet(B) /\ Cardinality(B) \in Nat
  <2>1. IsFiniteSet(n..m - 1) /\ B \subseteq n..m - 1
    BY <1>1, FS_Interval
  <2>2. IsFiniteSet(B)
    BY <2>1, FS_Subset
  <2> QED BY <2>2, FS_CardinalityType
<1>0. Cardinality(A) = Room(T, n, m) /\ Cardinality(B) = Room(T, n, m - 1)
  BY <1>1 DEF Room
<1>3. CASE T[m] = Free
  <2>1. A = B \cup {m} /\ m \notin B
    BY <1>1, <1>3
  <2>2. Cardinality(A) = Cardinality(B) + 1
    BY <2>1, <1>2, FS_AddElement
  <2> QED BY <1>0, <1>3, <2>2
<1>4. CASE T[m] # Free
  <2>1. A = B
    BY <1>1, <1>4
  <2> QED BY <1>0, <1>2, <1>4, <2>1
<1> QED BY <1>3, <1>4

LEMMA NthFree ==
  ASSUME NEW T, NEW n \in Nat, NEW j \in Nat, Room(T, n, Limit - 1) > j
  PROVE  \E d \in n..Limit - 1 : T[d] = Free /\ Room(T, n, d - 1) = j
<1>1. PICK S : S = {d \in Nat : Room(T, n, d) > j}
  OBVIOUS
<1>2. S \in SUBSET Nat /\ Limit - 1 \in S
  BY <1>1, LimitFacts
<1>3. PICK d \in S : \A y \in S : d <= y
  BY <1>2, Smallest
<1>4. d \in Nat /\ d <= Limit - 1 /\ Room(T, n, d) > j
  BY <1>1, <1>2, <1>3
<1>5. n <= d
  <2>1. d < n => Room(T, n, d) = 0
    BY <1>4, RoomType
  <2> QED BY <2>1, <1>4
<1>6. Room(T, n, d - 1) <= j /\ Room(T, n, d - 1) \in Nat
  <2>1. Room(T, n, d - 1) \in Nat
    BY <1>4, RoomType
  <2>2. CASE d = 0
    <3>1. Room(T, n, d - 1) = 0
      BY <2>2, RoomType
    <3> QED BY <3>1
  <2>3. CASE d # 0
    <3>1. d - 1 \in Nat /\ ~(d <= d - 1)
      BY <2>3, <1>4
    <3>2. d - 1 \notin S
      BY <3>1, <1>3
    <3>3. ~(Room(T, n, d - 1) > j)
      BY <3>1, <3>2, <1>1
    <3> QED BY <3>3, <2>1
  <2> QED BY <2>2, <2>3
<1>7. Room(T, n, d) = Room(T, n, d - 1) + IF T[d] = Free THEN 1 ELSE 0
  BY <1>4, <1>5, RoomStep
<1>8. T[d] = Free /\ Room(T, n, d - 1) = j
  BY <1>4, <1>6, <1>7
<1> QED BY <1>4, <1>5, <1>8, LimitFacts

LEMMA FreeIsNth ==
  ASSUME NEW T, NEW n \in Nat, NEW d \in n..Limit - 1, NEW e \in n..Limit - 1,
         T[d] = Free, T[e] = Free, Room(T, n, d - 1) = Room(T, n, e - 1)
  PROVE  d = e
<1>1. ASSUME NEW a \in n..Limit - 1, NEW b \in n..Limit - 1, a < b, T[a] = Free,
             Room(T, n, a - 1) = Room(T, n, b - 1)
      PROVE  FALSE
  <2>0. a \in Int /\ b \in Int /\ n <= a /\ a <= b - 1
    BY <1>1, LimitFacts
  <2>1. Room(T, n, a) = Room(T, n, a - 1) + 1
    BY <1>1, <2>0, RoomStep
  <2>2. Room(T, n, a) <= Room(T, n, b - 1)
    BY <2>0, RoomGrows
  <2>3. Room(T, n, a - 1) \in Nat
    BY <2>0, RoomType
  <2> QED BY <1>1, <2>1, <2>2, <2>3
<1>2. d \in Int /\ e \in Int
  BY LimitFacts
<1>3. d < e \/ e < d \/ d = e
  BY <1>2
<1> QED BY <1>1, <1>3

Apart(k, L) == \A i, j \in 1..k : L[i] = L[j] => i = j
FreeFrom(T, n, k, L) ==
  /\ L \in [1..k -> n..Limit - 1] /\ L \in [1..k -> Fds]
  /\ \A i \in 1..k : T[L[i]] = Free
  /\ Apart(k, L)
  /\ \A d \in n..Limit - 1 :
       T[d] = Free /\ Room(T, n, d - 1) < k => \E i \in 1..k : L[i] = d
LEMMA LowestFree ==
  ASSUME NEW T, NEW n \in Nat, NEW k \in Nat, Room(T, n, Limit - 1) >= k
  PROVE  FreeFrom(T, n, k, Lowest(T, n, k))
<1>0. PICK L : L = Lowest(T, n, k)
  OBVIOUS
<1>1. ASSUME NEW i \in 1..k
      PROVE  /\ L[i] \in n..Limit - 1 /\ T[L[i]] = Free /\ Room(T, n, L[i] - 1) = i - 1
  <2>1. i - 1 \in Nat /\ i - 1 < k
    OBVIOUS
  <2>2. Room(T, n, Limit - 1) \in Nat
    BY RoomType, LimitFacts
  <2>3. Room(T, n, Limit - 1) > i - 1
    BY <2>1, <2>2
  <2>4. \E d \in n..Limit - 1 : T[d] = Free /\ Room(T, n, d - 1) = i - 1
    BY <2>1, <2>3, NthFree
  <2>5. L[i] = CHOOSE d \in n..Limit - 1 : T[d] = Free /\ Room(T, n, d - 1) = i - 1
    BY <1>0 DEF Lowest
  <2> QED BY <2>4, <2>5
<1>2. L = [i \in 1..k |-> L[i]]
  BY <1>0 DEF Lowest
<1>3. L \in [1..k -> n..Limit - 1]
  BY <1>1, <1>2
<1>4. n..Limit - 1 \subseteq Fds
  BY LimitFacts DEF Fds
<1>5. ASSUME NEW i \in 1..k, NEW j \in 1..k, L[i] = L[j] PROVE i = j
  <2>1. i - 1 = j - 1
    BY <1>1, <1>5
  <2> QED BY <2>1
<1>6. ASSUME NEW d \in n..Limit - 1, T[d] = Free, Room(T, n, d - 1) < k
      PROVE  \E i \in 1..k : L[i] = d
  <2>1. PICK i : i = Room(T, n, d - 1) + 1
    OBVIOUS
  <2>2. Room(T, n, d - 1) \in Nat
    BY RoomType, LimitFacts
  <2>3. i \in 1..k /\ Room(T, n, d - 1) = i - 1
    BY <1>6, <2>1, <2>2
  <2>4. L[i] = d
    BY <1>1, <1>6, <2>3, FreeIsNth
  <2> QED BY <2>3, <2>4
<1>7. L \in [1..k -> Fds] /\ \A i \in 1..k : T[L[i]] = Free
  BY <1>1, <1>3, <1>4
<1>8. FreeFrom(T, n, k, L)
  BY <1>3, <1>5, <1>6, <1>7 DEF FreeFrom, Apart
<1> QED BY <1>0, <1>8

-----------------------------------------------------------------------------
(* What the operations leave in a table.                                   *)
LEMMA ClosedAt ==
  ASSUME NEW T \in Table, NEW ds
  PROVE  /\ Closed(T, ds) \in Table
         /\ \A d \in Fds : Closed(T, ds)[d] = IF d \in ds THEN Free ELSE T[d]
BY FreeEntry DEF Closed, Table

LEMMA CloexecAt ==
  ASSUME NEW T \in Table, NEW ds
  PROVE  /\ Cloexec(T, ds) \in Table
         /\ \A d \in Fds : /\ Cloexec(T, ds)[d].file = T[d].file
                           /\ d \in ds => Cloexec(T, ds)[d].cloexec
                           /\ d \notin ds => Cloexec(T, ds)[d] = T[d]
<1>1. ASSUME NEW x \in Entry
      PROVE  /\ [x EXCEPT !.cloexec = TRUE] \in Entry
             /\ [x EXCEPT !.cloexec = TRUE].file = x.file
             /\ [x EXCEPT !.cloexec = TRUE].cloexec
  BY DEF Entry
<1>2. \A d \in Fds : T[d] \in Entry
  BY DEF Table
<1>3. \A d \in Fds :
        Cloexec(T, ds)[d] = IF d \in ds THEN [T[d] EXCEPT !.cloexec = TRUE] ELSE T[d]
  BY DEF Cloexec
<1>4. \A d \in Fds : Cloexec(T, ds)[d] \in Entry
  BY <1>1, <1>2, <1>3
<1>5. Cloexec(T, ds) \in Table
  BY <1>4 DEF Cloexec, Table
<1> QED BY <1>1, <1>2, <1>3, <1>5

LEMMA ExecutedAt ==
  ASSUME NEW T \in Table
  PROVE  /\ Executed(T) \in Table
         /\ \A d \in Fds : Executed(T)[d] = IF T[d].cloexec THEN Free ELSE T[d]
BY FreeEntry DEF Executed, Table

(* P is T with the files E in the places fds, not close-on-exec.           *)
Holding(T, m, fds, E, P) ==
  /\ P \in Table
  /\ \A i \in 1..m : P[fds[i]] = [file |-> E[i], cloexec |-> FALSE]
  /\ \A d \in Fds : (\A i \in 1..m : fds[i] # d) => P[d] = T[d]

LEMMA PipedAt ==
  ASSUME NEW T \in Table, NEW m \in Nat, NEW fds \in [1..m -> Fds],
         Apart(m, fds), NEW names,
         NEW E \in [1..m -> Pipes],
         \A i \in 1..m : E[i] = [pipe |-> names[(i + 1) \div 2],
                                 end  |-> IF i % 2 = 1 THEN "read" ELSE "write"]
  PROVE  Holding(T, m, fds, E, Piped(T, names, fds))
<1>1. PICK P : P = Piped(T, names, fds)
  OBVIOUS
<1>2. DOMAIN fds = 1..m
  OBVIOUS
<1>3. ASSUME NEW i \in 1..m PROVE P[fds[i]] = [file |-> E[i], cloexec |-> FALSE]
  <2>1. PICK j : j = CHOOSE o \in DOMAIN fds : fds[o] = fds[i]
    OBVIOUS
  <2>2. j \in DOMAIN fds /\ fds[j] = fds[i]
    BY <2>1, <1>2
  <2>3. j = i
    BY <2>2, <1>2 DEF Apart
  <2>4. fds[i] \in Fds /\ \E k \in DOMAIN fds : fds[k] = fds[i]
    BY <1>2
  <2>5. P[fds[i]] = [file |-> [pipe |-> names[(j + 1) \div 2],
                               end  |-> IF j % 2 = 1 THEN "read" ELSE "write"],
                     cloexec |-> FALSE]
    BY <1>1, <2>1, <2>4 DEF Piped
  <2>6. E[i] = [pipe |-> names[(j + 1) \div 2],
                end  |-> IF j % 2 = 1 THEN "read" ELSE "write"]
    BY <2>3
  <2> QED BY <2>5, <2>6
<1>4. ASSUME NEW d \in Fds, \A i \in 1..m : fds[i] # d PROVE P[d] = T[d]
  BY <1>1, <1>2, <1>4 DEF Piped
<1>5. ASSUME NEW d \in Fds PROVE P[d] \in Entry
  <2>1. CASE \A i \in 1..m : fds[i] # d
    BY <2>1, <1>4, EntryFields
  <2>2. CASE \E i \in 1..m : fds[i] = d
    <3>1. PICK i \in 1..m : fds[i] = d
      BY <2>2
    <3>2. E[i] \in AnyFile
      BY DEF AnyFile
    <3>3. [file |-> E[i], cloexec |-> FALSE] \in Entry
      BY <3>2 DEF Entry
    <3> QED BY <3>1, <3>3, <1>3
  <2> QED BY <2>1, <2>2
<1>6. P \in Table
  BY <1>1, <1>5 DEF Piped, Table
<1> QED BY <1>1, <1>3, <1>4, <1>6 DEF Holding

LEMMA DuplicatedAt ==
  ASSUME NEW T \in Table, NEW temps \in [1..3 -> Fds],
         Apart(3, temps), NEW ds, \A i \in 1..3 : ds[i] \in Fds,
         NEW E, \A i \in 1..3 : E[i] = T[ds[i]].file
  PROVE  Holding(T, 3, temps, E, Duplicated(T, ds, temps))
<1>1. PICK P : P = Duplicated(T, ds, temps)
  OBVIOUS
<1>2. DOMAIN temps = 1..3
  OBVIOUS
<1>0. ASSUME NEW x \in Entry
      PROVE  /\ [x EXCEPT !.cloexec = FALSE] = [file |-> x.file, cloexec |-> FALSE]
             /\ [file |-> x.file, cloexec |-> FALSE] \in Entry
  <2>1. PICK f \in AnyFile, g \in BOOLEAN : x = [file |-> f, cloexec |-> g]
    BY DEF Entry
  <2>2. x.file = f
    BY <2>1
  <2>3. [file |-> f, cloexec |-> FALSE] \in Entry
    BY DEF Entry
  <2>4. [x EXCEPT !.cloexec = FALSE] = [file |-> f, cloexec |-> FALSE]
    <3>1. ASSUME NEW no PROVE [x EXCEPT !.cloexec = no] = [file |-> f, cloexec |-> no]
      BY <2>1
    <3> QED BY <3>1
  <2> QED BY <2>2, <2>3, <2>4
<1>3. ASSUME NEW i \in 1..3 PROVE P[temps[i]] = [file |-> T[ds[i]].file, cloexec |-> FALSE]
  <2>1. PICK j : j = CHOOSE o \in DOMAIN temps : temps[o] = temps[i]
    OBVIOUS
  <2>2. j \in DOMAIN temps /\ temps[j] = temps[i]
    BY <2>1, <1>2
  <2>3. j = i
    BY <2>2, <1>2 DEF Apart
  <2>4. temps[i] \in Fds /\ \E k \in DOMAIN temps : temps[k] = temps[i]
    BY <1>2
  <2>5. P[temps[i]] = [T[ds[j]] EXCEPT !.cloexec = FALSE]
    BY <1>1, <2>1, <2>4 DEF Duplicated
  <2>6. T[ds[i]] \in Entry
    BY EntryFields
  <2> QED BY <2>3, <2>5, <2>6, <1>0
<1>4. ASSUME NEW d \in Fds, \A i \in 1..3 : temps[i] # d PROVE P[d] = T[d]
  BY <1>1, <1>2, <1>4 DEF Duplicated
<1>5. ASSUME NEW d \in Fds PROVE P[d] \in Entry
  <2>1. CASE \A i \in 1..3 : temps[i] # d
    BY <2>1, <1>4, EntryFields
  <2>2. CASE \E i \in 1..3 : temps[i] = d
    <3>1. PICK i \in 1..3 : temps[i] = d
      BY <2>2
    <3>2. T[ds[i]] \in Entry
      BY EntryFields
    <3> QED BY <3>1, <3>2, <1>0, <1>3
  <2> QED BY <2>1, <2>2
<1>6. P \in Table
  BY <1>1, <1>5 DEF Duplicated, Table
<1> QED BY <1>1, <1>3, <1>4, <1>6 DEF Holding

LEMMA Dup2At ==
  ASSUME NEW T \in Table, NEW d \in Fds, NEW e \in Fds, d # e
  PROVE  /\ Dup2(T, d, e) \in Table
         /\ Dup2(T, d, e)[e] = [file |-> T[d].file, cloexec |-> FALSE]
         /\ \A a \in Fds : a # e => Dup2(T, d, e)[a] = T[a]
<1>1. Dup2(T, d, e) = [T EXCEPT ![e] = [file |-> T[d].file, cloexec |-> FALSE]]
  BY DEF Dup2, Opened
<1>2. [file |-> T[d].file, cloexec |-> FALSE] \in Entry
  BY EntryFields DEF Entry
<1> QED BY <1>1, <1>2 DEF Table

(* dup2 of three duplicates above 2, and their close.                      *)
Arranged(D, temps, E, A) ==
  /\ A \in Table
  /\ \A i \in 1..3 : A[i - 1] = [file |-> E[i], cloexec |-> FALSE]
  /\ \A d \in Fds : d > 2 => A[d] = IF \E i \in 1..3 : temps[i] = d THEN Free ELSE D[d]
LEMMA PlacedAt ==
  ASSUME NEW D \in Table, NEW temps \in [1..3 -> Fds], \A i \in 1..3 : temps[i] > 2,
         NEW E, \A i \in 1..3 : D[temps[i]].file = E[i]
  PROVE  Arranged(D, temps, E, Closed(Placed(D, temps), {temps[i] : i \in 1..3}))
<1>0. PICK A : A = Closed(Placed(D, temps), {temps[i] : i \in 1..3})
  OBVIOUS
<1>1. PICK a, b, c : a = temps[1] /\ b = temps[2] /\ c = temps[3]
  OBVIOUS
<1>2. /\ a \in Fds /\ b \in Fds /\ c \in Fds /\ a > 2 /\ b > 2 /\ c > 2
      /\ \A i \in 1..3 : temps[i] \in {a, b, c}
      /\ {temps[i] : i \in 1..3} = {a, b, c}
  BY <1>1
<1>3. 0 \in Fds /\ 1 \in Fds /\ 2 \in Fds /\ \A d \in Fds : d \in Int
  BY LimitFacts DEF Fds
<1>4. PICK X, Y, Z : X = Dup2(D, a, 0) /\ Y = Dup2(X, b, 1) /\ Z = Dup2(Y, c, 2)
  OBVIOUS
<1>5. /\ X \in Table /\ X[0] = [file |-> D[a].file, cloexec |-> FALSE]
      /\ \A d \in Fds : d # 0 => X[d] = D[d]
  BY <1>2, <1>3, <1>4, Dup2At
<1>6. /\ Y \in Table /\ Y[1] = [file |-> X[b].file, cloexec |-> FALSE]
      /\ \A d \in Fds : d # 1 => Y[d] = X[d]
  BY <1>2, <1>3, <1>4, <1>5, Dup2At
<1>7. /\ Z \in Table /\ Z[2] = [file |-> Y[c].file, cloexec |-> FALSE]
      /\ \A d \in Fds : d # 2 => Z[d] = Y[d]
  BY <1>2, <1>3, <1>4, <1>6, Dup2At
<1>8. Placed(D, temps) = Z
  BY <1>1, <1>4 DEF Placed
<1>9. /\ A \in Table /\ \A d \in Fds : A[d] = IF d \in {a, b, c} THEN Free ELSE Z[d]
  BY <1>0, <1>2, <1>7, <1>8, ClosedAt
<1>10. /\ Z[0] = [file |-> D[a].file, cloexec |-> FALSE]
       /\ Z[1] = [file |-> D[b].file, cloexec |-> FALSE]
       /\ Z[2] = [file |-> D[c].file, cloexec |-> FALSE]
  <2>1. X[b] = D[b] /\ Y[c] = X[c] /\ X[c] = D[c]
    <3>1. b # 0 /\ c # 0 /\ c # 1
      BY <1>2, <1>3
    <3> QED BY <3>1, <1>2, <1>5, <1>6
  <2>2. Z[1] = Y[1] /\ Z[0] = Y[0] /\ Y[0] = X[0]
    BY <1>3, <1>6, <1>7
  <2> QED BY <2>1, <2>2, <1>5, <1>6, <1>7
<1>11. \A d \in Fds : d > 2 => Z[d] = D[d]
  BY <1>3, <1>5, <1>6, <1>7
<1>12. A[0] = Z[0] /\ A[1] = Z[1] /\ A[2] = Z[2]
  BY <1>2, <1>3, <1>9
<1>13. \A i \in 1..3 : A[i - 1] = [file |-> E[i], cloexec |-> FALSE]
  <2>1. A[1 - 1] = A[0] /\ A[2 - 1] = A[1] /\ A[3 - 1] = A[2]
    OBVIOUS
  <2>2. \A i \in 1..3 : i = 1 \/ i = 2 \/ i = 3
    OBVIOUS
  <2> QED BY <2>1, <2>2, <1>1, <1>10, <1>12
<1>14. ASSUME NEW d \in Fds, d > 2
       PROVE  A[d] = IF \E i \in 1..3 : temps[i] = d THEN Free ELSE D[d]
  <2>1. (\E i \in 1..3 : temps[i] = d) <=> d \in {a, b, c}
    BY <1>1, <1>2
  <2> QED BY <2>1, <1>9, <1>11, <1>14
<1> QED BY <1>0, <1>9, <1>13, <1>14 DEF Arranged

-----------------------------------------------------------------------------
(* Which story a call has.                                                 *)
LEMMA NothingYet ==
  /\ NoCall.pc = "idle" /\ NoCall \notin CallType
  /\ NoFiles \in Table /\ NoChild \in ChildType /\ NoChild.state = "none"
<1>1. NoFiles \in Table
  BY FreeEntry DEF NoFiles, Table
<1>2. NoChild \in ChildType /\ NoChild.state = "none"
  BY <1>1 DEF NoChild, ChildType, ChildStates, Results
<1>3. NoCall.pc = "idle"
  BY DEF NoCall
<1>4. \A k \in CallType : k.pc # "idle"
  BY DEF CallType
<1> QED BY <1>1, <1>2, <1>3, <1>4

LEMMA WhichStory ==
  ASSUME NEW c, NEW k, NEW h, NEW e, Story(c, k, h, e)
  PROVE  /\ k.pc \in {"called", "reading", "waiting"} => Spawned(c, k, h, e)
         /\ h.state # "none" /\ k.q.kind = "spawn" => Spawned(c, k, h, e)
         /\ h.state # "none" /\ k.q.kind = "create" => Created(c, k, h, e)
         /\ k = NoCall => h = NoChild /\ e = 0
         /\ h.state # "none" => Spawned(c, k, h, e) \/ Created(c, k, h, e)
<1>1. CASE NotCalled(k, h, e)
  BY <1>1, NothingYet DEF NotCalled
<1>2. CASE Forkless(k, h, e)
  BY <1>2, NothingYet DEF Forkless
<1>3. CASE Spawned(c, k, h, e)
  <2>1. k \in CallType /\ k.q.kind = "spawn"
    BY <1>3 DEF Spawned
  <2>2. k # NoCall /\ k.q.kind # "create"
    BY <2>1, NothingYet
  <2> QED BY <1>3, <2>2
<1>4. CASE Created(c, k, h, e)
  <2>1. k \in CallType /\ k.q.kind = "create" /\ k.pc = "done"
    BY <1>4 DEF Created
  <2>2. k # NoCall /\ k.q.kind # "spawn"
    BY <2>1, NothingYet
  <2> QED BY <1>4, <2>1, <2>2
<1> QED BY <1>1, <1>2, <1>3, <1>4 DEF Story

LEMMA TypesOf ==
  ASSUME ProcessIInv, NEW c \in Calls
  PROVE  /\ call[c] \in CallType \cup {NoCall} /\ child[c] \in ChildType
         /\ errpipe[c] \in Nat /\ Story(c, call[c], child[c], errpipe[c])
BY DEF ProcessIInv

(* One call changes, with its child and its pipe.                          *)
LEMMA CallStepped ==
  ASSUME ProcessIInv, NEW c \in Calls, NEW k \in CallType \cup {NoCall}, NEW h \in ChildType,
         NEW e \in Nat,
         call' = [call EXCEPT ![c] = k], child' = [child EXCEPT ![c] = h],
         errpipe' = [errpipe EXCEPT ![c] = e], uid' = uid,
         Story(c, k, h, e), Tidy(parent'), Accounted(parent', [call EXCEPT ![c] = k])
  PROVE  ProcessIInv'
<1>1. /\ call \in [Calls -> CallType \cup {NoCall}] /\ child \in [Calls -> ChildType]
      /\ errpipe \in [Calls -> Nat]
      /\ \A o \in Calls : Story(o, call[o], child[o], errpipe[o])
  BY DEF ProcessIInv
<1>2. /\ call' \in [Calls -> CallType \cup {NoCall}] /\ child' \in [Calls -> ChildType]
      /\ errpipe' \in [Calls -> Nat]
  BY <1>1
<1>3. ASSUME NEW o \in Calls PROVE Story(o, call'[o], child'[o], errpipe'[o])
  <2>1. CASE o = c
    <3>1. call'[o] = k /\ child'[o] = h /\ errpipe'[o] = e
      BY <2>1, <1>1
    <3> QED BY <2>1, <3>1
  <2>2. CASE o # c
    <3>1. call'[o] = call[o] /\ child'[o] = child[o] /\ errpipe'[o] = errpipe[o]
      BY <2>2, <1>1
    <3> QED BY <3>1, <1>1
  <2> QED BY <2>1, <2>2
<1>4. uid' \in {0, 1} /\ Tidy(parent') /\ Accounted(parent', call')
  BY DEF ProcessIInv
<1> QED BY <1>2, <1>3, <1>4 DEF ProcessIInv

LEMMA ChildStepped ==
  ASSUME ProcessIInv, NEW c \in Calls, NEW h \in ChildType, NEW e \in Nat,
         UNCHANGED <<uid, parent, call>>, child' = [child EXCEPT ![c] = h],
         errpipe' = [errpipe EXCEPT ![c] = e], Story(c, call[c], h, e)
  PROVE  ProcessIInv'
<1>1. call \in [Calls -> CallType \cup {NoCall}] /\ call[c] \in CallType \cup {NoCall}
  BY DEF ProcessIInv
<1>2. call = [call EXCEPT ![c] = call[c]]
  BY <1>1
<1>3. Tidy(parent') /\ Accounted(parent', [call EXCEPT ![c] = call[c]])
  BY <1>2 DEF ProcessIInv
<1>4. call' = [call EXCEPT ![c] = call[c]] /\ uid' = uid
  BY <1>2
<1> QED BY <1>1, <1>3, <1>4, CallStepped

Went(h, s, T) == [h EXCEPT !.state = s, !.T = T]
Erred(h, x)   == [h EXCEPT !.state = "report", !.errno = x]
LEMMA GoFields ==
  ASSUME NEW h \in ChildType, NEW s \in ChildStates, NEW T \in Table
  PROVE  /\ Went(h, s, T) \in ChildType /\ Went(h, s, T).state = s /\ Went(h, s, T).T = T
         /\ Went(h, s, T).errno = h.errno
BY DEF ChildType, Went

LEMMA FailFields ==
  ASSUME NEW h \in ChildType, NEW x \in Results \ {"ok"}
  PROVE  /\ Erred(h, x) \in ChildType /\ Erred(h, x).state = "report"
         /\ Erred(h, x).T = h.T /\ Erred(h, x).errno = x
BY DEF ChildType, ChildStates, Erred

LEMMA GoStep ==
  ASSUME ProcessIInv, NEW c \in Calls, NEW s \in ChildStates, NEW T \in Table, Go(c, s, T),
         NEW g, g = Went(child[c], s, T),
         Story(c, call[c], g, errpipe[c])
  PROVE  ProcessIInv'
<1>1. g \in ChildType
  BY GoFields, TypesOf
<1>2. child' = [child EXCEPT ![c] = g] /\ UNCHANGED <<uid, parent, call, errpipe>>
  BY DEF Go, ProcessIInv, Went
<1>3. errpipe' = [errpipe EXCEPT ![c] = errpipe[c]]
  BY <1>2 DEF ProcessIInv
<1>4. errpipe[c] \in Nat
  BY TypesOf
<1> QED BY <1>1, <1>2, <1>3, <1>4, ChildStepped

LEMMA FailStep ==
  ASSUME ProcessIInv, NEW c \in Calls, NEW x \in Results \ {"ok"}, Fail(c, x),
         NEW g, g = Erred(child[c], x),
         Story(c, call[c], g, errpipe[c])
  PROVE  ProcessIInv'
<1>1. g \in ChildType
  BY FailFields, TypesOf
<1>2. child' = [child EXCEPT ![c] = g] /\ UNCHANGED <<uid, parent, call, errpipe>>
  BY DEF Fail, ProcessIInv, Erred
<1>3. errpipe' = [errpipe EXCEPT ![c] = errpipe[c]]
  BY <1>2 DEF ProcessIInv
<1>4. errpipe[c] \in Nat
  BY TypesOf
<1> QED BY <1>1, <1>2, <1>3, <1>4, ChildStepped

-----------------------------------------------------------------------------
(* The child of a spawn.                                                   *)
LEMMA SpawnGoesOn ==
  ASSUME NEW c, NEW k, NEW h, NEW e, Spawned(c, k, h, e), h.state \in BeforeExec,
         NEW g \in ChildType, g.state \in BeforeExec \cup {"report", "running"},
         SpawnFiles(k, g),
         k.fds[2] > 2 /\ g.state # "running" => g.T[k.fds[2]].file = h.T[k.fds[2]].file
  PROVE  Story(c, k, g, e)
<1>1. /\ g.state \notin {"none", "dead", "spinning", "reaped"}
      /\ h.state \notin {"running", "ended", "reaped"}
  BY DEF BeforeExec
<1>2. k.fds[2] > 2 /\ g.state \in BeforeExec \cup {"report"} =>
        g.T[k.fds[2]].file = End(c, "errno", "write")
  <2>1. ASSUME k.fds[2] > 2 PROVE h.T[k.fds[2]].file = End(c, "errno", "write")
    BY <2>1 DEF Spawned, SpawnErrno
  <2>2. g.state \in BeforeExec \cup {"report"} => g.state # "running"
    BY DEF BeforeExec
  <2> QED BY <2>1, <2>2
<1>3. /\ k.pc = "done" => ~(k.result = "ok" /\ k.fds[2] > 2) /\ ~(k.result # "ok")
  BY <1>1 DEF Spawned, SpawnErrno
<1>4. SpawnErrno(c, k, g, e)
  BY <1>1, <1>2, <1>3 DEF SpawnErrno
<1>5. Spawned(c, k, g, e)
  BY <1>1, <1>4 DEF Spawned
<1> QED BY <1>5 DEF Story

LEMMA SpawnFails ==
  ASSUME ProcessIInv, NEW c \in Calls, call[c].q.kind = "spawn", child[c].state \in BeforeExec,
         NEW x \in Results \ {"ok"}, Fail(c, x)
  PROVE  ProcessIInv'
<1>1. PICK k, h, e : k = call[c] /\ h = child[c] /\ e = errpipe[c]
  OBVIOUS
<1>2. Spawned(c, k, h, e) /\ h \in ChildType
  <2>1. h.state # "none" /\ k.q.kind = "spawn"
    BY <1>1 DEF BeforeExec
  <2> QED BY <1>1, <2>1, TypesOf, WhichStory
<1>3. PICK g : g = Erred(h, x)
  OBVIOUS
<1>4. g \in ChildType /\ g.state = "report" /\ g.T = h.T
  BY <1>2, <1>3, FailFields
<1>5. SpawnFiles(k, g)
  BY <1>4 DEF SpawnFiles, BeforeExec
<1>6. Story(c, k, g, e)
  BY <1>1, <1>2, <1>4, <1>5, SpawnGoesOn
<1> QED BY <1>1, <1>3, <1>6, FailStep

LEMMA SpawnMoves ==
  ASSUME ProcessIInv, NEW c \in Calls, call[c].q.kind = "spawn", child[c].state \in BeforeExec,
         NEW s \in BeforeExec \cup {"running"}, NEW T \in Table, Go(c, s, T),
         s \in BeforeExec => s # "dup" /\ Clean(T) /\ Stands(T, call[c]),
         s = "running" => Runs(T, call[c]),
         s # "running" /\ call[c].fds[2] > 2 =>
           T[call[c].fds[2]].file = child[c].T[call[c].fds[2]].file
  PROVE  ProcessIInv'
<1>1. PICK k, h, e : k = call[c] /\ h = child[c] /\ e = errpipe[c]
  OBVIOUS
<1>2. Spawned(c, k, h, e) /\ h \in ChildType
  <2>1. h.state # "none" /\ k.q.kind = "spawn"
    BY <1>1 DEF BeforeExec
  <2> QED BY <1>1, <2>1, TypesOf, WhichStory
<1>3. PICK g : g = Went(h, s, T)
  OBVIOUS
<1>4. s \in ChildStates
  BY DEF ChildStates
<1>5. g \in ChildType /\ g.state = s /\ g.T = T
  BY <1>2, <1>3, <1>4, GoFields
<1>6. SpawnFiles(k, g)
  BY <1>1, <1>5 DEF SpawnFiles, BeforeExec
<1>7. Story(c, k, g, e)
  BY <1>1, <1>2, <1>5, <1>6, SpawnGoesOn
<1> QED BY <1>1, <1>3, <1>4, <1>7, GoStep

LEMMA SpawnedTypes ==
  ASSUME NEW c, NEW k, NEW h, NEW e, Spawned(c, k, h, e)
  PROVE  /\ k \in CallType /\ h \in ChildType /\ h.T \in Table /\ h.uid \in {0, 1}
         /\ k.q \in Requests /\ \A i \in 1..3 : k.q.std[i] \in Fds
         /\ k.fds[1] \in Fds /\ k.fds[2] \in Fds
         /\ h.state \in BeforeExec => Clean(h.T)
         /\ h.state \in BeforeExec \ {"dup"} => Stands(h.T, k)
<1>1. k \in CallType /\ h \in ChildType
  BY DEF Spawned
<1>2. h.T \in Table /\ h.uid \in {0, 1} /\ k.q \in Requests
  BY <1>1 DEF ChildType, CallType
<1>3. k.q.std \in [1..3 -> Fds]
  BY <1>2, ProcessAssumption
<1>4. k.fds[1] \in Fds /\ k.fds[2] \in Fds
  BY DEF Spawned
<1> QED BY <1>1, <1>2, <1>3, <1>4 DEF Spawned, SpawnFiles

LEMMA SpawnChildStdStep ==
  ASSUME ProcessIInv, NEW c \in Calls, SpawnChildStd(c)
  PROVE  ProcessIInv'
<1>1. PICK k, h, e, T : k = call[c] /\ h = child[c] /\ e = errpipe[c] /\ T = h.T
  OBVIOUS
<1>2. h.state = "dup" /\ k.q.kind = "spawn" /\ h.state \in BeforeExec /\ h.state # "none"
  BY <1>1 DEF SpawnChildStd, Child, BeforeExec
<1>3. Spawned(c, k, h, e)
  BY <1>1, <1>2, TypesOf, WhichStory
<1>4. /\ T \in Table /\ Clean(T) /\ \A i \in 1..3 : k.q.std[i] \in Fds
      /\ k.fds[2] \in Fds
  BY <1>1, <1>2, <1>3, SpawnedTypes
<1>5. CASE Room(T, 3, Limit - 1) < 3
  <2>1. Fail(c, "EMFILE")
    BY <1>1, <1>5 DEF SpawnChildStd
  <2>2. "EMFILE" \in Results \ {"ok"}
    BY DEF Results
  <2> QED BY <1>1, <1>2, <2>1, <2>2, SpawnFails
<1>6. CASE ~(Room(T, 3, Limit - 1) < 3)
  <2>1. PICK temps, D, A :
          /\ temps = Lowest(T, 3, 3) /\ D = Duplicated(T, k.q.std, temps)
          /\ A = Closed(Placed(D, temps), {temps[i] : i \in 1..3})
    OBVIOUS
  <2>2. Go(c, "chdir", A)
    BY <1>1, <1>6, <2>1 DEF SpawnChildStd
  <2>3. Room(T, 3, Limit - 1) >= 3
    <3>1. Room(T, 3, Limit - 1) \in Nat
      BY RoomType, LimitFacts
    <3> QED BY <3>1, <1>6
  <2>4. FreeFrom(T, 3, 3, temps)
    BY <2>1, <2>3, LowestFree
  <2>5. /\ temps \in [1..3 -> Fds] /\ Apart(3, temps) /\ \A i \in 1..3 : T[temps[i]] = Free
        /\ \A i \in 1..3 : temps[i] > 2
    BY <2>4, LimitFacts DEF FreeFrom
  <2>6. \A i \in 1..3 : k.files[i] = T[k.q.std[i]].file
    BY <1>1, <1>2, <1>3 DEF Spawned, SpawnFiles
  <2>7. Holding(T, 3, temps, k.files, D)
    BY <1>4, <2>1, <2>5, <2>6, DuplicatedAt
  <2>13. D \in Table /\ \A i \in 1..3 : D[temps[i]].file = k.files[i]
    BY <2>7 DEF Holding
  <2>14. Arranged(D, temps, k.files, A)
    BY <2>1, <2>5, <2>13, PlacedAt
  <2>8. A \in Table /\ Stands(A, k)
    BY <2>14 DEF Arranged, Stands
  <2>9. ASSUME NEW d \in Fds, d > 2 PROVE A[d] = Free \/ A[d] = T[d]
    <3>1. CASE \E i \in 1..3 : temps[i] = d
      BY <3>1, <2>14, <2>9 DEF Arranged
    <3>2. CASE \A i \in 1..3 : temps[i] # d
      <4>1. A[d] = D[d]
        BY <3>2, <2>14, <2>9 DEF Arranged
      <4>2. D[d] = T[d]
        BY <3>2, <2>7 DEF Holding
      <4> QED BY <4>1, <4>2
    <3> QED BY <3>1, <3>2
  <2>10. Clean(A)
    BY <2>9, <1>4, FreeEntry DEF Clean
  <2>11. ASSUME k.fds[2] > 2 PROVE A[k.fds[2]].file = T[k.fds[2]].file
    <3>1. T[k.fds[2]].file = End(c, "errno", "write")
      BY <2>11, <1>1, <1>2, <1>3 DEF Spawned, SpawnErrno
    <3>2. T[k.fds[2]] # Free
      BY <3>1, EndIsPipe, FreeEntry DEF Kinds
    <3>3. \A i \in 1..3 : temps[i] # k.fds[2]
      BY <3>2, <2>5
    <3>4. D[k.fds[2]] = T[k.fds[2]]
      BY <3>3, <2>7, <1>4 DEF Holding
    <3>5. A[k.fds[2]] = D[k.fds[2]]
      BY <3>3, <2>14, <2>11, <1>4 DEF Arranged
    <3> QED BY <3>4, <3>5
  <2>12. "chdir" \in BeforeExec \cup {"running"} /\ "chdir" # "dup" /\ "chdir" # "running"
    BY DEF BeforeExec
  <2> QED BY <1>1, <1>2, <2>2, <2>8, <2>10, <2>11, <2>12, SpawnMoves
<1> QED BY <1>5, <1>6

(* What the child does next leaves its descriptors as they are.            *)
LEMMA SpawnKeeps ==
  ASSUME ProcessIInv, NEW c \in Calls, call[c].q.kind = "spawn",
         child[c].state \in BeforeExec \ {"dup"}, NEW s \in BeforeExec \ {"dup"},
         Go(c, s, child[c].T)
  PROVE  ProcessIInv'
<1>1. PICK k, h, e, T : k = call[c] /\ h = child[c] /\ e = errpipe[c] /\ T = h.T
  OBVIOUS
<1>2. Spawned(c, k, h, e)
  <2>1. h.state # "none"
    BY <1>1 DEF BeforeExec
  <2> QED BY <1>1, <2>1, TypesOf, WhichStory
<1>3. T \in Table /\ Clean(T) /\ Stands(T, k)
  BY <1>1, <1>2, SpawnedTypes
<1>4. s # "running"
  BY DEF BeforeExec
<1> QED BY <1>1, <1>3, <1>4, SpawnMoves

LEMMA SpawnChildChdirStep ==
  ASSUME ProcessIInv, NEW c \in Calls, SpawnChildChdir(c)
  PROVE  ProcessIInv'
<1>1. call[c].q.kind = "spawn" /\ child[c].state \in BeforeExec \ {"dup"}
  BY DEF SpawnChildChdir, Child, BeforeExec
<1>2. CASE Go(c, "setuid", child[c].T)
  BY <1>1, <1>2, SpawnKeeps DEF BeforeExec
<1>3. CASE Fail(c, "ENOENT")
  BY <1>1, <1>3, SpawnFails DEF Results
<1> QED BY <1>2, <1>3 DEF SpawnChildChdir

LEMMA SpawnChildSetuidStep ==
  ASSUME ProcessIInv, NEW c \in Calls, SpawnChildSetuid(c)
  PROVE  ProcessIInv'
<1>1. call[c].q.kind = "spawn" /\ child[c].state \in BeforeExec \ {"dup"}
  BY DEF SpawnChildSetuid, Child, BeforeExec
<1>2. CASE Go(c, "setgid", child[c].T)
  BY <1>1, <1>2, SpawnKeeps DEF BeforeExec
<1>3. CASE Fail(c, "EPERM")
  BY <1>1, <1>3, SpawnFails DEF Results
<1>4. CASE \E u \in {0, 1} :
             /\ child' = [child EXCEPT ![c].state = "setgid", ![c].uid = u]
             /\ UNCHANGED <<uid, parent, call, errpipe>>
  <2>1. PICK u \in {0, 1} :
             /\ child' = [child EXCEPT ![c].state = "setgid", ![c].uid = u]
             /\ UNCHANGED <<uid, parent, call, errpipe>>
    BY <1>4
  <2>2. PICK k, h, e, g : k = call[c] /\ h = child[c] /\ e = errpipe[c]
                          /\ g = [h EXCEPT !.state = "setgid", !.uid = u]
    OBVIOUS
  <2>3. h \in ChildType /\ e \in Nat /\ Spawned(c, k, h, e)
    <3>1. h.state # "none"
      BY <1>1, <2>2 DEF BeforeExec
    <3> QED BY <1>1, <2>2, <3>1, TypesOf, WhichStory
  <2>4. g \in ChildType /\ g.state = "setgid" /\ g.T = h.T
    BY <2>2, <2>3 DEF ChildType, ChildStates, BeforeExec
  <2>5. SpawnFiles(k, g)
    <3>1. Clean(h.T) /\ Stands(h.T, k)
      BY <1>1, <2>2, <2>3, SpawnedTypes
    <3> QED BY <2>4, <3>1 DEF SpawnFiles, BeforeExec
  <2>6. Story(c, k, g, e)
    BY <1>1, <2>2, <2>3, <2>4, <2>5, SpawnGoesOn DEF BeforeExec
  <2>7. child' = [child EXCEPT ![c] = g]
    BY <2>1, <2>2 DEF ProcessIInv
  <2>8. errpipe' = [errpipe EXCEPT ![c] = e] /\ UNCHANGED <<uid, parent, call>>
    BY <2>1, <2>2 DEF ProcessIInv
  <2> QED BY <2>2, <2>3, <2>4, <2>6, <2>7, <2>8, ChildStepped
<1>5. CASE Fail(c, "EINVAL")
  BY <1>1, <1>5, SpawnFails DEF Results
<1> QED BY <1>2, <1>3, <1>4, <1>5 DEF SpawnChildSetuid

LEMMA SpawnChildSetgidStep ==
  ASSUME ProcessIInv, NEW c \in Calls, SpawnChildSetgid(c)
  PROVE  ProcessIInv'
<1>1. call[c].q.kind = "spawn" /\ child[c].state \in BeforeExec \ {"dup"}
  BY DEF SpawnChildSetgid, Child, BeforeExec
<1>2. CASE Go(c, "exec", child[c].T)
  BY <1>1, <1>2, SpawnKeeps DEF BeforeExec
<1>3. CASE Fail(c, "EPERM")
  BY <1>1, <1>3, SpawnFails DEF Results
<1>4. CASE Fail(c, "EINVAL")
  BY <1>1, <1>4, SpawnFails DEF Results
<1> QED BY <1>2, <1>3, <1>4 DEF SpawnChildSetgid

LEMMA SpawnChildReportStep ==
  ASSUME ProcessIInv, NEW c \in Calls, NEW n \in Nat, SpawnChildReport(c, n)
  PROVE  ProcessIInv'
<1>1. PICK k, h, e, g : /\ k = call[c] /\ h = child[c] /\ e = errpipe[c]
                        /\ g = Went(h, "dead", NoFiles)
  OBVIOUS
<1>2. h.state = "report" /\ k.q.kind = "spawn" /\ UNCHANGED <<uid, parent, call>>
  BY <1>1 DEF SpawnChildReport, Child
<1>3. Spawned(c, k, h, e) /\ h \in ChildType /\ e \in Nat
  <2>1. h.state # "none"
    BY <1>2
  <2> QED BY <1>1, <1>2, <2>1, TypesOf, WhichStory
<1>4. g \in ChildType /\ g.state = "dead"
  <2>1. "dead" \in ChildStates /\ NoFiles \in Table
    BY NothingYet DEF ChildStates
  <2> QED BY <2>1, <1>1, <1>3, GoFields
<1>5. k.offset \in Nat /\ IntSize \in Nat
  BY <1>3, ProcessAssumption DEF Spawned, CallType
<1>6. h.state \notin BeforeExec /\ g.state \notin BeforeExec
  BY <1>2, <1>4 DEF BeforeExec
<1>7. k.pc = "done" => ~(k.result = "ok" /\ k.fds[2] > 2) /\ ~(k.result # "ok")
  BY <1>2, <1>3 DEF Spawned, SpawnErrno
<1>8. k.fds[2] > 2 => h.T[k.fds[2]].file = End(c, "errno", "write")
  BY <1>2, <1>3 DEF Spawned, SpawnErrno
<1>9. ASSUME NEW f \in Nat, k.fds[2] > 2 => k.offset + f = IntSize
      PROVE  Story(c, k, g, f)
  <2>1. SpawnErrno(c, k, g, f)
    BY <1>4, <1>6, <1>7, <1>9 DEF SpawnErrno
  <2>2. SpawnFiles(k, g)
    BY <1>4, <1>6 DEF SpawnFiles
  <2>3. Spawned(c, k, g, f)
    BY <1>3, <1>4, <2>1, <2>2 DEF Spawned
  <2> QED BY <2>3 DEF Story
<1>10. ASSUME NEW f \in Nat PROVE Story(c, k, h, f)
  <2>1. SpawnErrno(c, k, h, f)
    BY <1>2, <1>3 DEF Spawned, SpawnErrno
  <2>2. Spawned(c, k, h, f)
    BY <1>3, <1>10, <2>1 DEF Spawned
  <2> QED BY <2>2 DEF Story
<1>11. /\ [child EXCEPT ![c].state = "dead", ![c].T = NoFiles] = [child EXCEPT ![c] = g]
       /\ child = [child EXCEPT ![c] = h] /\ errpipe = [errpipe EXCEPT ![c] = e]
  BY <1>1 DEF ProcessIInv, Went
<1>12. CASE h.T[k.fds[2]].file = End(c, "errno", "write")
  <2>1. PICK f : f = e + n
    OBVIOUS
  <2>2. f \in Nat /\ errpipe' = [errpipe EXCEPT ![c] = f]
    BY <1>1, <1>3, <1>12, <2>1 DEF SpawnChildReport, ProcessIInv
  <2>3. CASE k.offset + e + n = IntSize
    <3>1. child' = [child EXCEPT ![c] = g]
      BY <1>1, <1>11, <1>12, <2>3 DEF SpawnChildReport
    <3>2. k.offset + f = IntSize
      BY <1>3, <1>5, <2>1, <2>3
    <3>3. Story(c, k, g, f)
      BY <2>2, <3>2, <1>9
    <3> QED BY <1>1, <1>2, <1>4, <2>2, <3>1, <3>3, ChildStepped
  <2>4. CASE k.offset + e + n # IntSize
    <3>1. child' = [child EXCEPT ![c] = h]
      BY <1>1, <1>11, <1>12, <2>4 DEF SpawnChildReport
    <3> QED BY <1>1, <1>2, <1>3, <1>10, <2>2, <3>1, ChildStepped
  <2> QED BY <2>3, <2>4
<1>13. CASE h.T[k.fds[2]].file # End(c, "errno", "write")
  <2>1. errpipe' = [errpipe EXCEPT ![c] = e]
    BY <1>1, <1>11, <1>13 DEF SpawnChildReport
  <2>2. CASE child' = [child EXCEPT ![c].state = "dead", ![c].T = NoFiles]
    <3>1. child' = [child EXCEPT ![c] = g]
      BY <1>11, <2>2
    <3>2. Story(c, k, g, e)
      BY <1>3, <1>8, <1>9, <1>13
    <3> QED BY <1>1, <1>2, <1>3, <1>4, <2>1, <3>1, <3>2, ChildStepped
  <2>3. CASE child' = [child EXCEPT ![c].state = "spinning"]
    <3>1. PICK s : s = Went(h, "spinning", h.T)
      OBVIOUS
    <3>2. s \in ChildType /\ s.state = "spinning"
      <4>1. "spinning" \in ChildStates /\ h.T \in Table
        BY <1>3 DEF ChildStates, ChildType
      <4> QED BY <3>1, <4>1, <1>3, GoFields
    <3>3. s.state \notin BeforeExec
      BY <3>2 DEF BeforeExec
    <3>4. SpawnErrno(c, k, s, e)
      BY <1>3, <1>7, <1>8, <1>13, <3>2, <3>3 DEF SpawnErrno
    <3>5. SpawnFiles(k, s)
      BY <3>2, <3>3 DEF SpawnFiles
    <3>6. Spawned(c, k, s, e)
      BY <1>3, <3>2, <3>4, <3>5 DEF Spawned
    <3>7. Story(c, k, s, e)
      BY <3>6 DEF Story
    <3>8. [child EXCEPT ![c].state = "spinning"] = [child EXCEPT ![c] = s]
      BY <1>1, <1>3, <3>1 DEF ProcessIInv, Went, ChildType
    <3> QED BY <1>1, <1>2, <1>3, <2>1, <2>3, <3>2, <3>7, <3>8, ChildStepped
  <2> QED BY <1>1, <1>13, <2>2, <2>3 DEF SpawnChildReport
<1> QED BY <1>12, <1>13

-----------------------------------------------------------------------------
(* The child of a create.                                                  *)
CreateStates == {"dup", "chdir", "exec", "running", "ended", "report", "dead"}

LEMMA CreateGoesOn ==
  ASSUME NEW c, NEW k, NEW h, NEW e, Created(c, k, h, e),
         NEW g \in ChildType, NEW f \in Nat, g.state \in CreateStates \ {"dup"},
         g.state \in {"chdir", "exec"} => Clean(g.T) /\ Stands(g.T, k),
         g.state = "running" => Runs(g.T, k),
         CreateErrno(k, g, f)
  PROVE  Story(c, k, g, f)
<1>1. CreateFiles(c, k, g)
  BY DEF Created, CreateFiles, CreateStates
<1>2. Created(c, k, g, f)
  BY <1>1 DEF Created, CreateStates
<1> QED BY <1>2 DEF Story

LEMMA CreatedTypes ==
  ASSUME NEW c, NEW k, NEW h, NEW e, Created(c, k, h, e)
  PROVE  /\ k \in CallType /\ h \in ChildType /\ h.T \in Table /\ e \in Nat
         /\ k.fds \in [1..6 -> Fds] /\ Apart(6, k.fds)
         /\ h.state \in {"chdir", "exec"} => Clean(h.T) /\ Stands(h.T, k)
<1>1. k \in CallType /\ h \in ChildType /\ e \in Nat
  BY DEF Created
<1>2. h.T \in Table
  BY <1>1 DEF ChildType
<1> QED BY <1>1, <1>2 DEF Created, CreateFiles, Apart

LEMMA CreateFails ==
  ASSUME ProcessIInv, NEW c \in Calls, NEW k, NEW h, NEW e,
         k = call[c], h = child[c], e = errpipe[c], Created(c, k, h, e),
         NEW x \in Results \ {"ok"}, Fail(c, x),
         h.T[IF x = "EMFILE" THEN k.fds[6] ELSE 2].file = k.files[3]
  PROVE  ProcessIInv'
<1>1. PICK g : g = Erred(h, x)
  OBVIOUS
<1>2. h \in ChildType /\ e \in Nat
  BY CreatedTypes
<1>3. g \in ChildType /\ g.state = "report" /\ g.T = h.T /\ g.errno = x
  BY <1>1, <1>2, FailFields
<1>4. CreateErrno(k, g, e)
  BY <1>3 DEF CreateErrno
<1>5. Story(c, k, g, e)
  BY <1>2, <1>3, <1>4, CreateGoesOn DEF CreateStates
<1> QED BY <1>1, <1>5, FailStep

LEMMA CreateMoves ==
  ASSUME ProcessIInv, NEW c \in Calls, NEW k, NEW h, NEW e,
         k = call[c], h = child[c], e = errpipe[c], Created(c, k, h, e),
         NEW s \in {"chdir", "exec", "running"}, NEW T \in Table, Go(c, s, T),
         s # "running" => Clean(T) /\ Stands(T, k),
         s = "running" => Runs(T, k)
  PROVE  ProcessIInv'
<1>1. PICK g : g = Went(h, s, T)
  OBVIOUS
<1>2. h \in ChildType /\ e \in Nat
  BY CreatedTypes
<1>3. s \in ChildStates
  BY DEF ChildStates, BeforeExec
<1>4. g \in ChildType /\ g.state = s /\ g.T = T
  BY <1>1, <1>2, <1>3, GoFields
<1>5. CreateErrno(k, g, e)
  BY <1>4 DEF CreateErrno
<1>6. Story(c, k, g, e)
  BY <1>2, <1>4, <1>5, CreateGoesOn DEF CreateStates
<1> QED BY <1>1, <1>3, <1>6, GoStep

LEMMA CreateChildChdirStep ==
  ASSUME ProcessIInv, NEW c \in Calls, CreateChildChdir(c)
  PROVE  ProcessIInv'
<1>1. PICK k, h, e : k = call[c] /\ h = child[c] /\ e = errpipe[c]
  OBVIOUS
<1>2. h.state = "chdir" /\ k.q.kind = "create" /\ h.state # "none"
  BY <1>1 DEF CreateChildChdir, Child
<1>3. Created(c, k, h, e)
  BY <1>1, <1>2, TypesOf, WhichStory
<1>4. h.T \in Table /\ Clean(h.T) /\ Stands(h.T, k)
  BY <1>2, <1>3, CreatedTypes
<1>5. h.T[2].file = k.files[3]
  <2>1. h.T[3 - 1] = [file |-> k.files[3], cloexec |-> FALSE]
    BY <1>4 DEF Stands
  <2> QED BY <2>1
<1>6. CASE Go(c, "exec", h.T)
  BY <1>1, <1>3, <1>4, <1>6, CreateMoves
<1>7. CASE Fail(c, "ENOENT")
  <2>1. "ENOENT" \in Results \ {"ok"} /\ "ENOENT" # "EMFILE"
    BY DEF Results
  <2> QED BY <1>1, <1>3, <1>5, <1>7, <2>1, CreateFails
<1> QED BY <1>1, <1>6, <1>7 DEF CreateChildChdir

LEMMA CreateChildReportStep ==
  ASSUME ProcessIInv, NEW c \in Calls, CreateChildReport(c)
  PROVE  ProcessIInv'
<1>1. PICK k, h, e, g : /\ k = call[c] /\ h = child[c] /\ e = errpipe[c]
                        /\ g = Went(h, "dead", NoFiles)
  OBVIOUS
<1>2. /\ h.state = "report" /\ k.q.kind = "create" /\ h.state # "none"
      /\ UNCHANGED <<uid, parent, call>>
  BY <1>1 DEF CreateChildReport, Child
<1>3. Created(c, k, h, e) /\ h \in ChildType
  BY <1>1, <1>2, TypesOf, WhichStory
<1>4. g \in ChildType /\ g.state = "dead"
  <2>1. "dead" \in ChildStates
    BY DEF ChildStates
  <2> QED BY <1>1, <1>3, <2>1, NothingYet, GoFields
<1>5. k.files[3] = End(c, "stderr", "write")
  BY <1>3 DEF Created, CreateFiles
<1>6. h.T[Stderr(c)].file = End(c, "stderr", "write")
  BY <1>1, <1>2, <1>3, <1>5 DEF Created, CreateErrno, Stderr
<1>7. errpipe' = [errpipe EXCEPT ![c] = 1]
  BY <1>1, <1>6 DEF CreateChildReport
<1>8. child' = [child EXCEPT ![c] = g]
  BY <1>1 DEF CreateChildReport, ProcessIInv, Went
<1>9. CreateErrno(k, g, 1)
  BY <1>4 DEF CreateErrno
<1>10. Story(c, k, g, 1)
  BY <1>3, <1>4, <1>9, CreateGoesOn DEF CreateStates
<1> QED BY <1>1, <1>2, <1>4, <1>7, <1>8, <1>10, ChildStepped

LEMMA CreateChildStdStep ==
  ASSUME ProcessIInv, NEW c \in Calls, CreateChildStd(c)
  PROVE  ProcessIInv'
<1>1. PICK k, h, e, T, F, ds :
        /\ k = call[c] /\ h = child[c] /\ e = errpipe[c] /\ T = h.T /\ F = k.fds
        /\ ds = <<F[1], F[4], F[6]>>
  OBVIOUS
<1>2. h.state = "dup" /\ k.q.kind = "create" /\ h.state # "none"
  BY <1>1 DEF CreateChildStd, Child
<1>3. Created(c, k, h, e)
  BY <1>1, <1>2, TypesOf, WhichStory
<1>4. T \in Table /\ F \in [1..6 -> Fds] /\ Apart(6, F)
  BY <1>1, <1>3, CreatedTypes
<1>5. /\ T[F[1]].file = k.files[1] /\ T[F[4]].file = k.files[2] /\ T[F[6]].file = k.files[3]
      /\ \A d \in 0..2 : T[d] # Free
      /\ \A d \in Fds : d > 2 /\ (\A i \in 1..6 : F[i] # d) => T[d].file = None \/ T[d].cloexec
  BY <1>1, <1>2, <1>3 DEF Created, CreateFiles
<1>6. CASE Room(T, 0, Limit - 1) < 3
  <2>1. Fail(c, "EMFILE")
    BY <1>1, <1>6 DEF CreateChildStd
  <2>2. "EMFILE" \in Results \ {"ok"}
    BY DEF Results
  <2> QED BY <1>1, <1>3, <1>5, <2>1, <2>2, CreateFails
<1>7. CASE ~(Room(T, 0, Limit - 1) < 3)
  <2>1. PICK temps, U, D, A :
          /\ temps = Lowest(T, 0, 3) /\ U = Duplicated(T, ds, temps)
          /\ D = Closed(U, 0..2 \cup {F[i] : i \in 1..6})
          /\ A = Closed(Placed(D, temps), {temps[i] : i \in 1..3})
    OBVIOUS
  <2>2. Go(c, "chdir", A)
    BY <1>1, <1>7, <2>1 DEF CreateChildStd
  <2>3. Room(T, 0, Limit - 1) >= 3
    <3>1. Room(T, 0, Limit - 1) \in Nat
      BY RoomType, LimitFacts
    <3> QED BY <3>1, <1>7
  <2>4. FreeFrom(T, 0, 3, temps)
    BY <2>1, <2>3, LowestFree
  <2>5. /\ temps \in [1..3 -> Fds] /\ Apart(3, temps) /\ \A i \in 1..3 : T[temps[i]] = Free
    BY <2>4 DEF FreeFrom
  <2>6. \A i \in 1..3 : temps[i] \in Nat /\ temps[i] \notin 0..2 /\ temps[i] > 2
    <3>1. \A i \in 1..3 : temps[i] \in Nat /\ temps[i] \notin 0..2
      BY <1>5, <2>5, LimitFacts DEF Fds
    <3> QED BY <3>1
  <2>7. \A i \in 1..3 : ds[i] \in Fds /\ k.files[i] = T[ds[i]].file
    <3>1. ds[1] = F[1] /\ ds[2] = F[4] /\ ds[3] = F[6]
      BY <1>1
    <3>2. F[1] \in Fds /\ F[4] \in Fds /\ F[6] \in Fds
      BY <1>4
    <3>3. \A i \in 1..3 : i = 1 \/ i = 2 \/ i = 3
      OBVIOUS
    <3> QED BY <3>1, <3>2, <3>3, <1>5
  <2>8. Holding(T, 3, temps, k.files, U)
    BY <1>4, <2>1, <2>5, <2>7, DuplicatedAt
  <2>9. ASSUME NEW j \in 1..6 PROVE T[F[j]] # Free
    <3>1. T[F[j]].file # None
      BY <1>1, <1>2, <1>3 DEF Created, CreateFiles
    <3> QED BY <3>1, FreeEntry
  <2>10. \A i \in 1..3 : temps[i] \notin 0..2 \cup {F[j] : j \in 1..6}
    BY <2>5, <2>6, <2>9
  <2>11. /\ U \in Table /\ D \in Table
         /\ \A d \in Fds : D[d] = IF d \in 0..2 \cup {F[j] : j \in 1..6} THEN Free ELSE U[d]
    BY <2>1, <2>8, ClosedAt DEF Holding
  <2>12. \A i \in 1..3 : D[temps[i]].file = k.files[i]
    BY <2>5, <2>8, <2>10, <2>11 DEF Holding
  <2>13. Arranged(D, temps, k.files, A)
    BY <2>1, <2>5, <2>6, <2>11, <2>12, PlacedAt
  <2>14. A \in Table /\ Stands(A, k)
    BY <2>13 DEF Arranged, Stands
  <2>15. Clean(A)
    <3> SUFFICES ASSUME NEW d \in Fds, d > 2 PROVE A[d].file = None \/ A[d].cloexec
      BY DEF Clean
    <3>1. CASE \E i \in 1..3 : temps[i] = d
      BY <3>1, <2>13, FreeEntry DEF Arranged
    <3>2. CASE \A i \in 1..3 : temps[i] # d
      <4>1. A[d] = D[d]
        BY <3>2, <2>13 DEF Arranged
      <4>2. U[d] = T[d]
        BY <3>2, <2>8 DEF Holding
      <4>3. CASE \E j \in 1..6 : F[j] = d
        <5>1. D[d] = Free
          BY <4>3, <2>11
        <5> QED BY <4>1, <5>1, FreeEntry
      <4>4. CASE \A j \in 1..6 : F[j] # d
        <5>1. d \notin 0..2 \cup {F[j] : j \in 1..6}
          BY <4>4, LimitFacts DEF Fds
        <5> QED BY <4>1, <4>2, <4>4, <5>1, <2>11, <1>5
      <4> QED BY <4>3, <4>4
    <3> QED BY <3>1, <3>2
  <2> QED BY <1>1, <1>3, <2>2, <2>14, <2>15, CreateMoves
<1> QED BY <1>6, <1>7

-----------------------------------------------------------------------------
(* Programs.                                                               *)
LEMMA RunsExecuted ==
  ASSUME NEW T \in Table, NEW k, Clean(T), Stands(T, k)
  PROVE  Executed(T) \in Table /\ Runs(Executed(T), k)
<1>1. /\ Executed(T) \in Table
      /\ \A d \in Fds : Executed(T)[d] = IF T[d].cloexec THEN Free ELSE T[d]
  BY ExecutedAt
<1>2. ASSUME NEW d \in Fds
      PROVE  Executed(T)[d].file = IF d \in 0..2 THEN k.files[d + 1] ELSE None
  <2>1. CASE d \in 0..2
    <3>1. d + 1 \in 1..3 /\ (d + 1) - 1 = d
      BY <2>1
    <3>2. T[(d + 1) - 1] = [file |-> k.files[d + 1], cloexec |-> FALSE]
      BY <3>1 DEF Stands
    <3>3. T[d] = [file |-> k.files[d + 1], cloexec |-> FALSE]
      BY <3>1, <3>2
    <3>4. T[d].file = k.files[d + 1] /\ ~T[d].cloexec
      BY <3>3
    <3> QED BY <2>1, <3>4, <1>1
  <2>2. CASE d \notin 0..2
    <3>1. d > 2
      BY <2>2, LimitFacts DEF Fds
    <3>2. T[d].file = None \/ T[d].cloexec
      BY <3>1 DEF Clean
    <3> QED BY <2>2, <3>2, <1>1, FreeEntry
  <2> QED BY <2>1, <2>2
<1> QED BY <1>1, <1>2 DEF Runs

LEMMA ExecStep == ASSUME ProcessIInv, NEW c \in Calls, Exec(c) PROVE ProcessIInv'
<1>1. PICK k, h, e, T : k = call[c] /\ h = child[c] /\ e = errpipe[c] /\ T = h.T
  OBVIOUS
<1>2. h.state = "exec" /\ h.state \in BeforeExec \ {"dup"} /\ h.state # "none"
  BY <1>1 DEF Exec, BeforeExec
<1>3. Spawned(c, k, h, e) \/ Created(c, k, h, e)
  BY <1>1, <1>2, TypesOf, WhichStory
<1>4. T \in Table /\ Clean(T) /\ Stands(T, k)
  BY <1>1, <1>2, <1>3, SpawnedTypes, CreatedTypes
<1>5. Executed(T) \in Table /\ Runs(Executed(T), k)
  BY <1>4, RunsExecuted
<1>6. "ENOEXEC" \in Results \ {"ok"} /\ "ENOEXEC" # "EMFILE"
  BY DEF Results
<1>7. CASE Spawned(c, k, h, e)
  <2>1. k.q.kind = "spawn"
    BY <1>7 DEF Spawned
  <2>2. CASE Go(c, "running", Executed(T))
    <3>1. "running" \notin BeforeExec
      BY DEF BeforeExec
    <3> QED BY <1>1, <1>2, <1>5, <2>1, <2>2, <3>1, SpawnMoves
  <2>3. CASE Fail(c, "ENOEXEC")
    BY <1>1, <1>2, <1>6, <2>1, <2>3, SpawnFails
  <2> QED BY <1>1, <2>2, <2>3 DEF Exec
<1>8. CASE Created(c, k, h, e)
  <2>2. CASE Go(c, "running", Executed(T))
    BY <1>1, <1>5, <1>8, <2>2, CreateMoves
  <2>3. CASE Fail(c, "ENOEXEC")
    <3>1. T[3 - 1] = [file |-> k.files[3], cloexec |-> FALSE]
      BY <1>4 DEF Stands
    <3>2. T[2].file = k.files[3]
      BY <3>1
    <3> QED BY <1>1, <1>6, <1>8, <2>3, <3>2, CreateFails
  <2> QED BY <1>1, <2>2, <2>3 DEF Exec
<1> QED BY <1>3, <1>7, <1>8

LEMMA ProgramEndsStep == ASSUME ProcessIInv, NEW c \in Calls, ProgramEnds(c) PROVE ProcessIInv'
<1>1. PICK k, h, e, g : /\ k = call[c] /\ h = child[c] /\ e = errpipe[c]
                        /\ g = Went(h, "ended", NoFiles)
  OBVIOUS
<1>2. h.state = "running" /\ h.state # "none" /\ Go(c, "ended", NoFiles)
  BY <1>1 DEF ProgramEnds
<1>3. (Spawned(c, k, h, e) \/ Created(c, k, h, e)) /\ h \in ChildType /\ e \in Nat
  BY <1>1, <1>2, TypesOf, WhichStory
<1>4. "ended" \in ChildStates /\ "ended" \notin BeforeExec
  BY DEF ChildStates, BeforeExec
<1>5. g \in ChildType /\ g.state = "ended"
  BY <1>1, <1>3, <1>4, NothingYet, GoFields
<1>6. CASE Spawned(c, k, h, e)
  <2>1. SpawnErrno(c, k, g, e)
    BY <1>2, <1>4, <1>5, <1>6 DEF Spawned, SpawnErrno
  <2>2. SpawnFiles(k, g)
    BY <1>4, <1>5 DEF SpawnFiles
  <2>3. Spawned(c, k, g, e)
    BY <1>5, <1>6, <2>1, <2>2 DEF Spawned
  <2>4. Story(c, k, g, e)
    BY <2>3 DEF Story
  <2> QED BY <1>1, <1>2, <1>4, <2>4, NothingYet, GoStep
<1>7. CASE Created(c, k, h, e)
  <2>1. CreateErrno(k, g, e)
    BY <1>5 DEF CreateErrno
  <2>2. Story(c, k, g, e)
    BY <1>3, <1>5, <1>7, <2>1, CreateGoesOn DEF CreateStates
  <2> QED BY <1>1, <1>2, <1>4, <2>2, NothingYet, GoStep
<1> QED BY <1>3, <1>6, <1>7

-----------------------------------------------------------------------------
(* The parent's table.                                                     *)
LEMMA ParentStays ==
  ASSUME NEW P, NEW cl, DOMAIN cl = Calls, Accounted(P, cl), NEW c \in Calls, NEW k,
         Gets(k) = Gets(cl[c])
  PROVE  Accounted(P, [cl EXCEPT ![c] = k])
<1>1. PICK m : m = [cl EXCEPT ![c] = k]
  OBVIOUS
<1>2. \A o \in Calls : Gets(m[o]) = Gets(cl[o])
  BY <1>1
<1>3. Accounted(P, m)
  BY <1>2 DEF Accounted
<1> QED BY <1>1, <1>3

LEMMA ParentCloses ==
  ASSUME NEW P, Tidy(P), NEW cl, DOMAIN cl = Calls, Accounted(P, cl), NEW c \in Calls,
         NEW ds, ds \subseteq Gets(cl[c]), NEW k, Gets(k) = Gets(cl[c]) \ ds
  PROVE  Tidy(Closed(P, ds)) /\ Accounted(Closed(P, ds), [cl EXCEPT ![c] = k])
<1>1. PICK R, m : R = Closed(P, ds) /\ m = [cl EXCEPT ![c] = k]
  OBVIOUS
<1>2. P \in Table
  BY DEF Tidy
<1>3. R \in Table /\ \A d \in Fds : R[d] = IF d \in ds THEN Free ELSE P[d]
  BY <1>1, <1>2, ClosedAt
<1>4. Clean(R)
  BY <1>3, FreeEntry DEF Tidy, Clean
<1>5. Tidy(R)
  BY <1>3, <1>4 DEF Tidy
<1>6. m[c] = k /\ \A o \in Calls : o # c => m[o] = cl[o]
  BY <1>1
<1>7. ASSUME NEW d \in Fds, R[d].file \in Pipes PROVE \E o \in Calls : d \in Gets(m[o])
  <2>1. d \notin ds
    BY <1>3, <1>7, FreeEntry, FilesDiffer
  <2>2. PICK o \in Calls : d \in Gets(cl[o])
    BY <1>3, <1>7, <2>1 DEF Accounted
  <2>3. d \in Gets(m[o])
    BY <1>6, <2>1, <2>2
  <2> QED BY <2>3
<1>8. ASSUME NEW o \in Calls, NEW d \in Gets(m[o]) PROVE d \in Fds /\ R[d].file \in EndsOf(o)
  <2>1. d \in Gets(cl[o]) /\ (o = c => d \notin ds)
    BY <1>6, <1>8
  <2>2. d \in Fds /\ P[d].file \in EndsOf(o)
    BY <2>1 DEF Accounted
  <2>3. d \notin ds
    <3>1. CASE o = c
      BY <3>1, <2>1
    <3>2. CASE o # c
      <4>1. ASSUME d \in ds PROVE FALSE
        <5>1. P[d].file \in EndsOf(c)
          BY <4>1 DEF Accounted
        <5> QED BY <5>1, <2>2, <3>2, FilesDiffer
      <4> QED BY <4>1
    <3> QED BY <3>1, <3>2
  <2> QED BY <1>3, <2>2, <2>3
<1>9. Accounted(R, m)
  BY <1>7, <1>8 DEF Accounted
<1> QED BY <1>1, <1>5, <1>9

LEMMA ParentOpens ==
  ASSUME NEW P, Tidy(P), NEW cl, DOMAIN cl = Calls, Accounted(P, cl), NEW c \in Calls,
         Gets(cl[c]) = {}, NEW k, Gets(k) \subseteq Fds, NEW R \in Table,
         \A d \in Gets(k) : P[d] = Free /\ R[d].file \in EndsOf(c) /\ R[d].cloexec,
         \A d \in Fds \ Gets(k) : R[d] = P[d]
  PROVE  Tidy(R) /\ Accounted(R, [cl EXCEPT ![c] = k])
<1>1. PICK m : m = [cl EXCEPT ![c] = k]
  OBVIOUS
<1>2. \A d \in Gets(k) : R[d].file \in Pipes /\ R[d].file # None
  BY FilesDiffer
<1>3. Clean(R)
  <2> SUFFICES ASSUME NEW d \in Fds, d > 2 PROVE R[d].file = None \/ R[d].cloexec
    BY DEF Clean
  <2> QED BY DEF Tidy, Clean
<1>4. \A d \in Fds : R[d].file = None => R[d] = Free
  BY <1>2 DEF Tidy
<1>5. Tidy(R)
  BY <1>3, <1>4 DEF Tidy
<1>6. m[c] = k /\ \A o \in Calls : o # c => m[o] = cl[o]
  BY <1>1
<1>7. ASSUME NEW d \in Fds, R[d].file \in Pipes PROVE \E o \in Calls : d \in Gets(m[o])
  <2>1. CASE d \in Gets(k)
    BY <1>6, <2>1
  <2>2. CASE d \notin Gets(k)
    <3>1. PICK o \in Calls : d \in Gets(cl[o])
      BY <1>7, <2>2 DEF Accounted
    <3>2. o # c
      BY <3>1
    <3> QED BY <3>1, <3>2, <1>6
  <2> QED BY <2>1, <2>2
<1>8. ASSUME NEW o \in Calls, NEW d \in Gets(m[o]) PROVE d \in Fds /\ R[d].file \in EndsOf(o)
  <2>1. CASE o = c
    BY <2>1, <1>6, <1>8
  <2>2. CASE o # c
    <3>1. d \in Fds /\ P[d].file \in EndsOf(o)
      BY <2>2, <1>6, <1>8 DEF Accounted
    <3>2. P[d].file # None
      BY <3>1, FilesDiffer
    <3>3. d \notin Gets(k)
      BY <3>2, FreeEntry
    <3> QED BY <3>1, <3>3
  <2> QED BY <2>1, <2>2
<1>9. Accounted(R, m)
  BY <1>7, <1>8 DEF Accounted
<1> QED BY <1>1, <1>5, <1>9

LEMMA Undoing ==
  ASSUME NEW P \in Table, NEW m \in Nat, FreeFrom(P, 0, m, Lowest(P, 0, m)),
         NEW L, L = Lowest(P, 0, m), NEW R \in Table,
         \A d \in Fds : (\A i \in 1..m : L[i] # d) => R[d] = P[d]
  PROVE  Closed(R, {L[i] : i \in 1..m}) = P
<1>1. PICK Q : Q = Closed(R, {L[i] : i \in 1..m})
  OBVIOUS
<1>2. Q \in Table /\ \A d \in Fds : Q[d] = IF d \in {L[i] : i \in 1..m} THEN Free ELSE R[d]
  BY <1>1, ClosedAt
<1>3. \A i \in 1..m : P[L[i]] = Free
  BY DEF FreeFrom
<1>4. \A d \in Fds : Q[d] = P[d]
  BY <1>2, <1>3
<1>5. Q = P
  BY <1>2, <1>4 DEF Table
<1> QED BY <1>1, <1>5

-----------------------------------------------------------------------------
(* What the parent does.                                                   *)
LEMMA CalledFields ==
  ASSUME NEW c \in Calls, NEW q \in Requests, NEW fds \in Seq(Fds), parent \in Table,
         NEW k, k = Called(c, q, fds)
  PROVE  /\ k \in CallType /\ k.pc = "called" /\ k.q = q /\ k.fds = fds /\ k.offset = 0
         /\ k.result = "none" /\ k.got = {}
         /\ q.kind = "spawn" => \A i \in 1..3 : k.files[i] = parent[q.std[i]].file
         /\ q.kind = "create" => /\ k.files[1] = End(c, "stdin", "read")
                                 /\ k.files[2] = End(c, "stdout", "write")
                                 /\ k.files[3] = End(c, "stderr", "write")
<1>1. q.kind \in {"spawn", "create"} /\ q.std \in [1..3 -> Fds]
  BY ProcessAssumption
<1>2. PICK F : F = [i \in 1..3 |-> IF q.kind = "spawn" THEN parent[q.std[i]].file
                                   ELSE <<End(c, "stdin", "read"), End(c, "stdout", "write"),
                                          End(c, "stderr", "write")>>[i]]
  OBVIOUS
<1>3. k = [pc |-> "called", q |-> q, fds |-> fds, offset |-> 0, result |-> "none",
           got |-> {}, files |-> F]
  BY <1>2 DEF Called
<1>4. /\ End(c, "stdin", "read") \in AnyFile /\ End(c, "stdout", "write") \in AnyFile
      /\ End(c, "stderr", "write") \in AnyFile
  BY EndIsPipe DEF Kinds, AnyFile
<1>5. q.kind = "spawn" => \A i \in 1..3 : F[i] = parent[q.std[i]].file
  BY <1>2
<1>6. q.kind = "create" => /\ F[1] = End(c, "stdin", "read")
                           /\ F[2] = End(c, "stdout", "write")
                           /\ F[3] = End(c, "stderr", "write")
  BY <1>2
<1>7. \A i \in 1..3 : F[i] \in AnyFile
  <2>1. CASE q.kind = "spawn"
    <3>1. \A i \in 1..3 : parent[q.std[i]].file \in AnyFile
      BY <1>1, EntryFields
    <3> QED BY <2>1, <3>1, <1>5
  <2>2. CASE q.kind = "create"
    <3>1. \A i \in 1..3 : i = 1 \/ i = 2 \/ i = 3
      OBVIOUS
    <3> QED BY <2>2, <3>1, <1>4, <1>6
  <2> QED BY <2>1, <2>2, <1>1
<1>8. F \in [1..3 -> AnyFile]
  BY <1>2, <1>7
<1>9. k \in CallType
  BY <1>3, <1>8 DEF CallType, Results
<1> QED BY <1>3, <1>5, <1>6, <1>9

LEMMA FailedFields ==
  ASSUME NEW c \in Calls, NEW q \in Requests, NEW x \in Results, parent \in Table,
         NEW k, k = Failed(c, q, x)
  PROVE  k \in CallType /\ k.pc = "done" /\ k.got = {}
<1>1. PICK a : a = Called(c, q, <<>>)
  OBVIOUS
<1>2. <<>> \in Seq(Fds)
  OBVIOUS
<1>3. a \in CallType /\ a.got = {}
  BY <1>1, <1>2, CalledFields
<1>4. k = [a EXCEPT !.pc = "done", !.result = x]
  BY <1>1 DEF Failed
<1> QED BY <1>3, <1>4 DEF CallType

LEMMA StartFails ==
  ASSUME ProcessIInv, NEW c \in Calls, NEW q \in Requests, NEW x \in Results, call[c] = NoCall,
         call' = [call EXCEPT ![c] = Failed(c, q, x)], UNCHANGED <<uid, parent, child, errpipe>>
  PROVE  ProcessIInv'
<1>1. PICK k : k = Failed(c, q, x)
  OBVIOUS
<1>2. Tidy(parent) /\ parent \in Table /\ Accounted(parent, call) /\ DOMAIN call = Calls
  BY DEF ProcessIInv, Tidy
<1>3. k \in CallType /\ k.pc = "done" /\ k.got = {}
  BY <1>1, <1>2, FailedFields
<1>4. child[c] = NoChild /\ errpipe[c] = 0
  BY TypesOf, WhichStory
<1>5. Story(c, k, NoChild, 0)
  BY <1>3 DEF Story, Forkless
<1>6. Gets(k) = {} /\ Gets(call[c]) = {}
  BY <1>3, NothingYet DEF Gets
<1>7. Tidy(parent') /\ Accounted(parent', [call EXCEPT ![c] = k])
  <2>1. Accounted(parent, [call EXCEPT ![c] = k])
    BY <1>2, <1>6, ParentStays
  <2> QED BY <2>1, <1>2
<1>8. /\ call' = [call EXCEPT ![c] = k] /\ child' = [child EXCEPT ![c] = NoChild]
      /\ errpipe' = [errpipe EXCEPT ![c] = 0] /\ uid' = uid
  BY <1>1, <1>4 DEF ProcessIInv
<1>9. NoChild \in ChildType /\ 0 \in Nat
  BY NothingYet
<1> QED BY <1>3, <1>5, <1>7, <1>8, <1>9, CallStepped

LEMMA SpawnPipeFailsStep ==
  ASSUME ProcessIInv, NEW c \in Calls, NEW q \in Requests, SpawnPipeFails(c, q)
  PROVE  ProcessIInv'
BY StartFails DEF SpawnPipeFails, Results

(* The files of the pipes with these names, end by end.                    *)
Ends(names, m) ==
  [i \in 1..m |-> [pipe |-> names[(i + 1) \div 2],
                   end  |-> IF i % 2 = 1 THEN "read" ELSE "write"]]
LEMMA EndsArePipes ==
  ASSUME NEW c \in Calls, NEW m \in Nat, NEW names,
         \A i \in 1..m : \E n \in Kinds : names[(i + 1) \div 2] = <<c, n>>
  PROVE  /\ Ends(names, m) \in [1..m -> Pipes]
         /\ \A i \in 1..m : Ends(names, m)[i] \in EndsOf(c)
<1>1. ASSUME NEW i \in 1..m PROVE Ends(names, m)[i] \in EndsOf(c)
  <2>1. PICK n \in Kinds : names[(i + 1) \div 2] = <<c, n>>
    OBVIOUS
  <2>2. PICK e \in {"read", "write"} : e = IF i % 2 = 1 THEN "read" ELSE "write"
    OBVIOUS
  <2>3. Ends(names, m)[i] = End(c, n, e)
    BY <2>1, <2>2 DEF Ends, End
  <2> QED BY <2>3, EndIsPipe
<1>2. \A i \in 1..m : Ends(names, m)[i] \in Pipes
  BY <1>1, FilesDiffer
<1> QED BY <1>1, <1>2 DEF Ends

(* The table with pipes at its lowest free descriptors.                    *)
LEMMA PipesOpen ==
  ASSUME NEW P \in Table, NEW c \in Calls, NEW m \in Nat, NEW names,
         \A i \in 1..m : \E n \in Kinds : names[(i + 1) \div 2] = <<c, n>>,
         Room(P, 0, Limit - 1) >= m, NEW L, L = Lowest(P, 0, m)
  PROVE  /\ FreeFrom(P, 0, m, L) /\ L \in [1..m -> Fds] /\ Apart(m, L)
         /\ \A i \in 1..m : P[L[i]] = Free
         /\ Holding(P, m, L, Ends(names, m), Piped(P, names, L))
<1>1. FreeFrom(P, 0, m, L)
  BY LowestFree
<1>2. L \in [1..m -> Fds] /\ Apart(m, L) /\ \A i \in 1..m : P[L[i]] = Free
  BY <1>1 DEF FreeFrom
<1>3. PICK E : E = Ends(names, m)
  OBVIOUS
<1>4. E \in [1..m -> Pipes]
  BY <1>3, EndsArePipes
<1>5. \A i \in 1..m : E[i] = [pipe |-> names[(i + 1) \div 2],
                              end  |-> IF i % 2 = 1 THEN "read" ELSE "write"]
  BY <1>3 DEF Ends
<1>6. Holding(P, m, L, E, Piped(P, names, L))
  BY <1>2, <1>4, <1>5, PipedAt
<1> QED BY <1>1, <1>2, <1>3, <1>6

LEMMA CreateNames ==
  ASSUME NEW c, NEW i \in 1..6
  PROVE  \E n \in Kinds : [j \in 1..3 |-> <<c, PipeNames[j]>>][(i + 1) \div 2] = <<c, n>>
<1>1. PICK j : j = (i + 1) \div 2
  OBVIOUS
<1>2. j \in 1..3
  BY <1>1
<1>3. PipeNames[j] \in Kinds
  <2>1. j = 1 \/ j = 2 \/ j = 3
    BY <1>2
  <2> QED BY <2>1 DEF PipeNames, Kinds
<1>4. [o \in 1..3 |-> <<c, PipeNames[o]>>][j] = <<c, PipeNames[j]>>
  BY <1>2
<1> QED BY <1>1, <1>3, <1>4

LEMMA CreatePipeFailsStep ==
  ASSUME ProcessIInv, NEW c \in Calls, NEW q \in Requests, CreatePipeFails(c, q)
  PROVE  ProcessIInv'
<1>1. PICK P, m, L, names, T :
        /\ P = parent
        /\ m = IF Room(parent, 0, Limit - 1) < 2 THEN 0
               ELSE IF Room(parent, 0, Limit - 1) < 4 THEN 2 ELSE 4
        /\ L = Lowest(parent, 0, m)
        /\ names = [i \in 1..3 |-> <<c, PipeNames[i]>>] /\ T = Piped(parent, names, L)
  OBVIOUS
<1>2. /\ parent' = Undone(T, L) /\ UNCHANGED <<uid, child, errpipe>>
      /\ call' = [call EXCEPT ![c] = Failed(c, q, "EMFILE")] /\ call[c] = NoCall
  BY <1>1 DEF CreatePipeFails
<1>3. m \in Nat /\ m <= 6 /\ Room(P, 0, Limit - 1) >= m
  <2>1. Room(P, 0, Limit - 1) \in Nat
    BY RoomType, LimitFacts
  <2> QED BY <2>1, <1>1
<1>4. P \in Table
  BY <1>1 DEF ProcessIInv, Tidy
<1>5. \A i \in 1..m : \E n \in Kinds : names[(i + 1) \div 2] = <<c, n>>
  <2>1. \A i \in 1..m : i \in 1..6
    BY <1>3
  <2> QED BY <2>1, <1>1, CreateNames
<1>6. /\ FreeFrom(P, 0, m, L) /\ L \in [1..m -> Fds]
      /\ Holding(P, m, L, Ends(names, m), T)
  <2>1. L = Lowest(P, 0, m) /\ T = Piped(P, names, L)
    BY <1>1
  <2>2. FreeFrom(P, 0, m, L)
    BY <2>1, <1>3, LowestFree
  <2>3. Holding(P, m, L, Ends(names, m), Piped(P, names, L))
    BY <2>1, <1>3, <1>4, <1>5, PipesOpen
  <2>4. L \in [1..m -> Fds]
    BY <2>2 DEF FreeFrom
  <2> QED BY <2>1, <2>2, <2>3, <2>4
<1>7. T \in Table /\ \A d \in Fds : (\A i \in 1..m : L[i] # d) => T[d] = P[d]
  BY <1>6 DEF Holding
<1>8. Closed(T, {L[i] : i \in 1..m}) = P
  <2>1. L = Lowest(P, 0, m)
    BY <1>1
  <2> QED BY <2>1, <1>3, <1>4, <1>6, <1>7, Undoing
<1>9. Undone(T, L) = Closed(T, {L[i] : i \in 1..m})
  <2>1. DOMAIN L = 1..m
    BY <1>6
  <2> QED BY <2>1 DEF Undone
<1>10. UNCHANGED parent
  BY <1>1, <1>2, <1>8, <1>9
<1>11. "EMFILE" \in Results
  BY DEF Results
<1> QED BY <1>2, <1>10, <1>11, StartFails
(* Descriptors passed are open, and of the parent's own files or of pipes. *)
LEMMA PassedAreOpen ==
  ASSUME ProcessIInv, NEW q \in Requests, Passable(q), NEW i \in 1..3
  PROVE  q.std[i] \in Fds /\ parent[q.std[i]] # Free
<1>1. q.std[i] \in Fds
  BY ProcessAssumption
<1>2. \/ parent[q.std[i]].file \in Standard
      \/ \E k \in Calls : call[k].pc = "done" /\ q.std[i] \in call[k].got
  BY DEF Passable, Standard
<1>3. CASE parent[q.std[i]].file \in Standard
  <2>1. parent[q.std[i]].file # None
    BY <1>3, FilesDiffer
  <2> QED BY <1>1, <2>1, FreeEntry
<1>4. ASSUME NEW k \in Calls, call[k].pc = "done", q.std[i] \in call[k].got
      PROVE  parent[q.std[i]] # Free
  <2>1. q.std[i] \in Gets(call[k])
    BY <1>4 DEF Gets
  <2>2. parent[q.std[i]].file \in EndsOf(k)
    BY <2>1 DEF ProcessIInv, Accounted
  <2>3. parent[q.std[i]].file # None
    BY <2>2, FilesDiffer
  <2> QED BY <2>3, FreeEntry
<1> QED BY <1>1, <1>2, <1>3, <1>4

LEMMA ForkedFields ==
  ASSUME uid \in {0, 1}, NEW T \in Table, NEW h, h = Forked(T)
  PROVE  h \in ChildType /\ h.state = "dup" /\ h.T = T
BY DEF Forked, ChildType, ChildStates, BeforeExec, Results

LEMMA ListsAreSeqs ==
  ASSUME NEW S, NEW m \in Nat, NEW L \in [1..m -> S]
  PROVE  L \in Seq(S)
OBVIOUS

(* A call that forks.                                                      *)
LEMMA Forks ==
  ASSUME ProcessIInv, NEW c \in Calls, call[c] = NoCall, NEW k \in CallType, NEW h \in ChildType,
         call' = [call EXCEPT ![c] = k], child' = [child EXCEPT ![c] = h],
         UNCHANGED <<uid, errpipe>>, Story(c, k, h, 0),
         Gets(k) \subseteq Fds, NEW R \in Table, parent' = R,
         \A d \in Gets(k) : parent[d] = Free /\ R[d].file \in EndsOf(c) /\ R[d].cloexec,
         \A d \in Fds \ Gets(k) : R[d] = parent[d]
  PROVE  ProcessIInv'
<1>1. Tidy(parent) /\ Accounted(parent, call) /\ DOMAIN call = Calls
  BY DEF ProcessIInv
<1>2. Gets(call[c]) = {} /\ errpipe[c] = 0
  <2>1. Gets(call[c]) = {}
    BY NothingYet DEF Gets
  <2> QED BY <2>1, TypesOf, WhichStory
<1>3. PICK P : P = parent
  OBVIOUS
<1>4. Tidy(R) /\ Accounted(R, [call EXCEPT ![c] = k])
  BY <1>1, <1>2, <1>3, ParentOpens
<1>5. Tidy(parent') /\ Accounted(parent', [call EXCEPT ![c] = k])
  BY <1>4
<1>6. errpipe' = [errpipe EXCEPT ![c] = 0] /\ uid' = uid
  BY <1>2 DEF ProcessIInv
<1> QED BY <1>5, <1>6, CallStepped

LEMMA SpawnStep ==
  ASSUME ProcessIInv, NEW c \in Calls, NEW q \in Requests,
         NEW forks \in BOOLEAN, Spawn(c, q, forks)
  PROVE  ProcessIInv'
<1>1. PICK P, L, names, T, R :
        /\ P = parent /\ L = Lowest(parent, 0, 2) /\ names = << <<c, "errno">> >>
        /\ T = Piped(parent, names, L) /\ R = Cloexec(T, {L[1], L[2]})
  OBVIOUS
<1>2. /\ call[c] = NoCall /\ q.kind = "spawn" /\ Passable(q)
      /\ Room(P, 0, Limit - 1) >= 2 /\ UNCHANGED <<uid, errpipe>>
  BY <1>1 DEF Spawn
<1>3. /\ forks => parent' = R /\ child' = [child EXCEPT ![c] = Forked(R)]
                  /\ call' = [call EXCEPT ![c] = Called(c, q, L)]
      /\ ~forks => parent' = Closed(R, {L[1], L[2]}) /\ child' = child
                   /\ call' = [call EXCEPT ![c] = Failed(c, q, "EAGAIN")]
  <2>1. R = ErrnoPipe(c, L)
    BY <1>1 DEF ErrnoPipe
  <2> QED BY <1>1, <2>1 DEF Spawn
<1>4. P \in Table /\ Clean(P)
  BY <1>1 DEF ProcessIInv, Tidy
<1>5. \A i \in 1..2 : \E n \in Kinds : names[(i + 1) \div 2] = <<c, n>>
  <2>1. \A i \in 1..2 : (i + 1) \div 2 = 1
    OBVIOUS
  <2>2. names[1] = <<c, "errno">> /\ "errno" \in Kinds
    BY <1>1 DEF Kinds
  <2> QED BY <2>1, <2>2
<1>6. /\ FreeFrom(P, 0, 2, L) /\ L \in [1..2 -> Fds] /\ Apart(2, L)
      /\ \A i \in 1..2 : P[L[i]] = Free
      /\ Holding(P, 2, L, Ends(names, 2), T)
  BY <1>1, <1>2, <1>4, <1>5, PipesOpen
<1>7. PICK a, b : a = L[1] /\ b = L[2]
  OBVIOUS
<1>8. /\ a \in Fds /\ b \in Fds /\ a # b /\ P[a] = Free /\ P[b] = Free
      /\ {L[i] : i \in 1..2} = {a, b} /\ \A i \in 1..2 : L[i] \in {a, b}
  BY <1>6, <1>7 DEF Apart
<1>9. /\ T \in Table /\ T[a].file = End(c, "errno", "read") /\ T[b].file = End(c, "errno", "write")
      /\ \A d \in Fds \ {a, b} : T[d] = P[d]
  <2>1. T \in Table /\ \A i \in 1..2 : T[L[i]].file = Ends(names, 2)[i]
    BY <1>6 DEF Holding
  <2>2. Ends(names, 2)[1] = End(c, "errno", "read") /\ Ends(names, 2)[2] = End(c, "errno", "write")
    BY <1>1 DEF Ends, End
  <2>3. \A d \in Fds \ {a, b} : T[d] = P[d]
    BY <1>6, <1>8 DEF Holding
  <2> QED BY <2>1, <2>2, <2>3, <1>7
<1>10. /\ R \in Table /\ R[a].file = End(c, "errno", "read") /\ R[a].cloexec
       /\ R[b].file = End(c, "errno", "write") /\ R[b].cloexec
       /\ \A d \in Fds \ {a, b} : R[d] = P[d]
  <2>1. /\ R \in Table
        /\ \A d \in Fds : /\ R[d].file = T[d].file
                          /\ d \in {a, b} => R[d].cloexec
                          /\ d \notin {a, b} => R[d] = T[d]
    BY <1>1, <1>7, <1>9, CloexecAt
  <2> QED BY <2>1, <1>8, <1>9
<1>11. CASE ~forks
  <2>1. \A d \in Fds : (\A i \in 1..2 : L[i] # d) => R[d] = P[d]
    BY <1>7, <1>10
  <2>2. Closed(R, {L[i] : i \in 1..2}) = P
    <3>1. L = Lowest(P, 0, 2) /\ R \in Table /\ FreeFrom(P, 0, 2, L) /\ 2 \in Nat
      BY <1>1, <1>6, <1>10
    <3> QED BY <3>1, <1>4, <2>1, Undoing
  <2>3. UNCHANGED parent
    BY <1>1, <1>3, <1>7, <1>8, <1>11, <2>2
  <2>4. "EAGAIN" \in Results
    BY DEF Results
  <2> QED BY <1>2, <1>3, <1>11, <2>3, <2>4, StartFails
<1>12. CASE forks
  <2>1. PICK k, h : k = Called(c, q, L) /\ h = Forked(R)
    OBVIOUS
  <2>2. L \in Seq(Fds)
    BY <1>6, ListsAreSeqs
  <2>3. /\ k \in CallType /\ k.pc = "called" /\ k.q = q /\ k.fds = L /\ k.offset = 0
        /\ k.got = {} /\ \A i \in 1..3 : k.files[i] = P[q.std[i]].file
    BY <1>1, <1>2, <1>4, <2>1, <2>2, CalledFields
  <2>4. h \in ChildType /\ h.state = "dup" /\ h.T = R
    BY <1>10, <2>1, ForkedFields DEF ProcessIInv
  <2>5. Gets(k) = {a, b}
    BY <2>3, <1>7 DEF Gets
  <2>6. SpawnFiles(k, h)
    <3>1. Clean(R)
      <4>1. \A d \in Fds : d \in {a, b} \/ R[d] = P[d]
        BY <1>10
      <4> QED BY <4>1, <1>4, <1>10 DEF Clean
    <3>2. \A i \in 1..3 : R[k.q.std[i]].file = k.files[i]
      <4>1. ASSUME NEW i \in 1..3 PROVE q.std[i] \in Fds \ {a, b}
        <5>1. q.std[i] \in Fds /\ P[q.std[i]] # Free
          BY <1>1, <1>2, PassedAreOpen
        <5> QED BY <5>1, <1>8
      <4> QED BY <4>1, <1>10, <2>3
    <3> QED BY <3>1, <3>2, <2>4 DEF SpawnFiles, BeforeExec
  <2>7. SpawnErrno(c, k, h, 0)
    BY <1>7, <1>10, <2>3, <2>4 DEF SpawnErrno
  <2>8. Spawned(c, k, h, 0)
    <3>1. k.fds \in [1..2 -> Fds] /\ k.fds[1] # k.fds[2]
      BY <1>6, <1>7, <1>8, <2>3
    <3> QED BY <1>2, <2>3, <2>4, <2>6, <2>7, <3>1 DEF Spawned
  <2>9. Story(c, k, h, 0)
    BY <2>8 DEF Story
  <2>10. \A d \in Gets(k) : parent[d] = Free /\ R[d].file \in EndsOf(c) /\ R[d].cloexec
    <3>1. End(c, "errno", "read") \in EndsOf(c) /\ End(c, "errno", "write") \in EndsOf(c)
      BY EndIsPipe DEF Kinds
    <3> QED BY <3>1, <1>1, <1>8, <1>10, <2>5
  <2>11. Gets(k) \subseteq Fds /\ \A d \in Fds \ Gets(k) : R[d] = parent[d]
    BY <1>1, <1>8, <1>10, <2>5
  <2>12. /\ call' = [call EXCEPT ![c] = k] /\ child' = [child EXCEPT ![c] = h] /\ parent' = R
    BY <1>3, <1>12, <2>1
  <2>13. /\ call[c] = NoCall /\ UNCHANGED <<uid, errpipe>> /\ R \in Table
         /\ k \in CallType /\ h \in ChildType
    BY <1>2, <1>10, <2>3, <2>4
  <2> QED BY <2>9, <2>10, <2>11, <2>12, <2>13, Forks
<1> QED BY <1>11, <1>12
(* A spawn goes on in its parent: k becomes l.                             *)
SameCall(k, l) == l.q = k.q /\ l.fds = k.fds /\ l.files = k.files
LEMMA SpawnPaces ==
  ASSUME NEW c, NEW k, NEW h, NEW e, Spawned(c, k, h, e), k.pc # "done",
         NEW l \in CallType, SameCall(k, l), l.got = {}, l.pc # "done",
         NEW f \in Nat, l.offset + f = k.offset + e
  PROVE  Story(c, l, h, f)
<1>1. SpawnFiles(l, h)
  BY DEF Spawned, SpawnFiles, SameCall, Stands, Runs
<1>2. SpawnErrno(c, l, h, f)
  BY DEF Spawned, SpawnErrno, SameCall
<1>3. Spawned(c, l, h, f)
  BY <1>1, <1>2 DEF Spawned, SameCall
<1> QED BY <1>3 DEF Story

LEMMA SpawnAnswers ==
  ASSUME NEW c, NEW k, NEW h, NEW e, Spawned(c, k, h, e),
         NEW l \in CallType, SameCall(k, l), l.got = {}, l.pc = "done", l.offset = k.offset,
         NEW g \in ChildType, g.state # "none", g.state = h.state \/ g.state = "reaped",
         g.T = h.T,
         l.result = "ok" /\ k.fds[2] > 2 => g.state \in {"running", "ended"},
         l.result # "ok" => g.state = "reaped" /\ l.result = g.errno
  PROVE  Story(c, l, g, e)
<1>0. "reaped" \notin BeforeExec
  BY DEF BeforeExec
<1>1. SpawnFiles(l, g)
  BY <1>0 DEF Spawned, SpawnFiles, SameCall, Stands, Runs
<1>2. SpawnErrno(c, l, g, e)
  BY <1>0 DEF Spawned, SpawnErrno, SameCall
<1>3. Spawned(c, l, g, e)
  BY <1>1, <1>2 DEF Spawned, SameCall
<1> QED BY <1>3 DEF Story

Paced(k, p)     == [k EXCEPT !.pc = p]
HasRead(k, n)   == [k EXCEPT !.offset = n]
Ended(k, x, ds) == [k EXCEPT !.pc = "done", !.result = x, !.got = ds]
LEMMA PacedFields ==
  ASSUME NEW k \in CallType, NEW p \in {"called", "reading", "waiting", "done"}
  PROVE  /\ Paced(k, p) \in CallType /\ SameCall(k, Paced(k, p)) /\ Paced(k, p).pc = p
         /\ Paced(k, p).got = k.got /\ Paced(k, p).offset = k.offset
BY DEF Paced, CallType, SameCall

LEMMA ReadFields ==
  ASSUME NEW k \in CallType, NEW n \in Nat
  PROVE  /\ HasRead(k, n) \in CallType /\ SameCall(k, HasRead(k, n))
         /\ HasRead(k, n).pc = k.pc /\ HasRead(k, n).got = k.got
         /\ HasRead(k, n).offset = n
BY DEF HasRead, CallType, SameCall

LEMMA EndedFields ==
  ASSUME NEW k \in CallType, NEW x \in Results, NEW ds \in SUBSET Fds
  PROVE  /\ Ended(k, x, ds) \in CallType /\ SameCall(k, Ended(k, x, ds))
         /\ Ended(k, x, ds).pc = "done" /\ Ended(k, x, ds).result = x
         /\ Ended(k, x, ds).got = ds /\ Ended(k, x, ds).offset = k.offset
BY DEF Ended, CallType, SameCall

(* The parent closes ds, which were of this call.                          *)
LEMMA CallCloses ==
  ASSUME ProcessIInv, NEW c \in Calls, NEW ds, ds \subseteq Gets(call[c]),
         NEW k \in CallType, Gets(k) = Gets(call[c]) \ ds,
         call' = [call EXCEPT ![c] = k], parent' = Closed(parent, ds),
         UNCHANGED <<uid, child, errpipe>>, Story(c, k, child[c], errpipe[c])
  PROVE  ProcessIInv'
<1>1. Tidy(parent) /\ Accounted(parent, call) /\ DOMAIN call = Calls
  BY DEF ProcessIInv
<1>2. PICK P : P = parent
  OBVIOUS
<1>3. Tidy(Closed(P, ds)) /\ Accounted(Closed(P, ds), [call EXCEPT ![c] = k])
  BY <1>1, <1>2, ParentCloses
<1>4. Tidy(parent') /\ Accounted(parent', [call EXCEPT ![c] = k])
  BY <1>2, <1>3
<1>5. PICK h, e : h = child[c] /\ e = errpipe[c]
  OBVIOUS
<1>6. h \in ChildType /\ e \in Nat
  BY <1>5, TypesOf
<1>7. /\ child' = [child EXCEPT ![c] = h] /\ errpipe' = [errpipe EXCEPT ![c] = e]
      /\ uid' = uid /\ Story(c, k, h, e)
  BY <1>5 DEF ProcessIInv
<1> QED BY <1>4, <1>6, <1>7, CallStepped

(* The call stays a holder of what it has.                                 *)
LEMMA CallKeeps ==
  ASSUME ProcessIInv, NEW c \in Calls, NEW k \in CallType, Gets(k) = Gets(call[c]),
         NEW h \in ChildType, NEW e \in Nat, call' = [call EXCEPT ![c] = k],
         child' = [child EXCEPT ![c] = h], errpipe' = [errpipe EXCEPT ![c] = e],
         UNCHANGED <<uid, parent>>, Story(c, k, h, e)
  PROVE  ProcessIInv'
<1>1. Tidy(parent) /\ Accounted(parent, call) /\ DOMAIN call = Calls
  BY DEF ProcessIInv
<1>2. Accounted(parent, [call EXCEPT ![c] = k])
  BY <1>1, ParentStays
<1>3. Tidy(parent') /\ Accounted(parent', [call EXCEPT ![c] = k]) /\ uid' = uid
  BY <1>1, <1>2
<1> QED BY <1>3, CallStepped

LEMMA SpawnCloseStep == ASSUME ProcessIInv, NEW c \in Calls, SpawnClose(c) PROVE ProcessIInv'
<1>1. PICK k, h, e, l : /\ k = call[c] /\ h = child[c] /\ e = errpipe[c]
                        /\ l = Paced(k, "reading")
  OBVIOUS
<1>2. /\ k.pc = "called" /\ parent' = Closed(parent, {k.fds[2]})
      /\ UNCHANGED <<uid, child, errpipe>>
  BY <1>1 DEF SpawnClose
<1>3. Spawned(c, k, h, e) /\ k \in CallType /\ e \in Nat
  <2>1. Spawned(c, k, h, e)
    BY <1>1, <1>2, TypesOf, WhichStory
  <2> QED BY <2>1 DEF Spawned
<1>4. /\ l \in CallType /\ SameCall(k, l) /\ l.pc = "reading" /\ l.got = k.got
      /\ l.offset = k.offset
  BY <1>1, <1>3, PacedFields
<1>5. call' = [call EXCEPT ![c] = l]
  BY <1>1 DEF SpawnClose, Paced, ProcessIInv
<1>6. k.got = {} /\ k.fds[1] # k.fds[2] /\ k.offset + e \in Nat
  BY <1>3 DEF Spawned, CallType
<1>7. Story(c, l, h, e)
  BY <1>2, <1>3, <1>4, <1>6, SpawnPaces
<1>8. Gets(k) = {k.fds[1], k.fds[2]} /\ Gets(l) = {k.fds[1]}
  BY <1>2, <1>4 DEF Gets, SameCall
<1>9. Gets(l) = Gets(k) \ {k.fds[2]} /\ {k.fds[2]} \subseteq Gets(k)
  BY <1>6, <1>8
<1> QED BY <1>1, <1>2, <1>4, <1>5, <1>7, <1>9, CallCloses

LEMMA SpawnReadStep ==
  ASSUME ProcessIInv, NEW c \in Calls, NEW n \in Nat, SpawnRead(c, n)
  PROVE  ProcessIInv'
<1>1. PICK k, h, e, o, f, l :
        /\ k = call[c] /\ h = child[c] /\ e = errpipe[c]
        /\ o = k.offset + n /\ f = e - n /\ l = HasRead(k, o)
  OBVIOUS
<1>2. /\ k.pc = "reading" /\ n <= e /\ UNCHANGED <<uid, parent, child>>
  BY <1>1 DEF SpawnRead
<1>3. Spawned(c, k, h, e) /\ k \in CallType /\ e \in Nat /\ h \in ChildType
  <2>1. Spawned(c, k, h, e)
    BY <1>1, <1>2, TypesOf, WhichStory
  <2> QED BY <2>1 DEF Spawned
<1>4. k.got = {} /\ k.offset \in Nat
  BY <1>3 DEF Spawned, CallType
<1>5. o \in Nat /\ f \in Nat /\ o + f = k.offset + e
  BY <1>1, <1>2, <1>3, <1>4
<1>6. /\ l \in CallType /\ SameCall(k, l) /\ l.pc = "reading" /\ l.got = {} /\ l.offset = o
  BY <1>1, <1>2, <1>3, <1>4, <1>5, ReadFields
<1>7. call' = [call EXCEPT ![c] = l] /\ errpipe' = [errpipe EXCEPT ![c] = f]
  BY <1>1 DEF SpawnRead, HasRead, ProcessIInv
<1>8. child' = [child EXCEPT ![c] = h]
  BY <1>1, <1>2 DEF ProcessIInv
<1>9. Story(c, l, h, f)
  BY <1>2, <1>3, <1>5, <1>6, SpawnPaces
<1>10. Gets(l) = Gets(k)
  BY <1>2, <1>6 DEF Gets, SameCall
<1> QED BY <1>1, <1>2, <1>3, <1>5, <1>6, <1>7, <1>8, <1>9, <1>10, CallKeeps

LEMMA SpawnReadEndStep ==
  ASSUME ProcessIInv, NEW c \in Calls, SpawnReadEnd(c)
  PROVE  ProcessIInv'
<1>1. PICK k, h, e, l, m :
        /\ k = call[c] /\ h = child[c] /\ e = errpipe[c]
        /\ l = Paced(k, "waiting") /\ m = Ended(k, "ok", {})
  OBVIOUS
<1>2. /\ k.pc = "reading" /\ parent' = Closed(parent, {k.fds[1]})
      /\ UNCHANGED <<uid, child, errpipe>>
      /\ k.offset = IntSize \/ (e = 0 /\ ~Held(End(c, "errno", "write")))
  BY <1>1 DEF SpawnReadEnd
<1>3. Spawned(c, k, h, e) /\ k \in CallType /\ h \in ChildType /\ e \in Nat
  <2>1. Spawned(c, k, h, e)
    BY <1>1, <1>2, TypesOf, WhichStory
  <2> QED BY <2>1 DEF Spawned
<1>4. k.got = {} /\ k.offset \in Nat /\ k.fds[1] # k.fds[2]
  BY <1>3 DEF Spawned, CallType
<1>5. /\ l \in CallType /\ SameCall(k, l) /\ l.pc = "waiting" /\ l.got = {}
      /\ l.offset = k.offset
      /\ m \in CallType /\ SameCall(k, m) /\ m.pc = "done" /\ m.result = "ok" /\ m.got = {}
      /\ m.offset = k.offset
  <2>1. "ok" \in Results /\ {} \in SUBSET Fds
    BY DEF Results
  <2> QED BY <2>1, <1>1, <1>3, <1>4, PacedFields, EndedFields
<1>6. Gets(k) = {k.fds[1]} /\ Gets(l) = {} /\ Gets(m) = {}
  BY <1>2, <1>5 DEF Gets
<1>7. /\ {k.fds[1]} \subseteq Gets(k) /\ Gets(l) = Gets(k) \ {k.fds[1]}
      /\ Gets(m) = Gets(k) \ {k.fds[1]}
  BY <1>6
<1>8. CASE k.offset # 0
  <2>1. call' = [call EXCEPT ![c] = l]
    BY <1>1, <1>8 DEF SpawnReadEnd, Paced, ProcessIInv
  <2>2. Story(c, l, h, e)
    <3>1. l.offset + e = k.offset + e /\ k.pc # "done" /\ l.pc # "done"
      BY <1>2, <1>5
    <3> QED BY <3>1, <1>3, <1>5, SpawnPaces
  <2> QED BY <1>1, <1>2, <1>5, <1>7, <2>1, <2>2, CallCloses
<1>9. CASE k.offset = 0
  <2>1. call' = [call EXCEPT ![c] = m]
    BY <1>1, <1>9 DEF SpawnReadEnd, Finish, Ended, ProcessIInv
  <2>2. e = 0 /\ ~Held(End(c, "errno", "write"))
    BY <1>2, <1>9, ProcessAssumption
  <2>3. ASSUME k.fds[2] > 2 PROVE h.state \in {"running", "ended"}
    <3>1. h.state \notin BeforeExec \cup {"report"}
      <4> SUFFICES ASSUME h.state \in BeforeExec \cup {"report"} PROVE FALSE
        OBVIOUS
      <4>1. h.T[k.fds[2]].file = End(c, "errno", "write")
        BY <2>3, <1>3 DEF Spawned, SpawnErrno
      <4>2. k.fds[2] \in Fds /\ End(c, "errno", "write") # None
        BY <1>3, SpawnedTypes, EndIsPipe DEF Kinds
      <4>3. End(c, "errno", "write") \in Files(h.T)
        BY <4>1, <4>2 DEF Files
      <4>4. Alive(c)
        BY <1>1 DEF Alive, BeforeExec
      <4> QED BY <1>1, <2>2, <4>3, <4>4 DEF Held
    <3>2. h.state \notin {"dead", "spinning"}
      BY <1>3, <1>9, <2>2, <2>3, ProcessAssumption DEF Spawned, SpawnErrno
    <3>3. h.state \notin {"none", "reaped"} /\ h.state \in ChildStates
      BY <1>2, <1>3 DEF Spawned, SpawnErrno, ChildType
    <3> QED BY <3>1, <3>2, <3>3 DEF ChildStates
  <2>4. h.state # "none"
    BY <1>3 DEF Spawned
  <2>5. Story(c, m, h, e)
    BY <1>3, <1>5, <2>3, <2>4, SpawnAnswers
  <2> QED BY <1>1, <1>2, <1>5, <1>7, <2>1, <2>5, CallCloses
<1> QED BY <1>8, <1>9

LEMMA SpawnWaitStep == ASSUME ProcessIInv, NEW c \in Calls, SpawnWait(c) PROVE ProcessIInv'
<1>1. PICK k, h, e, g, l :
        /\ k = call[c] /\ h = child[c] /\ e = errpipe[c]
        /\ g = Went(h, "reaped", h.T) /\ l = Ended(k, h.errno, {})
  OBVIOUS
<1>2. k.pc = "waiting" /\ h.state = "dead" /\ UNCHANGED <<uid, parent, errpipe>>
  BY <1>1 DEF SpawnWait
<1>3. Spawned(c, k, h, e) /\ k \in CallType /\ h \in ChildType /\ e \in Nat /\ k.got = {}
  <2>1. Spawned(c, k, h, e)
    BY <1>1, <1>2, TypesOf, WhichStory
  <2> QED BY <2>1 DEF Spawned
<1>4. /\ h.T \in Table /\ h.errno \in Results /\ h.errno # "ok" /\ "reaped" \in ChildStates
  BY <1>3 DEF ChildType, ChildStates
<1>5. g \in ChildType /\ g.state = "reaped" /\ g.T = h.T /\ g.errno = h.errno
  BY <1>1, <1>3, <1>4, GoFields
<1>6. /\ l \in CallType /\ SameCall(k, l) /\ l.pc = "done" /\ l.result = h.errno /\ l.got = {}
      /\ l.offset = k.offset
  <2>1. {} \in SUBSET Fds
    OBVIOUS
  <2> QED BY <2>1, <1>1, <1>3, <1>4, EndedFields
<1>7. call' = [call EXCEPT ![c] = l]
  BY <1>1 DEF SpawnWait, Finish, Ended, ProcessIInv
<1>8. child' = [child EXCEPT ![c] = g]
  <2>1. child' = [child EXCEPT ![c].state = "reaped"]
    BY DEF SpawnWait
  <2>2. g = [h EXCEPT !.state = "reaped"]
    BY <1>1, <1>3 DEF Went, ChildType
  <2> QED BY <2>1, <2>2, <1>1 DEF ProcessIInv
<1>9. Story(c, l, g, e)
  <2>1. g.state # "none" /\ l.result # "ok" /\ l.result = g.errno
    BY <1>4, <1>5, <1>6
  <2> QED BY <2>1, <1>3, <1>5, <1>6, SpawnAnswers
<1>10. Gets(l) = Gets(k)
  BY <1>2, <1>6 DEF Gets
<1>11. errpipe' = [errpipe EXCEPT ![c] = e] /\ UNCHANGED <<uid, parent>>
  BY <1>1, <1>2 DEF ProcessIInv
<1> QED BY <1>1, <1>3, <1>5, <1>6, <1>7, <1>8, <1>9, <1>10, <1>11, CallKeeps

LEMMA CloseGotStep == ASSUME ProcessIInv, NEW c \in Calls, CloseGot(c) PROVE ProcessIInv'
<1>1. PICK k, h, e, l : /\ k = call[c] /\ h = child[c] /\ e = errpipe[c]
                        /\ l = [k EXCEPT !.got = {}]
  OBVIOUS
<1>2. /\ k.pc = "done" /\ k.got # {} /\ parent' = Closed(parent, k.got)
      /\ call' = [call EXCEPT ![c] = l] /\ UNCHANGED <<uid, child, errpipe>>
  <2>1. call' = [call EXCEPT ![c] = l]
    BY <1>1 DEF CloseGot, ProcessIInv
  <2> QED BY <1>1, <2>1 DEF CloseGot
<1>3. Created(c, k, h, e) /\ k \in CallType
  <2>1. Story(c, k, h, e) /\ k # NoCall
    BY <1>1, <1>2, TypesOf, NothingYet
  <2>2. Created(c, k, h, e)
    BY <1>2, <2>1 DEF Story, NotCalled, Forkless, Spawned
  <2> QED BY <2>2 DEF Created
<1>4. l \in CallType /\ SameCall(k, l) /\ l.pc = "done" /\ l.got = {}
  BY <1>1, <1>2, <1>3 DEF CallType, SameCall
<1>5. CreateFiles(c, l, h) /\ CreateErrno(l, h, e)
  <2>0. /\ l.fds = k.fds /\ l.files = k.files
        /\ Stands(h.T, k) => Stands(h.T, l)
        /\ Runs(h.T, k) => Runs(h.T, l)
    BY <1>4 DEF SameCall, Stands, Runs
  <2>1. CreateFiles(c, l, h)
    <3>1. CreateFiles(c, k, h)
      BY <1>3 DEF Created
    <3> QED BY <2>0, <3>1 DEF CreateFiles
  <2>2. CreateErrno(l, h, e)
    BY <1>3, <1>4 DEF Created, CreateErrno, SameCall
  <2> QED BY <2>1, <2>2
<1>6. Created(c, l, h, e)
  BY <1>3, <1>4, <1>5 DEF Created, SameCall
<1>7. Story(c, l, h, e)
  BY <1>6 DEF Story
<1>8. Gets(k) = k.got /\ Gets(l) = {}
  BY <1>2, <1>4 DEF Gets
<1>9. Gets(l) = Gets(k) \ k.got /\ k.got \subseteq Gets(k)
  BY <1>8
<1> QED BY <1>1, <1>2, <1>4, <1>7, <1>9, CallCloses
(* Six free descriptors are more than 0, 1 and 2.                          *)
LEMMA LowOnesAreTaken ==
  ASSUME NEW P, NEW L, FreeFrom(P, 0, 6, L), NEW d \in 0..2, \A i \in 1..6 : L[i] # d
  PROVE  P[d] # Free
<1>1. Room(P, 0, -1) = 0
  BY RoomType
<1>2. Room(P, 0, 0) <= 1
  BY <1>1, RoomStep
<1>3. Room(P, 0, 1) <= 2
  <2>1. Room(P, 0, 1) = Room(P, 0, 1 - 1) + IF P[1] = Free THEN 1 ELSE 0
    BY RoomStep
  <2>2. Room(P, 0, 1 - 1) = Room(P, 0, 0) /\ Room(P, 0, 0) \in Nat
    BY RoomType
  <2> QED BY <2>1, <2>2, <1>2
<1>4. Room(P, 0, d - 1) < 6
  <2>1. d - 1 = -1 \/ d - 1 = 0 \/ d - 1 = 1
    OBVIOUS
  <2>2. Room(P, 0, 0) \in Nat /\ Room(P, 0, 1) \in Nat
    BY RoomType
  <2> QED BY <2>1, <2>2, <1>1, <1>2, <1>3
<1>5. d \in 0..Limit - 1
  BY LimitFacts
<1> QED BY <1>4, <1>5 DEF FreeFrom

(* The three pipes of a create, and what is the parent's side of them.     *)
SixPipes(c, P, L, T) ==
  /\ P \in Table /\ T \in Table /\ L \in [1..6 -> Fds] /\ Apart(6, L)
  /\ \A i \in 1..6 : P[L[i]] = Free /\ T[L[i]].file \in EndsOf(c)
  /\ T[L[1]].file = End(c, "stdin", "read") /\ T[L[4]].file = End(c, "stdout", "write")
  /\ T[L[6]].file = End(c, "stderr", "write")
  /\ \A d \in Fds : (\A i \in 1..6 : L[i] # d) => T[d] = P[d]

LEMMA SixPipesOpen ==
  ASSUME NEW P \in Table, NEW c \in Calls, Room(P, 0, Limit - 1) >= 6,
         NEW L, L = Lowest(P, 0, 6), NEW T,
         T = Piped(P, [i \in 1..3 |-> <<c, PipeNames[i]>>], L)
  PROVE  SixPipes(c, P, L, T) /\ FreeFrom(P, 0, 6, L)
<1>1. PICK names : names = [i \in 1..3 |-> <<c, PipeNames[i]>>]
  OBVIOUS
<1>2. \A i \in 1..6 : \E n \in Kinds : names[(i + 1) \div 2] = <<c, n>>
  BY <1>1, CreateNames
<1>0. PICK U : U = Piped(P, names, L) /\ U = T
  BY <1>1
<1>3. /\ FreeFrom(P, 0, 6, L) /\ L \in [1..6 -> Fds] /\ Apart(6, L)
      /\ \A i \in 1..6 : P[L[i]] = Free
      /\ Holding(P, 6, L, Ends(names, 6), T)
  <2>1. 6 \in Nat
    OBVIOUS
  <2>2. Holding(P, 6, L, Ends(names, 6), Piped(P, names, L))
    BY <2>1, <1>2, PipesOpen
  <2>3. FreeFrom(P, 0, 6, L)
    BY <2>1, LowestFree
  <2>4. L \in [1..6 -> Fds] /\ Apart(6, L) /\ \A i \in 1..6 : P[L[i]] = Free
    BY <2>3 DEF FreeFrom
  <2> QED BY <2>2, <2>3, <2>4, <1>0
<1>4. /\ T \in Table /\ \A d \in Fds : (\A i \in 1..6 : L[i] # d) => T[d] = P[d]
      /\ \A i \in 1..6 : T[L[i]].file = Ends(names, 6)[i]
  BY <1>3 DEF Holding
<1>5. \A i \in 1..6 : Ends(names, 6)[i] \in EndsOf(c)
  BY <1>2, EndsArePipes
<1>6. /\ Ends(names, 6)[1] = End(c, "stdin", "read")
      /\ Ends(names, 6)[4] = End(c, "stdout", "write")
      /\ Ends(names, 6)[6] = End(c, "stderr", "write")
  <2>1. /\ Ends(names, 6)[1] = [pipe |-> names[1], end |-> "read"]
        /\ Ends(names, 6)[4] = [pipe |-> names[2], end |-> "write"]
        /\ Ends(names, 6)[6] = [pipe |-> names[3], end |-> "write"]
    <3>1. \A i \in 1..6 : Ends(names, 6)[i] = [pipe |-> names[(i + 1) \div 2],
                                              end  |-> IF i % 2 = 1 THEN "read" ELSE "write"]
      BY DEF Ends
    <3>2. /\ (1 + 1) \div 2 = 1 /\ 1 % 2 = 1 /\ (4 + 1) \div 2 = 2 /\ 4 % 2 = 0
          /\ (6 + 1) \div 2 = 3 /\ 6 % 2 = 0
      OBVIOUS
    <3> QED BY <3>1, <3>2
  <2>2. names[1] = <<c, "stdin">> /\ names[2] = <<c, "stdout">> /\ names[3] = <<c, "stderr">>
    BY <1>1 DEF PipeNames
  <2>3. Ends(names, 6)[1] = End(c, "stdin", "read")
    BY <2>1, <2>2 DEF End
  <2>4. Ends(names, 6)[4] = End(c, "stdout", "write")
    BY <2>1, <2>2 DEF End
  <2>5. Ends(names, 6)[6] = End(c, "stderr", "write")
    BY <2>1, <2>2 DEF End
  <2> QED BY <2>3, <2>4, <2>5
<1>7. /\ \A i \in 1..6 : P[L[i]] = Free /\ T[L[i]].file \in EndsOf(c)
      /\ T[L[1]].file = End(c, "stdin", "read") /\ T[L[4]].file = End(c, "stdout", "write")
      /\ T[L[6]].file = End(c, "stderr", "write")
  <2>1. \A i \in 1..6 : P[L[i]] = Free
    BY <1>3
  <2>2. \A i \in 1..6 : T[L[i]].file \in EndsOf(c)
    BY <1>4, <1>5
  <2>3. 1 \in 1..6 /\ 4 \in 1..6 /\ 6 \in 1..6
    OBVIOUS
  <2>4. /\ T[L[1]].file = Ends(names, 6)[1] /\ T[L[4]].file = Ends(names, 6)[4]
        /\ T[L[6]].file = Ends(names, 6)[6]
    BY <2>3, <1>4
  <2> QED BY <2>1, <2>2, <2>4, <1>6
<1>8. SixPipes(c, P, L, T)
  BY <1>3, <1>4, <1>7 DEF SixPipes
<1> QED BY <1>3, <1>8

LEMMA ParentSideAt ==
  ASSUME NEW c, NEW P, NEW L, NEW T, SixPipes(c, P, L, T), NEW R, R = ParentSide(T, L)
  PROVE  /\ R \in Table /\ Mine(L) \subseteq Fds
         /\ \A d \in Mine(L) : P[d] = Free /\ R[d].file \in EndsOf(c) /\ R[d].cloexec
         /\ \A d \in Fds \ Mine(L) : R[d] = P[d]
         /\ Closed(R, Mine(L)) = P
<1>1. /\ P \in Table /\ T \in Table /\ L \in [1..6 -> Fds] /\ Apart(6, L)
      /\ \A i \in 1..6 : P[L[i]] = Free /\ T[L[i]].file \in EndsOf(c)
      /\ \A d \in Fds : (\A i \in 1..6 : L[i] # d) => T[d] = P[d]
  BY DEF SixPipes
<1>2. PICK ds, M, U : ds = {L[1], L[4], L[6]} /\ M = Mine(L) /\ U = Closed(T, ds)
  OBVIOUS
<1>3. U \in Table /\ \A d \in Fds : U[d] = IF d \in ds THEN Free ELSE T[d]
  BY <1>1, <1>2, ClosedAt
<1>4. R = Cloexec(U, M)
  BY <1>2 DEF ParentSide
<1>5. /\ R \in Table
      /\ \A d \in Fds : /\ R[d].file = U[d].file
                        /\ d \in M => R[d].cloexec
                        /\ d \notin M => R[d] = U[d]
  BY <1>3, <1>4, CloexecAt
<1>6. M = {L[2], L[3], L[5]} /\ M \subseteq Fds
  BY <1>1, <1>2 DEF Mine
<1>7. M \cap ds = {}
  BY <1>1, <1>2, <1>6 DEF Apart
<1>8. \A d \in M : P[d] = Free /\ T[d].file \in EndsOf(c)
  BY <1>1, <1>6
<1>9. \A d \in M : P[d] = Free /\ R[d].file \in EndsOf(c) /\ R[d].cloexec
  BY <1>3, <1>5, <1>6, <1>7, <1>8
<1>10. ASSUME NEW d \in Fds, d \notin M PROVE R[d] = P[d]
  <2>1. CASE d \in ds
    <3>1. P[d] = Free
      BY <1>1, <1>2, <2>1
    <3> QED BY <3>1, <2>1, <1>3, <1>5, <1>10
  <2>2. CASE d \notin ds
    <3>1. \A i \in 1..6 : L[i] # d
      <4>1. \A i \in 1..6 : L[i] \in M \cup ds
        BY <1>2, <1>6
      <4> QED BY <4>1, <2>2, <1>10
    <3> QED BY <3>1, <2>2, <1>1, <1>3, <1>5, <1>10
  <2> QED BY <2>1, <2>2
<1>11. Closed(R, M) = P
  <2>1. PICK Q : Q = Closed(R, M)
    OBVIOUS
  <2>2. Q \in Table /\ \A d \in Fds : Q[d] = IF d \in M THEN Free ELSE R[d]
    BY <2>1, <1>5, ClosedAt
  <2>3. \A d \in Fds : Q[d] = P[d]
    BY <2>2, <1>8, <1>10
  <2> QED BY <2>1, <2>2, <2>3, <1>1 DEF Table
<1> QED BY <1>2, <1>5, <1>6, <1>9, <1>10, <1>11

LEMMA CreateStep ==
  ASSUME ProcessIInv, NEW c \in Calls, NEW q \in Requests,
         NEW forks \in BOOLEAN, Create(c, q, forks)
  PROVE  ProcessIInv'
<1>1. PICK P, L, T, R :
        /\ P = parent /\ L = Lowest(parent, 0, 6)
        /\ T = Piped(parent, [i \in 1..3 |-> <<c, PipeNames[i]>>], L) /\ R = ParentSide(T, L)
  OBVIOUS
<1>2. /\ call[c] = NoCall /\ q.kind = "create" /\ Room(P, 0, Limit - 1) >= 6
      /\ UNCHANGED <<uid, errpipe>>
  BY <1>1 DEF Create
<1>3. P \in Table /\ Clean(P)
  BY <1>1 DEF ProcessIInv, Tidy
<1>4. SixPipes(c, P, L, T) /\ FreeFrom(P, 0, 6, L)
  BY <1>1, <1>2, <1>3, SixPipesOpen
<1>5. /\ R \in Table /\ Mine(L) \subseteq Fds
      /\ \A d \in Mine(L) : P[d] = Free /\ R[d].file \in EndsOf(c) /\ R[d].cloexec
      /\ \A d \in Fds \ Mine(L) : R[d] = P[d]
      /\ Closed(R, Mine(L)) = P
  BY <1>1, <1>4, ParentSideAt
<1>6. CASE ~forks
  <2>1. /\ parent' = Closed(R, Mine(L)) /\ child' = child
        /\ call' = [call EXCEPT ![c] = Failed(c, q, "EAGAIN")]
    BY <1>1, <1>6 DEF Create
  <2>2. UNCHANGED parent
    BY <2>1, <1>1, <1>5
  <2>3. "EAGAIN" \in Results
    BY DEF Results
  <2> QED BY <1>2, <2>1, <2>2, <2>3, StartFails
<1>7. CASE forks
  <2>1. PICK a, k, h : a = Called(c, q, L) /\ k = Ended(a, "ok", Mine(L)) /\ h = Forked(T)
    OBVIOUS
  <2>2. /\ T \in Table /\ L \in [1..6 -> Fds] /\ Apart(6, L) /\ L \in Seq(Fds)
    <3>1. T \in Table /\ L \in [1..6 -> Fds] /\ Apart(6, L)
      BY <1>4 DEF SixPipes
    <3> QED BY <3>1, ListsAreSeqs
  <2>3. /\ a \in CallType /\ a.q = q /\ a.fds = L
        /\ a.files[1] = End(c, "stdin", "read") /\ a.files[2] = End(c, "stdout", "write")
        /\ a.files[3] = End(c, "stderr", "write")
    BY <1>1, <1>2, <1>3, <2>1, <2>2, CalledFields
  <2>4. k \in CallType /\ SameCall(a, k) /\ k.pc = "done" /\ k.got = Mine(L)
    <3>1. "ok" \in Results /\ Mine(L) \in SUBSET Fds
      BY <1>5 DEF Results
    <3> QED BY <3>1, <2>1, <2>3, EndedFields
  <2>5. /\ k.q = q /\ k.fds = L
        /\ k.files[1] = End(c, "stdin", "read") /\ k.files[2] = End(c, "stdout", "write")
        /\ k.files[3] = End(c, "stderr", "write")
    BY <2>3, <2>4 DEF SameCall
  <2>6. h \in ChildType /\ h.state = "dup" /\ h.T = T
    BY <2>1, <2>2, ForkedFields DEF ProcessIInv
  <2>7. /\ parent' = R /\ child' = [child EXCEPT ![c] = h]
        /\ call' = [call EXCEPT ![c] = k]
    BY <1>1, <1>7, <2>1 DEF Create, Ended
  <2>8. CreateFiles(c, k, h)
    <3>1. /\ T[L[1]].file = k.files[1] /\ T[L[4]].file = k.files[2]
          /\ T[L[6]].file = k.files[3]
      BY <1>4, <2>5 DEF SixPipes
    <3>2. \A i \in 1..6 : T[L[i]].file # None
      BY <1>4, FilesDiffer DEF SixPipes
    <3>3. ASSUME NEW d \in Fds, \A i \in 1..6 : L[i] # d PROVE T[d] = P[d]
      BY <1>4, <3>3 DEF SixPipes
    <3>4. ASSUME NEW d \in 0..2 PROVE T[d] # Free
      <4>0. d \in Fds
        BY LimitFacts
      <4>1. CASE \A i \in 1..6 : L[i] # d
        <5>1. P[d] # Free
          BY <4>1, <1>4, LowOnesAreTaken
        <5> QED BY <5>1, <4>0, <4>1, <3>3
      <4>2. CASE \E i \in 1..6 : L[i] = d
        BY <4>2, <3>2, FreeEntry
      <4> QED BY <4>1, <4>2
    <3>5. \A d \in Fds : d > 2 /\ (\A i \in 1..6 : L[i] # d) => T[d].file = None \/ T[d].cloexec
      BY <3>3, <1>3 DEF Clean
    <3>6. h.state \notin {"chdir", "exec", "running"}
      BY <2>6
    <3> QED BY <3>1, <3>2, <3>4, <3>5, <3>6, <2>5, <2>6 DEF CreateFiles
  <2>9. CreateErrno(k, h, 0)
    BY <2>6 DEF CreateErrno
  <2>10. Created(c, k, h, 0)
    BY <1>2, <2>2, <2>4, <2>5, <2>6, <2>8, <2>9 DEF Created, Apart
  <2>11. Story(c, k, h, 0)
    BY <2>10 DEF Story
  <2>12. Gets(k) = Mine(L)
    BY <2>4 DEF Gets
  <2>13. /\ Gets(k) \subseteq Fds
         /\ \A d \in Gets(k) : parent[d] = Free /\ R[d].file \in EndsOf(c) /\ R[d].cloexec
         /\ \A d \in Fds \ Gets(k) : R[d] = parent[d]
    BY <1>1, <1>5, <2>12
  <2>14. call[c] = NoCall /\ UNCHANGED <<uid, errpipe>> /\ R \in Table
    BY <1>2, <1>5
  <2> QED BY <2>4, <2>6, <2>7, <2>11, <2>13, <2>14, Forks
<1> QED BY <1>6, <1>7

-----------------------------------------------------------------------------
(* The invariant holds always.                                             *)
LEMMA InitProcessIInv == InitProcesses => ProcessIInv
<1> SUFFICES ASSUME InitProcesses PROVE ProcessIInv
  OBVIOUS
<1>1. PICK s \in ClosedStd, m \in OwnUpTo : parent = Own(s, m)
  BY DEF InitProcesses
<1>2. ASSUME NEW d \in Fds
      PROVE  parent[d] \in Entry /\ (parent[d] = Free \/ parent[d].file \in Standard)
             /\ (d > 2 => parent[d].file = None \/ parent[d].cloexec)
  <2>1. PICK x : x = [file |-> Std(d), cloexec |-> d > 2]
    OBVIOUS
  <2>2. parent[d] = Free \/ parent[d] = x
    BY <1>1, <2>1 DEF Own
  <2>3. Std(d) \in Standard /\ Std(d) \in AnyFile
    BY DEF Standard, AnyFile
  <2>4. x \in Entry
    <3>1. d \in Nat
      BY LimitFacts DEF Fds
    <3> QED BY <3>1, <2>1, <2>3 DEF Entry
  <2>5. x.file = Std(d)
    BY <2>1
  <2>6. d > 2 => x.cloexec
    BY <2>1, Zenon
  <2> QED BY <2>2, <2>3, <2>4, <2>5, <2>6, FreeEntry
<1>3. parent \in Table
  BY <1>1, <1>2 DEF Own, Table
<1>4. Tidy(parent)
  <2>1. \A d \in Fds : parent[d].file = None => parent[d] = Free
    BY <1>2, FilesDiffer
  <2>2. Clean(parent)
    BY <1>2 DEF Clean
  <2> QED BY <2>1, <2>2, <1>3 DEF Tidy
<1>5. \A d \in Fds : parent[d].file \notin Pipes
  BY <1>2, FilesDiffer, FreeEntry
<1>6. \A c \in Calls : call[c] = NoCall /\ child[c] = NoChild /\ errpipe[c] = 0
  BY DEF InitProcesses
<1>7. \A c \in Calls : Gets(call[c]) = {}
  BY <1>6, NothingYet DEF Gets
<1>8. Accounted(parent, call)
  BY <1>5, <1>7 DEF Accounted
<1>9. \A c \in Calls : Story(c, call[c], child[c], errpipe[c])
  BY <1>6 DEF Story, NotCalled
<1>10. /\ uid \in {0, 1} /\ call \in [Calls -> CallType \cup {NoCall}]
       /\ child \in [Calls -> ChildType] /\ errpipe \in [Calls -> Nat]
  BY NothingYet DEF InitProcesses
<1> QED BY <1>4, <1>8, <1>9, <1>10 DEF ProcessIInv

LEMMA NextProcessIInv == ProcessIInv /\ [NextProcesses]_processVars => ProcessIInv'
<1> SUFFICES ASSUME ProcessIInv, [NextProcesses]_processVars PROVE ProcessIInv'
  OBVIOUS
<1>1. CASE UNCHANGED processVars
  <2>1. uid' = uid /\ parent' = parent /\ call' = call /\ child' = child /\ errpipe' = errpipe
    BY <1>1 DEF processVars
  <2> QED BY <2>1 DEF ProcessIInv
<1>2. ASSUME NEW c \in Calls, NEW q \in Requests,
             \/ SpawnPipeFails(c, q) \/ CreatePipeFails(c, q)
             \/ \E forks \in BOOLEAN : Spawn(c, q, forks) \/ Create(c, q, forks)
      PROVE  ProcessIInv'
  BY <1>2, SpawnPipeFailsStep, CreatePipeFailsStep, SpawnStep, CreateStep
<1>3. IntSize \in Nat /\ \A n \in 1..IntSize : n \in Nat
  BY ProcessAssumption
<1>4. ASSUME NEW c \in Calls, SpawnTail(c) PROVE ProcessIInv'
  BY <1>3, <1>4, SpawnCloseStep, SpawnReadStep, SpawnReadEndStep, SpawnWaitStep DEF SpawnTail
<1>5. ASSUME NEW c \in Calls, ChildStep(c) PROVE ProcessIInv'
  <2>1. CASE \/ SpawnChildStd(c) \/ SpawnChildChdir(c) \/ SpawnChildSetuid(c)
             \/ SpawnChildSetgid(c)
    BY <2>1, SpawnChildStdStep, SpawnChildChdirStep, SpawnChildSetuidStep, SpawnChildSetgidStep
  <2>2. CASE CreateChildStd(c) \/ CreateChildChdir(c) \/ Exec(c) \/ CreateChildReport(c)
    BY <2>2, CreateChildStdStep, CreateChildChdirStep, ExecStep, CreateChildReportStep
  <2>3. CASE \E n \in 1..IntSize : SpawnChildReport(c, n)
    BY <2>3, <1>3, SpawnChildReportStep
  <2> QED BY <1>5, <2>1, <2>2, <2>3 DEF ChildStep
<1>6. ASSUME NEW c \in Calls, ProgramEnds(c) \/ CloseGot(c) PROVE ProcessIInv'
  BY <1>6, ProgramEndsStep, CloseGotStep
<1>7. CASE Settled
  BY <1>1, <1>7 DEF Settled
<1> QED BY <1>1, <1>2, <1>4, <1>5, <1>6, <1>7 DEF NextProcesses

LEMMA ProcessIInvHolds == ProcessesSpec => []ProcessIInv
BY InitProcessIInv, NextProcessIInv, PTL DEF ProcessesSpec

(* A program that runs has the files of its call as 0, 1 and 2, and no     *)
(* other: the stories of the two kinds of call say so.                     *)
THEOREM ProgramsOwnTheirFiles == ProcessesSpec => []ProgramsGetTheirFiles
<1>1. ProcessIInv => ProgramsGetTheirFiles
  <2> SUFFICES ASSUME ProcessIInv, NEW c \in Calls, child[c].state = "running", NEW d \in Fds
               PROVE  child[c].T[d].file = IF d \in 0..2 THEN call[c].files[d + 1] ELSE None
    BY DEF ProgramsGetTheirFiles
  <2>1. Runs(child[c].T, call[c])
    <3>1. child[c].state # "none"
      OBVIOUS
    <3>2. \/ Spawned(c, call[c], child[c], errpipe[c])
          \/ Created(c, call[c], child[c], errpipe[c])
      BY <3>1, TypesOf, WhichStory
    <3>3. CASE Spawned(c, call[c], child[c], errpipe[c])
      BY <3>3 DEF Spawned, SpawnFiles
    <3>4. CASE Created(c, call[c], child[c], errpipe[c])
      BY <3>4 DEF Created, CreateFiles
    <3> QED BY <3>2, <3>3, <3>4
  <2> QED BY <2>1 DEF Runs
<1> QED BY <1>1, ProcessIInvHolds, PTL

(* What fails in a child is told to its caller: as the result of a spawn,  *)
(* which waited for the child, or on the stderr pipe of a create.          *)
THEOREM ChildFailuresAreTold == ProcessesSpec => []FailuresAreTold
<1>1. ProcessIInv => FailuresAreTold
  <2> SUFFICES ASSUME ProcessIInv, NEW c \in Calls, call[c].pc = "done", child[c].state # "none"
      PROVE  IF call[c].q.kind = "create" THEN child[c].state = "dead" => errpipe[c] = 1
             ELSE /\ call[c].result = "ok" /\ call[c].fds[2] > 2 =>
                       child[c].state \in {"running", "ended"}
                  /\ call[c].result # "ok" =>
                       child[c].state = "reaped" /\ call[c].result = child[c].errno
    BY DEF FailuresAreTold
  <2>1. \/ Spawned(c, call[c], child[c], errpipe[c])
        \/ Created(c, call[c], child[c], errpipe[c])
    BY TypesOf, WhichStory
  <2>2. CASE Spawned(c, call[c], child[c], errpipe[c])
    BY <2>2 DEF Spawned, SpawnErrno
  <2>3. CASE Created(c, call[c], child[c], errpipe[c])
    BY <2>3 DEF Created, CreateErrno
  <2> QED BY <2>1, <2>2, <2>3
<1> QED BY <1>1, ProcessIInvHolds, PTL

(* Between calls the parent has its own files and what it gave to its      *)
(* clients: neither a success nor any failure leaves a descriptor open.    *)
THEOREM CallsLeaveNothing == ProcessesSpec => []NothingLeaks
<1>1. ProcessIInv => NothingLeaks
  <2> SUFFICES ASSUME ProcessIInv, \A c \in Calls : call[c].pc \in {"idle", "done"}
      PROVE  {d \in Fds : parent[d] # Free /\ parent[d].file \notin {Std(i) : i \in Fds}}
               = UNION {call[c].got : c \in {k \in Calls : call[k].pc = "done"}}
    BY DEF NothingLeaks
  <2>1. Tidy(parent) /\ Accounted(parent, call)
    BY DEF ProcessIInv
  <2>2. \A c \in Calls : Gets(call[c]) = IF call[c].pc = "done" THEN call[c].got ELSE {}
    BY DEF Gets
  <2>3. ASSUME NEW d \in Fds, parent[d] # Free, parent[d].file \notin {Std(i) : i \in Fds}
        PROVE  \E c \in Calls : call[c].pc = "done" /\ d \in call[c].got
    <3>1. parent[d].file \in Pipes
      <4>1. parent[d].file \in AnyFile /\ parent[d].file # None
        BY <2>1, <2>3, EntryFields DEF Tidy
      <4> QED BY <4>1, <2>3 DEF AnyFile, Standard
    <3>2. PICK c \in Calls : d \in Gets(call[c])
      BY <2>1, <3>1 DEF Accounted
    <3> QED BY <2>2, <3>2
  <2>4. ASSUME NEW c \in Calls, call[c].pc = "done", NEW d \in call[c].got
        PROVE  /\ d \in Fds /\ parent[d] # Free
               /\ parent[d].file \notin {Std(i) : i \in Fds}
    <3>1. d \in Fds /\ parent[d].file \in EndsOf(c)
      BY <2>1, <2>2, <2>4 DEF Accounted
    <3>2. parent[d].file # None /\ parent[d].file \notin Standard
      BY <3>1, FilesDiffer
    <3> QED BY <3>1, <3>2, FreeEntry DEF Standard
  <2> QED BY <2>3, <2>4
<1> QED BY <1>1, ProcessIInvHolds, PTL
=============================================================================
