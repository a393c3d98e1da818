----------------------------- MODULE PipeProofs -----------------------------
(***************************************************************************)
(* Theorems about Pipe, for every value of its constants.                  *)
(***************************************************************************)
EXTENDS Pipe, SelectionProofs, SequenceTheorems, FiniteSetTheorems, TLAPS

DeferredType ==
  [call : {"none", "read", "flushed", "pushback", "with_write"},
   answer : {"none", "pending", "Ok", "Eof", "Reader_closed"},
   values : Seq(Nat), mark : Nat]

(* Taking k values off the front of a sequence.                            *)
LEMMA Split ==
  ASSUME NEW S, NEW s \in Seq(S), NEW k \in 0..Len(s)
  PROVE  /\ SubSeq(s, 1, k) \in Seq(S) /\ Len(SubSeq(s, 1, k)) = k
         /\ \A i \in 1..k : SubSeq(s, 1, k)[i] = s[i]
         /\ SubSeq(s, k + 1, Len(s)) \in Seq(S)
         /\ Len(SubSeq(s, k + 1, Len(s))) = Len(s) - k
         /\ \A i \in 1..(Len(s) - k) : SubSeq(s, k + 1, Len(s))[i] = s[k + i]
  BY SubSeqProperties, LenProperties

LEMMA DeferredTyped ==
  ASSUME NEW a \in {"none", "read", "flushed", "pushback", "with_write"},
         NEW b \in {"none", "pending", "Ok", "Eof", "Reader_closed"},
         NEW v \in Seq(Nat), NEW m \in Nat
  PROVE  Deferred(a, b, v, m) \in DeferredType
  BY DEF Deferred, DeferredType

LEMMA PushbackTyped ==
  ASSUME TypeOK, UpdatePushback
  PROVE  pushback' \in Nat \ {0} /\ filled' \subseteq Nat
<1>1. pushback \in Nat \ {0} /\ filled \subseteq Nat
  BY DEF TypeOK
<1> QED BY <1>1 DEF UpdatePushback

(* What the loop of reads leaves behind has its type.                      *)
LEMMA ConsumeTyped ==
  ASSUME TypeOK, NEW buf \in Seq(Nat),
         NEW reads \in Seq([wants : Wants, client : Clients]),
         NEW d \in [Clients -> DeferredType],
         Consume(reads, buf, d)
  PROVE  /\ buffer' \in Seq(Nat) /\ delivered' \in Seq(Nat)
         /\ size_budget' \in Nat /\ num_values_read' \in Nat
         /\ pushback' \in Nat \ {0} /\ filled' \subseteq Nat
         /\ blocked_flushes' \in Seq([fill_when_num_values_read : Nat, client : Clients])
         /\ blocked_reads' \in Seq([wants : Wants, client : Clients])
         /\ closed' \in BOOLEAN /\ read_closed' \in BOOLEAN
         /\ deferred' \in [Clients -> DeferredType]
<1>1. PICK cut \in Cuts(reads, Len(buf)) :
        \E k \in Served(reads, Len(buf), cut) :
          \E f \in FlushesDue(num_values_read + cut[k]) :
            ConsumeUpTo(reads, buf, d, cut, k, f)
  BY DEF Consume
<1>a. PICK k \in Served(reads, Len(buf), cut) :
        \E f \in FlushesDue(num_values_read + cut[k]) :
          ConsumeUpTo(reads, buf, d, cut, k, f)
  BY <1>1
<1>2. PICK f \in FlushesDue(num_values_read + cut[k]) :
        ConsumeUpTo(reads, buf, d, cut, k, f)
  BY <1>a
<1>3. /\ Len(buf) \in Nat /\ Len(reads) \in Nat /\ Len(blocked_flushes) \in Nat
      /\ k \in 0..Len(reads) /\ f \in 0..Len(blocked_flushes)
      /\ cut \in [0..Len(reads) -> 0..Len(buf)] /\ cut[k] \in 0..Len(buf)
  BY LenProperties DEF Cuts, Served, FlushesDue, TypeOK
<1>4. /\ buffer' \in Seq(Nat) /\ delivered' \in Seq(Nat) /\ num_values_read' \in Nat
  <2>1. buffer' \in Seq(Nat)
    BY <1>2, <1>3, Split DEF ConsumeUpTo
  <2>2. delivered' \in Seq(Nat)
    BY <1>2, <1>3, Split, ConcatProperties DEF ConsumeUpTo, TypeOK
  <2>3. num_values_read' \in Nat
    <3>1. num_values_read' = num_values_read + cut[k]
      BY <1>2 DEF ConsumeUpTo
    <3>2. num_values_read \in Nat
      BY DEF TypeOK
    <3> QED BY <3>1, <3>2, <1>3
  <2> QED BY <2>1, <2>2, <2>3
<1>5. blocked_reads' \in Seq([wants : Wants, client : Clients])
  BY <1>2, <1>3, Split DEF ConsumeUpTo
<1>6. blocked_flushes' \in Seq([fill_when_num_values_read : Nat, client : Clients])
  BY <1>2, <1>3, Split DEF ConsumeUpTo, TypeOK
<1>7. /\ size_budget' \in Nat /\ closed' \in BOOLEAN /\ read_closed' \in BOOLEAN
  BY <1>2 DEF ConsumeUpTo, TypeOK
<1>8. pushback' \in Nat \ {0} /\ filled' \subseteq Nat
  BY <1>2, PushbackTyped DEF ConsumeUpTo
<1>9. deferred' \in [Clients -> DeferredType]
  <2>1. \A i \in 1..k : Share(buf, cut, i) \in Seq(Nat)
    <3>1. SUFFICES ASSUME NEW i \in 1..k
                   PROVE  SubSeq(buf, cut[i-1] + 1, cut[i]) \in Seq(Nat)
      BY DEF Share
    <3>2. i \in 0..Len(reads) /\ i - 1 \in 0..Len(reads)
      BY <1>3
    <3>3. cut[i] \in 0..Len(buf) /\ cut[i-1] \in 0..Len(buf)
      BY <3>2, <1>3
    <3>4. PICK a \in 0..Len(buf), b \in 0..Len(buf) : a = cut[i-1] /\ b = cut[i]
      BY <3>3
    <3>5. \A j \in (a + 1)..b : j \in 1..Len(buf)
      BY <1>3
    <3>6. \A j \in (a + 1)..b : buf[j] \in Nat
      BY <3>5, ElementOfSeq
    <3>7. a + 1 \in Int /\ b \in Int
      BY <1>3
    <3>8. SubSeq(buf, a + 1, b) \in Seq(Nat)
      BY <3>6, <3>7, SubSeqProperties
    <3> QED BY <3>4, <3>8
  <2>2. \A c \in Clients : \A v \in Seq(Nat) :
          /\ [d[c] EXCEPT !.answer = "Ok", !.values = v] \in DeferredType
          /\ [d[c] EXCEPT !.answer = "Ok"] \in DeferredType
    BY DEF DeferredType
  <2>3. ASSUME NEW c \in Clients PROVE deferred'[c] \in DeferredType
    <3>1. CASE \E i \in 1..k : reads[i].client = c
      BY <3>1, <1>2, <2>1, <2>2 DEF ConsumeUpTo
    <3>2. CASE ~\E i \in 1..k : reads[i].client = c
      BY <3>2, <1>2, <2>2 DEF ConsumeUpTo
    <3> QED BY <3>1, <3>2
  <2> QED BY <2>3, <1>2 DEF ConsumeUpTo
<1> QED BY <1>4, <1>5, <1>6, <1>7, <1>8, <1>9
-----------------------------------------------------------------------------
(* The invariant and what it needs to be inductive: ivars are numbered in  *)
(* order, closing the read end closes the pipe, and no flush waits for     *)
(* more values than have been written.                                     *)
Reachable(q, m) ==
  \A i \in 1..Len(q) : q[i].fill_when_num_values_read <= m
Strengthening ==
  /\ filled \subseteq 1..pushback
  /\ read_closed => closed
  /\ Reachable(blocked_flushes, num_values_read + Length)
IInv == TypeOK /\ PipeInvariant /\ FifoDelivery /\ Strengthening

FlushType == [fill_when_num_values_read : Nat, client : Clients]

(* update_pushback establishes its own invariant, whatever was there.      *)
LEMMA PushbackRestored ==
  ASSUME TypeOK, filled \subseteq 1..pushback, UpdatePushback
  PROVE  PushbackExact' /\ filled' \subseteq 1..pushback'
<1>1. pushback \in Nat \ {0}
  BY DEF TypeOK
<1>2. PushbackExact' <=> (pushback' \in filled' <=> HasSpace)
  BY DEF PushbackExact, HasSpace, Length
<1>3. CASE HasSpace
  BY <1>1, <1>2, <1>3 DEF UpdatePushback, NewPushback
<1>4. CASE ~HasSpace /\ pushback \in filled
  BY <1>1, <1>2, <1>4 DEF UpdatePushback, NewPushback
<1>5. CASE ~HasSpace /\ pushback \notin filled
  BY <1>1, <1>2, <1>5 DEF UpdatePushback, NewPushback
<1> QED BY <1>3, <1>4, <1>5

(* Moving the oldest n values from the buffer to the readers keeps order.  *)
LEMMA MoveInOrder ==
  ASSUME NEW out \in Seq(Nat), NEW buf \in Seq(Nat), NEW n \in 0..Len(buf),
         InOrder(out, buf)
  PROVE  /\ InOrder(out \o SubSeq(buf, 1, n), SubSeq(buf, n + 1, Len(buf)))
         /\ Len(out \o SubSeq(buf, 1, n)) = Len(out) + n
         /\ Len(SubSeq(buf, n + 1, Len(buf))) = Len(buf) - n
<1> DEFINE out2 == out \o SubSeq(buf, 1, n)
           buf2 == SubSeq(buf, n + 1, Len(buf))
<1>1. Len(out) \in Nat /\ Len(buf) \in Nat /\ n \in Nat
  BY LenProperties
<1>2. /\ SubSeq(buf, 1, n) \in Seq(Nat) /\ Len(SubSeq(buf, 1, n)) = n
      /\ \A i \in 1..n : SubSeq(buf, 1, n)[i] = buf[i]
      /\ Len(buf2) = Len(buf) - n
      /\ \A i \in 1..(Len(buf) - n) : buf2[i] = buf[n + i]
  BY Split
<1>3. /\ Len(out2) = Len(out) + n
      /\ \A i \in 1..(Len(out) + n) : out2[i] =
           IF i <= Len(out) THEN out[i] ELSE SubSeq(buf, 1, n)[i - Len(out)]
  BY <1>2, ConcatProperties
<1> HIDE DEF out2, buf2
<1>4. ASSUME NEW i \in 1..Len(out2) PROVE out2[i] = i
  <2>1. CASE i <= Len(out)
    BY <2>1, <1>1, <1>3 DEF InOrder
  <2>2. CASE ~(i <= Len(out))
    <3>1. i - Len(out) \in 1..n /\ i - Len(out) \in 1..Len(buf)
      BY <2>2, <1>1, <1>3
    <3>2. out2[i] = buf[i - Len(out)]
      BY <2>2, <3>1, <1>1, <1>2, <1>3
    <3>3. buf[i - Len(out)] = Len(out) + (i - Len(out))
      BY <3>1 DEF InOrder
    <3> QED BY <3>2, <3>3, <1>1, <1>3
  <2> QED BY <2>1, <2>2
<1>5. ASSUME NEW i \in 1..Len(buf2) PROVE buf2[i] = Len(out2) + i
  <2>1. n + i \in 1..Len(buf) /\ buf2[i] = buf[n + i]
    BY <1>1, <1>2
  <2>2. buf[n + i] = Len(out) + (n + i)
    BY <2>1 DEF InOrder
  <2>3. buf2[i] = (Len(out) + n) + i
    <3>1. i \in Nat
      BY <1>1, <1>2
    <3> QED BY <3>1, <2>1, <2>2, <1>1
  <2> QED BY <2>3, <1>3
<1>6. InOrder(out2, buf2)
  BY <1>4, <1>5 DEF InOrder
<1> QED BY <1>2, <1>3, <1>6 DEF out2, buf2

(* What is left when the flushes that are due leave the front of the queue.*)
LEMMA FlushesLeft ==
  ASSUME NEW q \in Seq(FlushType), NEW m \in Nat, NEW top \in Nat,
         NEW f \in 0..Len(q),
         f < Len(q) => q[f + 1].fill_when_num_values_read > m,
         Sorted(q), Reachable(q, top)
  PROVE  LET r == SubSeq(q, f + 1, Len(q))
         IN  /\ r \in Seq(FlushType) /\ AllAhead(r, m) /\ Sorted(r) /\ Reachable(r, top)
             /\ m = top => r = << >>
<1> DEFINE r == SubSeq(q, f + 1, Len(q))
<1>1. /\ r \in Seq(FlushType) /\ Len(r) = Len(q) - f /\ Len(q) \in Nat /\ f \in Nat
      /\ \A i \in 1..(Len(q) - f) : r[i] = q[f + i]
  BY Split, LenProperties
<1> HIDE DEF r
<1>2. \A i \in 1..Len(q) : q[i].fill_when_num_values_read \in Nat
  <2>1. \A i \in 1..Len(q) : q[i] \in FlushType
    BY ElementOfSeq
  <2> QED BY <2>1 DEF FlushType
<1>3. ASSUME NEW i \in 1..Len(r) PROVE r[i].fill_when_num_values_read > m
  <2>0. i \in Nat /\ i >= 1 /\ i <= Len(q) - f
    BY <1>1
  <2>1. f < Len(q) /\ f + 1 \in 1..Len(q) /\ f + i \in 1..Len(q) /\ r[i] = q[f + i]
    BY <2>0, <1>1
  <2>2. q[f + 1].fill_when_num_values_read > m
    BY <2>1
  <2>3. q[f + 1].fill_when_num_values_read <= q[f + i].fill_when_num_values_read
    <3>1. CASE i = 1
      BY <3>1, <2>1, <1>2
    <3>2. CASE i # 1
      <4>1. f + 1 < f + i
        BY <3>2, <1>1
      <4> QED BY <4>1, <2>1 DEF Sorted
    <3> QED BY <3>1, <3>2
  <2>4. PICK h \in Nat : h = q[f + 1].fill_when_num_values_read
    BY <2>1, <1>2
  <2>5. PICK k \in Nat : k = q[f + i].fill_when_num_values_read
    BY <2>1, <1>2
  <2>6. h > m /\ h <= k
    BY <2>2, <2>3, <2>4, <2>5
  <2>7. k > m
    BY <2>6
  <2> QED BY <2>1, <2>5, <2>7
<1>4. ASSUME NEW i \in 1..Len(r), NEW j \in 1..Len(r), i < j
      PROVE  r[i].fill_when_num_values_read <= r[j].fill_when_num_values_read
  <2>1. /\ f + i \in 1..Len(q) /\ f + j \in 1..Len(q) /\ f + i < f + j
        /\ r[i] = q[f + i] /\ r[j] = q[f + j]
    BY <1>1, <1>4
  <2> QED BY <2>1 DEF Sorted
<1>5. ASSUME NEW i \in 1..Len(r) PROVE r[i].fill_when_num_values_read <= top
  <2>1. f + i \in 1..Len(q) /\ r[i] = q[f + i]
    BY <1>1
  <2> QED BY <2>1 DEF Reachable
<1>6. ASSUME m = top, r # << >> PROVE FALSE
  <2>1. 1 \in 1..Len(r)
    BY <1>1, <1>6, EmptySeq
  <2>2. r[1].fill_when_num_values_read \in Nat
    <3>1. r[1] = q[f + 1] /\ f + 1 \in 1..Len(q)
      BY <2>1, <1>1
    <3> QED BY <3>1, <1>2
  <2> QED BY <2>1, <2>2, <1>3, <1>5, <1>6
<1>7. AllAhead(r, m) /\ Sorted(r) /\ Reachable(r, top)
  BY <1>3, <1>4, <1>5 DEF AllAhead, Sorted, Reachable
<1> QED BY <1>1, <1>6, <1>7 DEF r

(* What an operation may assume before it hands out the values of buf.     *)
ReadyToConsume(buf) ==
  /\ TypeOK /\ Sorted(blocked_flushes) /\ filled \subseteq 1..pushback
  /\ InOrder(delivered, buf) /\ num_values_read = Len(delivered)
  /\ Reachable(blocked_flushes, num_values_read + Len(buf))

(* Handing them out keeps the order, the flushes ahead of the reads, and   *)
(* leaves reads waiting only on an empty buffer.                           *)
LEMMA ConsumeInvariant ==
  ASSUME NEW buf \in Seq(Nat), ReadyToConsume(buf),
         NEW reads \in Seq([wants : Wants, client : Clients]),
         NEW d \in [Clients -> DeferredType],
         Consume(reads, buf, d)
  PROVE  /\ PushbackExact' /\ FlushesAhead'
         /\ filled' \subseteq 1..pushback'
         /\ Reachable(blocked_flushes, num_values_read + Length)'
         /\ blocked_reads' # << >> => buffer' = << >>
         /\ InOrder(delivered', buffer')
         /\ num_values_read' = Len(delivered')
         /\ Len(delivered') + Len(buffer') = Len(delivered) + Len(buf)
         /\ closed' = closed /\ read_closed' = read_closed
<1>1. PICK cut \in Cuts(reads, Len(buf)) :
        \E k \in Served(reads, Len(buf), cut) :
          \E f \in FlushesDue(num_values_read + cut[k]) :
            ConsumeUpTo(reads, buf, d, cut, k, f)
  BY DEF Consume
<1>2. PICK k \in Served(reads, Len(buf), cut) :
        \E f \in FlushesDue(num_values_read + cut[k]) :
          ConsumeUpTo(reads, buf, d, cut, k, f)
  BY <1>1
<1>3. PICK f \in FlushesDue(num_values_read + cut[k]) :
        ConsumeUpTo(reads, buf, d, cut, k, f)
  BY <1>2
<1>4. PICK n \in 0..Len(buf) : n = cut[k]
  BY LenProperties DEF Cuts, Served
<1>5. /\ buffer' = SubSeq(buf, n + 1, Len(buf))
      /\ num_values_read' = num_values_read + n
      /\ delivered' = delivered \o SubSeq(buf, 1, n)
      /\ blocked_reads' = SubSeq(reads, k + 1, Len(reads))
      /\ blocked_flushes' = SubSeq(blocked_flushes, f + 1, Len(blocked_flushes))
      /\ closed' = closed /\ read_closed' = read_closed
      /\ UpdatePushback
  BY <1>3, <1>4 DEF ConsumeUpTo
<1>6. PushbackExact' /\ filled' \subseteq 1..pushback'
  BY <1>5, PushbackRestored DEF ReadyToConsume
<1>7. /\ delivered \in Seq(Nat) /\ Len(delivered) \in Nat /\ Len(buf) \in Nat
      /\ blocked_flushes \in Seq(FlushType) /\ num_values_read = Len(delivered)
      /\ k \in 0..Len(reads) /\ Len(reads) \in Nat
  BY LenProperties DEF ReadyToConsume, TypeOK, FlushType, Served
<1>8. /\ InOrder(delivered', buffer') /\ Len(delivered') = Len(delivered) + n
      /\ Len(buffer') = Len(buf) - n
  <2>1. /\ InOrder(delivered \o SubSeq(buf, 1, n), SubSeq(buf, n + 1, Len(buf)))
        /\ Len(delivered \o SubSeq(buf, 1, n)) = Len(delivered) + n
        /\ Len(SubSeq(buf, n + 1, Len(buf))) = Len(buf) - n
    BY <1>7, MoveInOrder DEF ReadyToConsume
  <2> QED BY <2>1, <1>5
<1>9. num_values_read' = Len(delivered')
      /\ Len(delivered') + Len(buffer') = Len(delivered) + Len(buf)
      /\ num_values_read' + Len(buffer') = num_values_read + Len(buf)
      /\ num_values_read' \in Nat /\ num_values_read + Len(buf) \in Nat
  <2>1. n \in Nat /\ n <= Len(buf)
    BY <1>7
  <2>2. num_values_read' = Len(delivered) + n
    BY <1>5, <1>7
  <2> QED BY <2>1, <2>2, <1>7, <1>8
<1>10. blocked_reads' # << >> => buffer' = << >>
  <2>1. k = Len(reads) \/ n = Len(buf)
    BY <1>4 DEF Served
  <2>2. CASE k = Len(reads)
    BY <2>2, <1>5, <1>7, SubSeqEmpty
  <2>3. CASE n = Len(buf)
    BY <2>3, <1>5, <1>7, SubSeqEmpty
  <2> QED BY <2>1, <2>2, <2>3
<1>11. /\ f \in 0..Len(blocked_flushes)
       /\ f < Len(blocked_flushes) =>
            blocked_flushes[f + 1].fill_when_num_values_read > num_values_read'
  BY <1>4, <1>5 DEF FlushesDue
<1>12. /\ AllAhead(blocked_flushes', num_values_read') /\ Sorted(blocked_flushes')
       /\ Reachable(blocked_flushes', num_values_read + Len(buf))
       /\ num_values_read' = num_values_read + Len(buf) => blocked_flushes' = << >>
  <2>1. /\ Sorted(blocked_flushes)
        /\ Reachable(blocked_flushes, num_values_read + Len(buf))
    BY DEF ReadyToConsume
  <2> DEFINE left == SubSeq(blocked_flushes, f + 1, Len(blocked_flushes))
  <2>2. /\ AllAhead(left, num_values_read') /\ Sorted(left)
        /\ Reachable(left, num_values_read + Len(buf))
        /\ num_values_read' = num_values_read + Len(buf) => left = << >>
    BY <2>1, <1>7, <1>9, <1>11, FlushesLeft
  <2> QED BY <2>2, <1>5
<1>13. buffer' = << >> => num_values_read' = num_values_read + Len(buf)
  BY <1>9
<1>14. FlushesAhead'
  BY <1>12, <1>13 DEF FlushesAhead, IsEmpty, AllAhead, Sorted
<1>15. Reachable(blocked_flushes, num_values_read + Length)'
  BY <1>9, <1>12 DEF Reachable, Length
<1> QED BY <1>5, <1>6, <1>8, <1>9, <1>10, <1>14, <1>15
-----------------------------------------------------------------------------
LEMMA InitInvariant == Init => IInv
<1> SUFFICES ASSUME Init PROVE IInv
  OBVIOUS
<1>1. TypeOK
  <2>1. NoDeferred \in DeferredType
    BY EmptySeq, DeferredTyped DEF NoDeferred
  <2>2. deferred \in [Clients -> DeferredType]
    BY <2>1 DEF Init
  <2>3. /\ buffer \in Seq(Nat) /\ delivered \in Seq(Nat)
        /\ blocked_flushes \in Seq([fill_when_num_values_read : Nat, client : Clients])
        /\ blocked_reads \in Seq([wants : Wants, client : Clients])
    BY EmptySeq DEF Init
  <2>4. size_budget \in Nat /\ num_values_read \in Nat /\ written \in Nat
    BY DEF Init
  <2>5. pushback \in Nat \ {0} /\ filled \subseteq Nat
    BY DEF Init
  <2>6. closed \in BOOLEAN /\ read_closed \in BOOLEAN
    BY DEF Init
  <2> QED BY <2>2, <2>3, <2>4, <2>5, <2>6 DEF TypeOK, DeferredType
<1>2. PipeInvariant
  BY DEF Init, PipeInvariant, PushbackExact, FlushesAhead, ReadsMeetValues,
         AllAhead, Sorted, Length, IsEmpty
<1>3. FifoDelivery
  BY DEF Init, FifoDelivery, InOrder, Length
<1>4. Strengthening
  BY DEF Init, Strengthening, Reachable, Length
<1> QED BY <1>1, <1>2, <1>3, <1>4 DEF IInv

(* The n values that a write adds continue those that are there.           *)
LEMMA EnqueuedReady ==
  ASSUME IInv, NEW n \in Nat, n > 0 => ~closed
  PROVE  /\ Enqueued(n) \in Seq(Nat) /\ Len(Enqueued(n)) = Len(buffer) + n
         /\ ReadyToConsume(Enqueued(n))
<1> DEFINE new == [i \in 1..n |-> written + i]
<1>1. /\ buffer \in Seq(Nat) /\ delivered \in Seq(Nat) /\ written \in Nat
      /\ Len(buffer) \in Nat /\ Len(delivered) \in Nat
      /\ blocked_flushes \in Seq(FlushType)
  BY LenProperties DEF IInv, TypeOK, FlushType
<1>2. new \in Seq(Nat) /\ Len(new) = n /\ \A i \in 1..n : new[i] = written + i
  BY <1>1
<1>3. /\ Enqueued(n) \in Seq(Nat) /\ Len(Enqueued(n)) = Len(buffer) + n
      /\ \A i \in 1..(Len(buffer) + n) : Enqueued(n)[i] =
           IF i <= Len(buffer) THEN buffer[i] ELSE new[i - Len(buffer)]
  BY <1>1, <1>2, ConcatProperties DEF Enqueued
<1>4. n > 0 => written = Len(delivered) + Len(buffer)
  BY DEF IInv, FifoDelivery, Strengthening, Length
<1>5. InOrder(delivered, Enqueued(n))
  <2>1. ASSUME NEW i \in 1..Len(Enqueued(n)) PROVE Enqueued(n)[i] = Len(delivered) + i
    <3>1. CASE i <= Len(buffer)
      <4>1. InOrder(delivered, buffer)
        BY DEF IInv, FifoDelivery
      <4>2. i \in 1..Len(buffer) /\ Enqueued(n)[i] = buffer[i]
        <5>1. i \in Nat /\ i >= 1 /\ i \in 1..(Len(buffer) + n)
          BY <1>1, <1>3
        <5>2. i \in 1..Len(buffer)
          BY <3>1, <5>1, <1>1
        <5> QED BY <5>1, <5>2, <3>1, <1>3
      <4> QED BY <4>1, <4>2 DEF InOrder
    <3>2. CASE ~(i <= Len(buffer))
      <4>1. i \in Nat /\ n > 0 /\ i - Len(buffer) \in 1..n
        BY <3>2, <1>1, <1>3
      <4>2. Enqueued(n)[i] = written + (i - Len(buffer))
        BY <3>2, <4>1, <1>2, <1>3
      <4>3. written = Len(delivered) + Len(buffer)
        BY <4>1, <1>4
      <4>4. written + (i - Len(buffer)) = Len(delivered) + i
        BY <4>1, <4>3, <1>1
      <4> QED BY <4>2, <4>4
    <3> QED BY <3>1, <3>2
  <2> QED BY <2>1 DEF IInv, FifoDelivery, InOrder
<1>6. Reachable(blocked_flushes, num_values_read + Len(Enqueued(n)))
  <2>1. num_values_read = Len(delivered) /\ Reachable(blocked_flushes, num_values_read + Len(buffer))
    BY DEF IInv, FifoDelivery, Strengthening, Length
  <2>2. \A i \in 1..Len(blocked_flushes) : blocked_flushes[i].fill_when_num_values_read \in Nat
    <3>1. \A i \in 1..Len(blocked_flushes) : blocked_flushes[i] \in FlushType
      BY <1>1, ElementOfSeq
    <3> QED BY <3>1 DEF FlushType
  <2>3. \A x \in Nat : x <= Len(delivered) + Len(buffer) => x <= Len(delivered) + (Len(buffer) + n)
    BY <1>1
  <2> QED BY <2>1, <2>2, <2>3, <1>1, <1>3 DEF Reachable
<1>7. ReadyToConsume(Enqueued(n))
  BY <1>5, <1>6 DEF ReadyToConsume, IInv, PipeInvariant, FlushesAhead, FifoDelivery, Strengthening
<1> QED BY <1>3, <1>7

(* An operation that hands out values keeps the invariant: n values are    *)
(* added first (none, for a read), and reads wait only on an empty pipe.   *)
LEMMA ConsumeStep ==
  ASSUME IInv, NEW n \in Nat, n > 0 => ~closed,
         NEW reads \in Seq([wants : Wants, client : Clients]),
         NEW d \in [Clients -> DeferredType],
         Consume(reads, Enqueued(n), d), written' = written + n,
         blocked_reads' # << >> => ~closed
  PROVE  IInv'
<1>1. /\ written \in Nat /\ Len(buffer) \in Nat /\ Len(delivered) \in Nat
      /\ n > 0 => written = Len(delivered) + Len(buffer)
  BY LenProperties DEF IInv, TypeOK, FifoDelivery, Strengthening, Length
<1>3. Enqueued(n) \in Seq(Nat) /\ Len(Enqueued(n)) = Len(buffer) + n
  BY EnqueuedReady
<1>7. ReadyToConsume(Enqueued(n))
  BY EnqueuedReady
<1>8. /\ PushbackExact' /\ FlushesAhead'
      /\ filled' \subseteq 1..pushback'
      /\ Reachable(blocked_flushes, num_values_read + Length)'
      /\ blocked_reads' # << >> => buffer' = << >>
      /\ InOrder(delivered', buffer')
      /\ num_values_read' = Len(delivered')
      /\ Len(delivered') + Len(buffer') = Len(delivered) + Len(Enqueued(n))
      /\ closed' = closed /\ read_closed' = read_closed
  BY <1>3, <1>7, ConsumeInvariant
<1>9. TypeOK'
  <2>1. TypeOK
    BY DEF IInv
  <2>2. written' \in Nat
    BY <1>1
  <2> QED BY <2>1, <2>2, <1>3, ConsumeTyped DEF TypeOK, DeferredType
<1>10. PipeInvariant'
  BY <1>8 DEF PipeInvariant, ReadsMeetValues, IsEmpty
<1>11. FifoDelivery'
  <2>1. ~read_closed => written = Len(delivered) + Len(buffer)
    BY DEF IInv, FifoDelivery, Length
  <2>2. ~read_closed' => Len(delivered') + Len(buffer') = written'
    BY <2>1, <1>1, <1>3, <1>8
  <2> QED BY <2>2, <1>8 DEF FifoDelivery, Length, InOrder
<1>12. Strengthening'
  BY <1>8 DEF IInv, Strengthening
<1> QED BY <1>9, <1>10, <1>11, <1>12 DEF IInv

(* An operation that touches only the clients' deferreds keeps it.         *)
LEMMA DeferredStep ==
  ASSUME IInv, deferred' \in [Clients -> DeferredType],
         UNCHANGED <<pipeVars, history>>
  PROVE  IInv'
BY DEF IInv, TypeOK, DeferredType, PipeInvariant, PushbackExact, FlushesAhead,
       ReadsMeetValues, AllAhead, Sorted, FifoDelivery, InOrder, Strengthening,
       Reachable, Length, IsEmpty, pipeVars, history

LEMMA WriteStep ==
  ASSUME IInv, NEW n \in Nat, NEW d \in [Clients -> DeferredType],
         WriteValues(n, d)
  PROVE  IInv'
<1>1. ~closed /\ written' = written + n /\ Consume(blocked_reads, Enqueued(n), d)
  BY DEF WriteValues, Accepts
<1>2. blocked_reads \in Seq([wants : Wants, client : Clients])
  BY DEF IInv, TypeOK
<1> QED BY <1>1, <1>2, ConsumeStep

LEMMA DeferredAfter ==
  ASSUME IInv, NEW c \in Clients, NEW e \in DeferredType
  PROVE  [deferred EXCEPT ![c] = e] \in [Clients -> DeferredType]
BY DEF IInv, TypeOK, DeferredType

LEMMA FillTyped ==
  ASSUME NEW d \in [Clients -> DeferredType], NEW cs,
         NEW a \in {"Ok", "Eof", "Reader_closed"}
  PROVE  Fill(d, cs, a) \in [Clients -> DeferredType]
<1>1. ASSUME NEW c \in Clients PROVE [d[c] EXCEPT !.answer = a] \in DeferredType
  BY DEF DeferredType
<1> QED BY <1>1 DEF Fill

LEMMA ReadStep ==
  ASSUME IInv, NEW c \in Clients, NEW n \in Wants, Read(c, n)
  PROVE  IInv'
<1>1. n \in Nat
  BY PipeAssumption DEF Wants, All
<1> DEFINE r == [wants |-> n, client |-> c]
           asked(answer) == [deferred EXCEPT ![c] = Deferred("read", answer, << >>, n)]
<1>2. asked("pending") \in [Clients -> DeferredType] /\ asked("Eof") \in [Clients -> DeferredType]
  BY <1>1, EmptySeq, DeferredTyped, DeferredAfter
<1>3. /\ buffer \in Seq(Nat) /\ blocked_reads \in Seq([wants : Wants, client : Clients])
      /\ r \in [wants : Wants, client : Clients]
  BY DEF IInv, TypeOK
<1>4. CASE /\ ~IsEmpty /\ blocked_reads = << >>
           /\ Consume(<<r>>, buffer, asked("pending")) /\ UNCHANGED written
  <2>1. <<r>> \in Seq([wants : Wants, client : Clients]) /\ Len(<<r>>) = 1
    BY <1>3
  <2>2. Enqueued(0) = buffer
    BY <1>3 DEF Enqueued
  <2>3. blocked_reads' = << >>
    <3>1. PICK cut \in Cuts(<<r>>, Len(buffer)) :
            \E k \in Served(<<r>>, Len(buffer), cut) :
              \E f \in FlushesDue(num_values_read + cut[k]) :
                ConsumeUpTo(<<r>>, buffer, asked("pending"), cut, k, f)
      BY <1>4 DEF Consume
    <3>2. PICK k \in Served(<<r>>, Len(buffer), cut) :
            blocked_reads' = SubSeq(<<r>>, k + 1, 1)
      BY <3>1, <2>1 DEF ConsumeUpTo
    <3>3. cut[0] = 0 /\ Len(buffer) # 0
      BY <1>4, <1>3, EmptySeq DEF Cuts, IsEmpty
    <3>4. k = 1
      BY <2>1, <3>3 DEF Served
    <3> QED BY <3>2, <3>4, SubSeqEmpty
  <2>4. written \in Nat /\ written' = written + 0
    BY <1>4 DEF IInv, TypeOK
  <2>5. Consume(<<r>>, Enqueued(0), asked("pending"))
    BY <1>4, <2>2
  <2>6. blocked_reads' # << >> => ~closed
    BY <2>3
  <2>7. 0 \in Nat /\ (0 > 0 => ~closed)
    OBVIOUS
  <2> HIDE DEF r, asked
  <2> QED BY <1>2, <2>1, <2>4, <2>5, <2>6, <2>7, ConsumeStep
<1>5. CASE IsEmpty /\ closed /\ deferred' = asked("Eof") /\ UNCHANGED <<blocked_reads, waiting>>
           /\ UNCHANGED <<buffer, size_budget, pushback, filled, num_values_read,
                          blocked_flushes, closed, written, delivered, read_closed>>
  BY <1>2, <1>5, DeferredStep DEF pipeVars, history
<1>6. CASE IsEmpty /\ ~closed /\ deferred' = asked("pending")
           /\ blocked_reads' = Append(blocked_reads, r)
           /\ UNCHANGED <<buffer, size_budget, pushback, filled, num_values_read,
                          blocked_flushes, closed, written, delivered, read_closed>>
  <2>1. blocked_reads' \in Seq([wants : Wants, client : Clients])
    BY <1>3, <1>6, AppendProperties
  <2>2. TypeOK'
    BY <1>2, <1>6, <2>1 DEF IInv, TypeOK, DeferredType
  <2>3. PipeInvariant'
    BY <1>6 DEF IInv, PipeInvariant, PushbackExact, FlushesAhead, ReadsMeetValues,
                AllAhead, Sorted, Length, IsEmpty
  <2>4. FifoDelivery' /\ Strengthening'
    BY <1>6 DEF IInv, FifoDelivery, InOrder, Strengthening, Reachable, Length
  <2> QED BY <2>2, <2>3, <2>4 DEF IInv
<1> QED BY <1>4, <1>5, <1>6 DEF Read, Block

LEMMA FlushedStep ==
  ASSUME IInv, NEW c \in Clients, Flushed(c)
  PROVE  IInv'
<1> DEFINE asked(answer) == [deferred EXCEPT ![c] = Deferred("flushed", answer, << >>, Awaited)]
<1>1. /\ buffer \in Seq(Nat) /\ Len(buffer) \in Nat /\ num_values_read \in Nat
      /\ Len(delivered) \in Nat /\ written \in Nat
      /\ blocked_flushes \in Seq(FlushType)
  BY LenProperties DEF IInv, TypeOK, FlushType
<1>2. asked("pending") \in [Clients -> DeferredType] /\ asked("Ok") \in [Clients -> DeferredType]
  <2>1. Awaited \in Nat
    BY <1>1 DEF Awaited
  <2> QED BY <2>1, EmptySeq, DeferredTyped, DeferredAfter
<1>3. CASE IsEmpty
  BY <1>2, <1>3, DeferredStep DEF Flushed, pipeVars, history
<1>4. CASE ~IsEmpty
  <2> DEFINE e == [fill_when_num_values_read |-> num_values_read + Length, client |-> c]
  <2>1. /\ deferred' = asked("pending") /\ blocked_flushes' = Append(blocked_flushes, e)
        /\ UNCHANGED <<buffer, size_budget, pushback, filled, num_values_read,
                       blocked_reads, closed, written, delivered, read_closed>>
    BY <1>4 DEF Flushed, history
  <2>2. e \in FlushType /\ e.fill_when_num_values_read = num_values_read + Len(buffer)
    BY <1>1 DEF FlushType, Length
  <2>3. /\ Append(blocked_flushes, e) \in Seq(FlushType)
        /\ Len(Append(blocked_flushes, e)) = Len(blocked_flushes) + 1
        /\ \A i \in 1..Len(blocked_flushes) : Append(blocked_flushes, e)[i] = blocked_flushes[i]
        /\ Append(blocked_flushes, e)[Len(blocked_flushes) + 1] = e
        /\ Len(blocked_flushes) \in Nat
    BY <1>1, <2>2, AppendProperties, LenProperties
  <2> HIDE DEF e
  <2>4. TypeOK'
    BY <1>2, <2>1, <2>3 DEF IInv, TypeOK, DeferredType, FlushType
  <2>5. /\ AllAhead(blocked_flushes, num_values_read) /\ Sorted(blocked_flushes)
        /\ Reachable(blocked_flushes, num_values_read + Len(buffer))
    BY DEF IInv, PipeInvariant, FlushesAhead, Strengthening, Length
  <2>6. Len(buffer) > 0
    BY <1>1, <1>4, EmptySeq DEF IsEmpty
  <2>7. AllAhead(blocked_flushes', num_values_read)
    <3>1. ASSUME NEW i \in 1..Len(blocked_flushes')
          PROVE  blocked_flushes'[i].fill_when_num_values_read > num_values_read
      <4>1. CASE i \in 1..Len(blocked_flushes)
        BY <4>1, <2>1, <2>3, <2>5 DEF AllAhead
      <4>2. CASE i = Len(blocked_flushes) + 1
        BY <4>2, <1>1, <2>1, <2>2, <2>3, <2>6
      <4> QED BY <4>1, <4>2, <2>1, <2>3
    <3> QED BY <3>1 DEF AllAhead
  <2>8. Reachable(blocked_flushes', num_values_read + Len(buffer))
    <3>1. ASSUME NEW i \in 1..Len(blocked_flushes')
          PROVE  blocked_flushes'[i].fill_when_num_values_read <= num_values_read + Len(buffer)
      <4>1. CASE i \in 1..Len(blocked_flushes)
        BY <4>1, <2>1, <2>3, <2>5 DEF Reachable
      <4>2. CASE i = Len(blocked_flushes) + 1
        BY <4>2, <1>1, <2>1, <2>2, <2>3
      <4> QED BY <4>1, <4>2, <2>1, <2>3
    <3> QED BY <3>1 DEF Reachable
  <2>9. Sorted(blocked_flushes')
    <3>1. ASSUME NEW i \in 1..Len(blocked_flushes'), NEW j \in 1..Len(blocked_flushes'), i < j
          PROVE  blocked_flushes'[i].fill_when_num_values_read
                   <= blocked_flushes'[j].fill_when_num_values_read
      <4>1. i \in 1..Len(blocked_flushes) /\ blocked_flushes'[i] = blocked_flushes[i]
        BY <3>1, <2>1, <2>3
      <4>2. CASE j \in 1..Len(blocked_flushes)
        BY <3>1, <4>1, <4>2, <2>1, <2>3, <2>5 DEF Sorted
      <4>3. CASE j = Len(blocked_flushes) + 1
        BY <4>1, <4>3, <2>1, <2>2, <2>3, <2>5 DEF Reachable
      <4> QED BY <4>2, <4>3, <2>1, <2>3
    <3> QED BY <3>1 DEF Sorted
  <2>10. PipeInvariant'
    <3>1. FlushesAhead'
      BY <1>4, <2>1, <2>7, <2>9 DEF FlushesAhead, IsEmpty, AllAhead, Sorted
    <3> QED BY <3>1, <2>1 DEF IInv, PipeInvariant, PushbackExact, ReadsMeetValues, Length, IsEmpty
  <2>11. FifoDelivery' /\ Strengthening'
    BY <2>1, <2>8 DEF IInv, FifoDelivery, InOrder, Strengthening, Reachable, Length
  <2> QED BY <2>4, <2>10, <2>11 DEF IInv
<1> QED BY <1>3, <1>4

LEMMA CloseStep == ASSUME IInv, Close PROVE IInv'
<1>1. /\ closed' = TRUE /\ UpdatePushback
      /\ UNCHANGED <<buffer, size_budget, num_values_read, blocked_flushes,
                     written, delivered, read_closed>>
      /\ IF IsEmpty
         THEN /\ deferred' = Fill(deferred, ClientsOf(blocked_reads), "Eof")
              /\ blocked_reads' = << >>
         ELSE UNCHANGED <<deferred, blocked_reads>>
  BY DEF Close
<1>2. deferred' \in [Clients -> DeferredType]
  <2>1. deferred \in [Clients -> DeferredType]
    BY DEF IInv, TypeOK, DeferredType
  <2>2. Fill(deferred, ClientsOf(blocked_reads), "Eof") \in [Clients -> DeferredType]
    BY <2>1, FillTyped
  <2> QED BY <1>1, <2>1, <2>2
<1>3. PushbackExact' /\ filled' \subseteq 1..pushback'
  BY <1>1, PushbackRestored DEF IInv, Strengthening
<1>4. blocked_reads' = << >>
  BY <1>1 DEF IInv, PipeInvariant, ReadsMeetValues
<1>5. TypeOK'
  <2>1. pushback' \in Nat \ {0} /\ filled' \subseteq Nat
    BY <1>1, PushbackTyped DEF IInv
  <2>2. blocked_reads' \in Seq([wants : Wants, client : Clients])
    BY <1>4, EmptySeq
  <2> QED BY <1>1, <1>2, <2>1, <2>2 DEF IInv, TypeOK, DeferredType
<1>6. PipeInvariant'
  BY <1>1, <1>3, <1>4 DEF IInv, PipeInvariant, FlushesAhead, AllAhead, Sorted,
                          ReadsMeetValues, IsEmpty
<1>7. FifoDelivery' /\ Strengthening'
  BY <1>1, <1>3 DEF IInv, FifoDelivery, InOrder, Strengthening, Reachable, Length
<1> QED BY <1>5, <1>6, <1>7 DEF IInv

LEMMA CloseReadStep == ASSUME IInv, CloseRead PROVE IInv'
<1> DEFINE d == Fill(deferred, ClientsOf(blocked_flushes), "Reader_closed")
<1>1. /\ closed' = TRUE /\ read_closed' = TRUE /\ UpdatePushback
      /\ buffer' = << >> /\ blocked_flushes' = << >>
      /\ UNCHANGED <<size_budget, num_values_read, written, delivered>>
      /\ IF closed THEN deferred' = d /\ UNCHANGED blocked_reads
         ELSE /\ deferred' = Fill(d, ClientsOf(blocked_reads), "Eof")
              /\ blocked_reads' = << >>
  BY DEF CloseRead
<1>2. deferred' \in [Clients -> DeferredType]
  <2>1. d \in [Clients -> DeferredType]
    BY FillTyped DEF IInv, TypeOK, DeferredType
  <2> HIDE DEF d
  <2>2. Fill(d, ClientsOf(blocked_reads), "Eof") \in [Clients -> DeferredType]
    BY <2>1, FillTyped
  <2> QED BY <1>1, <2>1, <2>2
<1>3. PushbackExact' /\ filled' \subseteq 1..pushback'
  BY <1>1, PushbackRestored DEF IInv, Strengthening
<1>4. blocked_reads' = << >>
  BY <1>1 DEF IInv, PipeInvariant, ReadsMeetValues
<1>5. TypeOK'
  <2>1. pushback' \in Nat \ {0} /\ filled' \subseteq Nat
    BY <1>1, PushbackTyped DEF IInv
  <2>2. /\ blocked_reads' \in Seq([wants : Wants, client : Clients])
        /\ blocked_flushes' \in Seq([fill_when_num_values_read : Nat, client : Clients])
        /\ buffer' \in Seq(Nat)
    BY <1>1, <1>4, EmptySeq
  <2> QED BY <1>1, <1>2, <2>1, <2>2 DEF IInv, TypeOK, DeferredType
<1>6. PipeInvariant'
  BY <1>1, <1>3, <1>4 DEF PipeInvariant, FlushesAhead, AllAhead, Sorted,
                          ReadsMeetValues, IsEmpty
<1>7. FifoDelivery' /\ Strengthening'
  BY <1>1, <1>3 DEF IInv, FifoDelivery, InOrder, Strengthening, Reachable, Length
<1> QED BY <1>5, <1>6, <1>7 DEF IInv

LEMMA SetSizeBudgetStep ==
  ASSUME IInv, NEW b \in Budgets, SetSizeBudget(b)
  PROVE  IInv'
<1>1. /\ UpdatePushback /\ size_budget' = b /\ b \in Nat
      /\ UNCHANGED <<buffer, num_values_read, blocked_flushes, blocked_reads, closed,
                     deferred, written, delivered, read_closed>>
  BY PipeAssumption DEF SetSizeBudget, ValidBudget, history
<1>2. PushbackExact' /\ filled' \subseteq 1..pushback'
  BY <1>1, PushbackRestored DEF IInv, Strengthening
<1>3. TypeOK'
  <2>1. pushback' \in Nat \ {0} /\ filled' \subseteq Nat
    BY <1>1, PushbackTyped DEF IInv
  <2> QED BY <1>1, <2>1 DEF IInv, TypeOK
<1>4. PipeInvariant'
  BY <1>1, <1>2 DEF IInv, PipeInvariant, FlushesAhead, AllAhead, Sorted,
                    ReadsMeetValues, IsEmpty
<1>5. FifoDelivery' /\ Strengthening'
  BY <1>1, <1>2 DEF IInv, FifoDelivery, InOrder, Strengthening, Reachable, Length
<1> QED BY <1>3, <1>4, <1>5 DEF IInv
-----------------------------------------------------------------------------
LEMMA NextInvariant == IInv /\ [Next]_vars => IInv'
<1> SUFFICES ASSUME IInv, [Next]_vars PROVE IInv'
  OBVIOUS
<1>1. /\ deferred \in [Clients -> DeferredType] /\ pushback \in Nat
      /\ NoDeferred \in DeferredType
  <2>1. deferred \in [Clients -> DeferredType] /\ pushback \in Nat
    BY DEF IInv, TypeOK, DeferredType
  <2>2. << >> \in Seq(Nat)
    BY EmptySeq
  <2>3. NoDeferred \in DeferredType
    BY <2>2, DeferredTyped DEF NoDeferred
  <2> QED BY <2>1, <2>3
<1>2. CASE WriteNoPushback
  BY <1>1, <1>2, WriteStep DEF WriteNoPushback
<1>3. CASE Close
  BY <1>3, CloseStep
<1>4. CASE CloseRead
  BY <1>4, CloseReadStep
<1>5. CASE \E b \in Budgets : SetSizeBudget(b)
  BY <1>5, SetSizeBudgetStep
<1>6. ASSUME NEW c \in Clients, WithWrite(c) PROVE IInv'
  <2>1. Deferred("with_write", "none", << >>, pushback) \in DeferredType
    BY <1>1, EmptySeq, DeferredTyped
  <2> QED BY <1>6, <2>1, DeferredAfter, DeferredStep DEF WithWrite
<1>7. ASSUME NEW c \in Clients, Flushed(c) PROVE IInv'
  BY <1>7, FlushedStep
<1>8. ASSUME NEW c \in Clients, Callback(c) PROVE IInv'
  BY <1>1, <1>8, DeferredAfter, DeferredStep DEF Callback
<1>9. ASSUME NEW c \in Clients, NEW n \in 0..MaxBatch, Write(c, n) PROVE IInv'
  <2>1. pushback' \in Nat
    <3>1. UpdatePushback
      BY <1>9 DEF Write, WriteValues, Consume, ConsumeUpTo
    <3> QED BY <3>1, PushbackTyped DEF IInv
  <2>2. PICK d \in [Clients -> DeferredType] :
          d = [deferred EXCEPT ![c] = Deferred("pushback", "none", << >>, pushback')]
    BY <2>1, EmptySeq, DeferredTyped, DeferredAfter
  <2>3. WriteValues(n, d)
    BY <1>9, <2>2 DEF Write
  <2> QED BY <2>3, WriteStep
<1>10. ASSUME NEW c \in Clients, NEW n \in {0, 1}, WithWriteCallback(c, n) PROVE IInv'
  <2> DEFINE d == [deferred EXCEPT ![c] = NoDeferred]
  <2>1. d \in [Clients -> DeferredType]
    BY <1>1, DeferredAfter
  <2>2. CASE /\ closed /\ deferred' = d
             /\ UNCHANGED <<pipeVars, history>>
    BY <2>1, <2>2, DeferredStep
  <2>3. CASE WriteValues(n, d)
    <3> HIDE DEF d
    <3> QED BY <2>1, <2>3, WriteStep
  <2> QED BY <1>10, <2>2, <2>3 DEF WithWriteCallback
<1>11. ASSUME NEW c \in Clients, NEW n \in Wants, Read(c, n) PROVE IInv'
  BY <1>11, ReadStep
<1>12. CASE UNCHANGED vars
  <2>1. deferred' \in [Clients -> DeferredType]
    BY <1>1, <1>12 DEF vars
  <2> QED BY <1>12, <2>1, DeferredStep DEF vars, history
<1> QED BY <1>2, <1>3, <1>4, <1>5, <1>6, <1>7, <1>8, <1>9, <1>10, <1>11, <1>12 DEF Next

(* The invariant that pipe.ml states of a pipe, and FIFO delivery without  *)
(* loss, hold for any number of tasks, values, batch sizes and budgets.    *)
THEOREM PipeCorrect == Spec => [](TypeOK /\ PipeInvariant /\ FifoDelivery)
<1>1. IInv => TypeOK /\ PipeInvariant /\ FifoDelivery
  BY DEF IInv
<1> QED BY InitInvariant, NextInvariant, <1>1, PTL DEF Spec
-----------------------------------------------------------------------------
(* A function that never goes down at a step never goes down.              *)
LEMMA Upward ==
  ASSUME NEW n \in Nat, NEW cut \in [0..n -> Nat],
         \A i \in 1..n : cut[i-1] <= cut[i],
         NEW j \in 0..n, NEW l \in j..n
  PROVE  cut[j] <= cut[l]
<1> DEFINE T == {m \in Nat : j + m <= n => cut[j] <= cut[j + m]}
<1>1. 0 \in T
  OBVIOUS
<1>2. ASSUME NEW m \in Nat, m \in T PROVE m + 1 \in T
  <2>1. SUFFICES ASSUME j + (m + 1) <= n PROVE cut[j] <= cut[j + (m + 1)]
    OBVIOUS
  <2>2. cut[j] <= cut[j + m]
    BY <1>2, <2>1
  <2>3. j + (m + 1) \in 1..n /\ (j + (m + 1)) - 1 = j + m
    BY <2>1
  <2>4. cut[j + m] <= cut[j + (m + 1)]
    BY <2>3
  <2>5. cut[j] \in Nat /\ cut[j + m] \in Nat /\ cut[j + (m + 1)] \in Nat
    BY <2>1
  <2> QED BY <2>2, <2>4, <2>5
<1>3. Nat \subseteq T
  <2> HIDE DEF T
  <2> QED BY <1>1, <1>2, Induct
<1>4. PICK m \in Nat : j + m = l
  <2>1. l - j \in Nat /\ j + (l - j) = l
    OBVIOUS
  <2> QED BY <2>1
<1>5. m \in T
  <2> HIDE DEF T
  <2> QED BY <1>3
<1>6. j + m <= n => cut[j] <= cut[j + m]
  BY <1>5
<1> HIDE DEF T
<1>7. j + m <= n
  BY <1>4
<1> QED BY <1>4, <1>6, <1>7
-----------------------------------------------------------------------------
(* What FlushTruth, ReadAnswers and NoForgottenDeferred need to be         *)
(* inductive, of any deferreds d and queues q: the clients of a queue are  *)
(* those who wait for that call, each at one place, and an entry repeats   *)
(* the mark of its client's deferred.                                      *)
Waits(e, call) == e.call = call /\ e.answer = "pending"
OnePlace(d, q, call) ==
  /\ \A i, j \in 1..Len(q) : q[i].client = q[j].client => i = j
  /\ \A i \in 1..Len(q) : Waits(d[q[i].client], call)
  /\ \A c \in Clients : Waits(d[c], call) => \E i \in 1..Len(q) : q[i].client = c
ReadMarks(d, q) == \A i \in 1..Len(q) : q[i].wants = d[q[i].client].mark
FlushMarks(d, q) ==
  \A i \in 1..Len(q) : q[i].fill_when_num_values_read = d[q[i].client].mark
AnswersFit(d) ==
  \A c \in Clients :
    /\ d[c].call = "read" => d[c].answer \in {"pending", "Ok", "Eof"}
    /\ d[c].call = "flushed" => d[c].answer \in {"pending", "Ok", "Reader_closed"}
    /\ d[c].values # << >> => d[c].call = "read" /\ d[c].answer = "Ok"

ReadType == [wants : Wants, client : Clients]

(* How the loop of reads cuts n values: read i gets the values after       *)
(* cut[i-1] up to cut[i].                                                  *)
Cutting(reads, n, cut, k) ==
  /\ cut \in [0..Len(reads) -> 0..n] /\ cut[0] = 0
  /\ k \in 0..Len(reads) /\ (k = Len(reads) \/ cut[k] = n)
  /\ \A i \in 1..k : /\ cut[i-1] <= cut[i] /\ cut[i] <= cut[k]
                     /\ cut[i] - cut[i-1] <= reads[i].wants
                     /\ reads[i].wants > 0 => cut[i-1] < cut[i]
  /\ \A i, j \in 1..k : i < j => cut[i] <= cut[j-1]

LEMMA CutsGrow ==
  ASSUME NEW reads \in Seq(ReadType), NEW n \in Nat, NEW cut \in Cuts(reads, n),
         NEW k \in Served(reads, n, cut)
  PROVE  Cutting(reads, n, cut, k)
<1>1. /\ cut \in [0..Len(reads) -> 0..n] /\ cut[0] = 0 /\ Len(reads) \in Nat
      /\ k \in 0..Len(reads) /\ (k = Len(reads) \/ cut[k] = n)
      /\ \A i \in 1..k : cut[i-1] < n
      /\ \A i \in 1..Len(reads) :
           cut[i] = IF cut[i-1] + reads[i].wants < n THEN cut[i-1] + reads[i].wants ELSE n
  BY LenProperties DEF Cuts, Served
<1>2. \A i \in 1..Len(reads) : reads[i].wants \in Nat
  <2>1. \A i \in 1..Len(reads) : reads[i] \in ReadType
    BY ElementOfSeq
  <2> QED BY <2>1, PipeAssumption DEF ReadType, Wants, All
<1>3. ASSUME NEW i \in 1..Len(reads)
      PROVE  /\ cut[i-1] <= cut[i] /\ cut[i] - cut[i-1] <= reads[i].wants
             /\ reads[i].wants > 0 /\ cut[i-1] < n => cut[i-1] < cut[i]
  <2>0. i - 1 \in 0..Len(reads)
    BY <1>1
  <2>1. cut[i-1] \in 0..n /\ reads[i].wants \in Nat
    BY <2>0, <1>1, <1>2
  <2>2. cut[i] = IF cut[i-1] + reads[i].wants < n THEN cut[i-1] + reads[i].wants ELSE n
    BY <1>1
  <2> QED BY <2>1, <2>2
<1>4. ASSUME NEW i \in 0..Len(reads), NEW j \in i..Len(reads) PROVE cut[i] <= cut[j]
  <2>1. cut \in [0..Len(reads) -> Nat]
    BY <1>1
  <2> QED BY <2>1, <1>1, <1>3, Upward
<1>5. ASSUME NEW i \in 1..k PROVE i \in 1..Len(reads) /\ i \in 0..Len(reads) /\ k \in i..Len(reads)
  BY <1>1
<1>6. ASSUME NEW i \in 1..k, NEW j \in 1..k, i < j PROVE cut[i] <= cut[j-1]
  <2>1. i \in 0..Len(reads) /\ j - 1 \in i..Len(reads)
    BY <1>1, <1>6
  <2> QED BY <2>1, <1>4
<1> QED BY <1>1, <1>3, <1>4, <1>5, <1>6 DEF Cutting

(* What the clients hold once the first k reads and f flushes are answered.*)
Handed(reads, flushes, buf, d, e, cut, k, f) ==
  /\ \A i \in 1..k : e[reads[i].client] =
       [d[reads[i].client] EXCEPT !.answer = "Ok", !.values = Share(buf, cut, i)]
  /\ \A i \in 1..f : e[flushes[i].client] = [d[flushes[i].client] EXCEPT !.answer = "Ok"]
  /\ \A c \in Clients : (\A i \in 1..k : reads[i].client # c)
                          /\ (\A i \in 1..f : flushes[i].client # c) => e[c] = d[c]

LEMMA HandedOut ==
  ASSUME NEW buf \in Seq(Nat), TypeOK, NEW reads \in Seq(ReadType),
         NEW d \in [Clients -> DeferredType], Consume(reads, buf, d),
         OnePlace(d, reads, "read"), OnePlace(d, blocked_flushes, "flushed")
  PROVE  \E cut, k, f :
           /\ Cutting(reads, Len(buf), cut, k)
           /\ f \in 0..Len(blocked_flushes)
           /\ \A i \in 1..f :
                blocked_flushes[i].fill_when_num_values_read <= num_values_read + cut[k]
           /\ Handed(reads, blocked_flushes, buf, d, deferred', cut, k, f)
           /\ buffer' = SubSeq(buf, cut[k] + 1, Len(buf))
           /\ num_values_read' = num_values_read + cut[k]
           /\ delivered' = delivered \o SubSeq(buf, 1, cut[k])
           /\ blocked_reads' = SubSeq(reads, k + 1, Len(reads))
           /\ blocked_flushes' = SubSeq(blocked_flushes, f + 1, Len(blocked_flushes))
           /\ UpdatePushback
           /\ UNCHANGED <<size_budget, closed, read_closed>>
<1>1. PICK cut \in Cuts(reads, Len(buf)) :
        \E k \in Served(reads, Len(buf), cut) :
          \E f \in FlushesDue(num_values_read + cut[k]) :
            ConsumeUpTo(reads, buf, d, cut, k, f)
  BY DEF Consume
<1>2. PICK k \in Served(reads, Len(buf), cut) :
        \E f \in FlushesDue(num_values_read + cut[k]) :
          ConsumeUpTo(reads, buf, d, cut, k, f)
  BY <1>1
<1>3. PICK f \in FlushesDue(num_values_read + cut[k]) :
        ConsumeUpTo(reads, buf, d, cut, k, f)
  BY <1>2
<1>4. Cutting(reads, Len(buf), cut, k)
  BY CutsGrow, LenProperties
<1>5. /\ f \in 0..Len(blocked_flushes)
      /\ \A i \in 1..f :
           blocked_flushes[i].fill_when_num_values_read <= num_values_read + cut[k]
  BY DEF FlushesDue
<1>6. /\ Len(reads) \in Nat /\ Len(blocked_flushes) \in Nat /\ k \in 0..Len(reads)
      /\ \A i \in 1..Len(reads) : reads[i].client \in Clients
      /\ \A i \in 1..Len(blocked_flushes) : blocked_flushes[i].client \in Clients
  <2>1. blocked_flushes \in Seq(FlushType)
    BY DEF TypeOK, FlushType
  <2>2. /\ \A i \in 1..Len(reads) : reads[i] \in ReadType
        /\ \A i \in 1..Len(blocked_flushes) : blocked_flushes[i] \in FlushType
    BY <2>1, ElementOfSeq
  <2> QED BY <2>1, <2>2, LenProperties DEF ReadType, FlushType, Served
<1>7. deferred' = [c \in Clients |->
       IF \E i \in 1..k : reads[i].client = c
       THEN LET i == CHOOSE i \in 1..k : reads[i].client = c
            IN  [d[c] EXCEPT !.answer = "Ok", !.values = Share(buf, cut, i)]
       ELSE IF \E i \in 1..f : blocked_flushes[i].client = c
       THEN [d[c] EXCEPT !.answer = "Ok"]
       ELSE d[c]]
  BY <1>3 DEF ConsumeUpTo
<1>8. Handed(reads, blocked_flushes, buf, d, deferred', cut, k, f)
  <2>1. ASSUME NEW i \in 1..k
        PROVE  deferred'[reads[i].client] =
                 [d[reads[i].client] EXCEPT !.answer = "Ok", !.values = Share(buf, cut, i)]
    <3> DEFINE c == reads[i].client
               j == CHOOSE j \in 1..k : reads[j].client = c
    <3>1. j \in 1..k /\ reads[j].client = c
      OBVIOUS
    <3>2. i \in 1..Len(reads) /\ j \in 1..Len(reads) /\ c \in Clients
      BY <3>1, <1>6
    <3>3. j = i
      <4> HIDE DEF j
      <4> QED BY <3>1, <3>2 DEF OnePlace
    <3> QED BY <1>7, <3>2, <3>3
  <2>2. ASSUME NEW i \in 1..f
        PROVE  deferred'[blocked_flushes[i].client] =
                 [d[blocked_flushes[i].client] EXCEPT !.answer = "Ok"]
    <3> DEFINE c == blocked_flushes[i].client
    <3>1. i \in 1..Len(blocked_flushes) /\ c \in Clients
      BY <1>5, <1>6
    <3>2. Waits(d[c], "flushed")
      BY <3>1 DEF OnePlace
    <3>3. ASSUME NEW j \in 1..k, reads[j].client = c PROVE FALSE
      <4>1. j \in 1..Len(reads)
        BY <1>6
      <4>2. Waits(d[c], "read")
        BY <3>3, <4>1 DEF OnePlace
      <4> QED BY <4>2, <3>2 DEF Waits
    <3>4. ~\E j \in 1..k : reads[j].client = c
      BY <3>3
    <3>5. \E j \in 1..f : blocked_flushes[j].client = c
      OBVIOUS
    <3> HIDE DEF c
    <3>6. deferred'[c] = [d[c] EXCEPT !.answer = "Ok"]
      BY <1>7, <3>1, <3>4, <3>5
    <3> QED BY <3>6 DEF c
  <2>3. ASSUME NEW c \in Clients, \A i \in 1..k : reads[i].client # c,
               \A i \in 1..f : blocked_flushes[i].client # c
        PROVE  deferred'[c] = d[c]
    BY <1>7, <2>3
  <2> QED BY <2>1, <2>2, <2>3 DEF Handed
<1>9. /\ buffer' = SubSeq(buf, cut[k] + 1, Len(buf))
      /\ num_values_read' = num_values_read + cut[k]
      /\ delivered' = delivered \o SubSeq(buf, 1, cut[k])
      /\ blocked_reads' = SubSeq(reads, k + 1, Len(reads))
      /\ blocked_flushes' = SubSeq(blocked_flushes, f + 1, Len(blocked_flushes))
      /\ UpdatePushback
      /\ UNCHANGED <<size_budget, closed, read_closed>>
  BY <1>3 DEF ConsumeUpTo
<1> QED BY <1>4, <1>5, <1>8, <1>9

LEMMA ClientsTyped ==
  ASSUME NEW reads \in Seq(ReadType), NEW flushes \in Seq(FlushType)
  PROVE  /\ Len(reads) \in Nat /\ Len(flushes) \in Nat
         /\ \A i \in 1..Len(reads) : reads[i].client \in Clients /\ reads[i].wants \in Nat
         /\ \A i \in 1..Len(flushes) : /\ flushes[i].client \in Clients
                                       /\ flushes[i].fill_when_num_values_read \in Nat
<1>1. /\ \A i \in 1..Len(reads) : reads[i] \in ReadType
      /\ \A i \in 1..Len(flushes) : flushes[i] \in FlushType
  BY ElementOfSeq
<1> QED BY <1>1, LenProperties, PipeAssumption DEF ReadType, FlushType, Wants, All

(* The queue without the first k, who wait no more.                        *)
LEMMA QueueLeft ==
  ASSUME NEW S, NEW q \in Seq(S), NEW k \in 0..Len(q), NEW d, NEW e, NEW call,
         OnePlace(d, q, call),
         \A i \in 1..Len(q) : q[i].client \in Clients,
         \A i \in 1..k : ~Waits(e[q[i].client], call),
         \A c \in Clients : (\A i \in 1..k : q[i].client # c) =>
           (Waits(e[c], call) <=> Waits(d[c], call))
  PROVE  LET r == SubSeq(q, k + 1, Len(q))
         IN  /\ OnePlace(e, r, call)
             /\ \A i \in 1..Len(r) :
                  \E j \in 1..Len(q) : /\ r[i] = q[j]
                                       /\ \A h \in 1..k : q[h].client # r[i].client
<1> DEFINE r == SubSeq(q, k + 1, Len(q))
<1>1. /\ Len(q) \in Nat /\ k \in Nat /\ Len(r) = Len(q) - k
      /\ \A i \in 1..(Len(q) - k) : r[i] = q[k + i]
  BY Split, LenProperties
<1> HIDE DEF r
<1>2. ASSUME NEW i \in 1..Len(r)
      PROVE  /\ k + i \in 1..Len(q) /\ r[i] = q[k + i]
             /\ \A h \in 1..k : q[h].client # r[i].client
  <2>1. k + i \in 1..Len(q) /\ r[i] = q[k + i]
    BY <1>1
  <2>2. ASSUME NEW h \in 1..k, q[h].client = q[k + i].client PROVE FALSE
    <3>1. h \in 1..Len(q) /\ h # k + i
      BY <1>1
    <3> QED BY <3>1, <2>1, <2>2 DEF OnePlace
  <2> QED BY <2>1, <2>2
<1>3. ASSUME NEW i \in 1..Len(r), NEW j \in 1..Len(r), r[i].client = r[j].client
      PROVE  i = j
  <2>1. PICK a \in 1..Len(q), b \in 1..Len(q) :
          a = k + i /\ b = k + j /\ r[i] = q[a] /\ r[j] = q[b]
    BY <1>2
  <2>2. q[a].client = q[b].client
    BY <2>1, <1>3
  <2>3. a = b
    BY <2>2 DEF OnePlace
  <2>4. i \in Nat /\ j \in Nat
    BY <1>1
  <2> QED BY <2>1, <2>3, <2>4, <1>1
<1>4. ASSUME NEW i \in 1..Len(r) PROVE Waits(e[r[i].client], call)
  <2>1. Waits(d[r[i].client], call) /\ r[i].client \in Clients
    BY <1>2 DEF OnePlace
  <2> QED BY <2>1, <1>2
<1>5. ASSUME NEW c \in Clients, Waits(e[c], call)
      PROVE  \E i \in 1..Len(r) : r[i].client = c
  <2>1. \A i \in 1..k : q[i].client # c
    BY <1>5
  <2>2. PICK j \in 1..Len(q) : q[j].client = c
    BY <2>1, <1>5 DEF OnePlace
  <2>3. j \notin 1..k
    BY <2>1, <2>2
  <2>4. j - k \in 1..Len(r) /\ k + (j - k) = j
    BY <2>3, <1>1
  <2> QED BY <2>2, <2>4, <1>2
<1>6. OnePlace(e, r, call)
  BY <1>3, <1>4, <1>5 DEF OnePlace
<1> QED BY <1>2, <1>6 DEF r

(* The places of the reads and of the flushes, and what they remember.     *)
Placed(d, reads, flushes) ==
  /\ OnePlace(d, reads, "read") /\ ReadMarks(d, reads)
  /\ OnePlace(d, flushes, "flushed") /\ FlushMarks(d, flushes)
  /\ AnswersFit(d)

(* What became of each client.                                             *)
Outcomes(reads, flushes, buf, d, e, cut, k, f) ==
  \A c \in Clients :
    /\ e[c].call = d[c].call /\ e[c].mark = d[c].mark
    /\ \/ \E i \in 1..k : /\ reads[i].client = c /\ Waits(d[c], "read")
                          /\ e[c].answer = "Ok" /\ e[c].values = Share(buf, cut, i)
       \/ \E i \in 1..f : /\ flushes[i].client = c /\ Waits(d[c], "flushed")
                          /\ e[c].answer = "Ok" /\ e[c].values = d[c].values
       \/ /\ \A i \in 1..k : reads[i].client # c
          /\ \A i \in 1..f : flushes[i].client # c
          /\ e[c] = d[c]

LEMMA HandedTo ==
  ASSUME NEW reads \in Seq(ReadType), NEW flushes \in Seq(FlushType),
         NEW d \in [Clients -> DeferredType], NEW e, NEW buf, NEW cut,
         NEW k \in 0..Len(reads), NEW f \in 0..Len(flushes),
         Placed(d, reads, flushes), Handed(reads, flushes, buf, d, e, cut, k, f)
  PROVE  Outcomes(reads, flushes, buf, d, e, cut, k, f)
<1> SUFFICES ASSUME NEW c \in Clients
             PROVE  /\ e[c].call = d[c].call /\ e[c].mark = d[c].mark
                         /\ \/ \E i \in 1..k : /\ reads[i].client = c /\ Waits(d[c], "read")
                                               /\ e[c].answer = "Ok" /\ e[c].values = Share(buf, cut, i)
                            \/ \E i \in 1..f : /\ flushes[i].client = c /\ Waits(d[c], "flushed")
                                               /\ e[c].answer = "Ok" /\ e[c].values = d[c].values
                            \/ /\ \A i \in 1..k : reads[i].client # c
                               /\ \A i \in 1..f : flushes[i].client # c
                               /\ e[c] = d[c]
  BY DEF Outcomes
<1>1. /\ \A i \in 1..k : i \in 1..Len(reads)
      /\ \A i \in 1..f : i \in 1..Len(flushes)
  BY ClientsTyped
<1>2. d[c] \in DeferredType
  OBVIOUS
<1>3. CASE \E i \in 1..k : reads[i].client = c
  <2>1. PICK i \in 1..k : reads[i].client = c
    BY <1>3
  <2>2. Waits(d[c], "read")
    BY <2>1, <1>1 DEF Placed, OnePlace
  <2>3. e[c] = [d[c] EXCEPT !.answer = "Ok", !.values = Share(buf, cut, i)]
    BY <2>1 DEF Handed
  <2> QED BY <2>1, <2>2, <2>3, <1>2 DEF DeferredType
<1>4. CASE \E i \in 1..f : flushes[i].client = c
  <2>1. PICK i \in 1..f : flushes[i].client = c
    BY <1>4
  <2>2. Waits(d[c], "flushed")
    BY <2>1, <1>1 DEF Placed, OnePlace
  <2>3. e[c] = [d[c] EXCEPT !.answer = "Ok"]
    BY <2>1 DEF Handed
  <2> QED BY <2>1, <2>2, <2>3, <1>2 DEF DeferredType
<1>5. CASE /\ \A i \in 1..k : reads[i].client # c
           /\ \A i \in 1..f : flushes[i].client # c
  BY <1>5 DEF Handed
<1> QED BY <1>3, <1>4, <1>5

(* Handing out leaves every client that still waits its one place.         *)
LEMMA HandedPlaced ==
  ASSUME NEW reads \in Seq(ReadType), NEW flushes \in Seq(FlushType),
         NEW d \in [Clients -> DeferredType], NEW e, NEW buf, NEW cut,
         NEW k \in 0..Len(reads), NEW f \in 0..Len(flushes),
         Placed(d, reads, flushes), Handed(reads, flushes, buf, d, e, cut, k, f)
  PROVE  Placed(e, SubSeq(reads, k + 1, Len(reads)), SubSeq(flushes, f + 1, Len(flushes)))
<1> DEFINE rs == SubSeq(reads, k + 1, Len(reads))
           fs == SubSeq(flushes, f + 1, Len(flushes))
<1>1. /\ \A i \in 1..Len(reads) : reads[i].client \in Clients
      /\ \A i \in 1..Len(flushes) : flushes[i].client \in Clients
      /\ \A i \in 1..k : i \in 1..Len(reads)
      /\ \A i \in 1..f : i \in 1..Len(flushes)
  BY ClientsTyped
<1>0. ASSUME NEW c \in Clients
      PROVE  /\ e[c].call = d[c].call /\ e[c].mark = d[c].mark
             /\ \/ \E i \in 1..k : /\ reads[i].client = c /\ Waits(d[c], "read")
                                   /\ e[c].answer = "Ok" /\ e[c].values = Share(buf, cut, i)
                \/ \E i \in 1..f : /\ flushes[i].client = c /\ Waits(d[c], "flushed")
                                   /\ e[c].answer = "Ok" /\ e[c].values = d[c].values
                \/ /\ \A i \in 1..k : reads[i].client # c
                   /\ \A i \in 1..f : flushes[i].client # c
                   /\ e[c] = d[c]
  <2>1. Outcomes(reads, flushes, buf, d, e, cut, k, f)
    BY HandedTo
  <2> QED BY <2>1 DEF Outcomes
<1>2. /\ OnePlace(e, rs, "read")
      /\ \A i \in 1..Len(rs) :
           \E j \in 1..Len(reads) : /\ rs[i] = reads[j]
                                    /\ \A h \in 1..k : reads[h].client # rs[i].client
  <2>1. \A i \in 1..k : ~Waits(e[reads[i].client], "read")
    <3>1. SUFFICES ASSUME NEW i \in 1..k PROVE e[reads[i].client].answer # "pending"
      BY DEF Waits
    <3>2. d[reads[i].client] \in DeferredType
      BY <1>1
    <3> QED BY <3>2 DEF Handed, DeferredType
  <2>2. \A c \in Clients : (\A i \in 1..k : reads[i].client # c) =>
          (Waits(e[c], "read") <=> Waits(d[c], "read"))
    <3>1. SUFFICES ASSUME NEW c \in Clients, \A i \in 1..k : reads[i].client # c
                   PROVE  Waits(e[c], "read") <=> Waits(d[c], "read")
      OBVIOUS
    <3>2. \/ e[c] = d[c]
          \/ e[c].call = d[c].call /\ Waits(d[c], "flushed")
      BY <3>1, <1>0
    <3> QED BY <3>2 DEF Waits
  <2>3. OnePlace(d, reads, "read")
    BY DEF Placed
  <2> QED BY <1>1, <2>1, <2>2, <2>3, QueueLeft
<1>3. /\ OnePlace(e, fs, "flushed")
      /\ \A i \in 1..Len(fs) :
           \E j \in 1..Len(flushes) : /\ fs[i] = flushes[j]
                                      /\ \A h \in 1..f : flushes[h].client # fs[i].client
  <2>1. \A i \in 1..f : ~Waits(e[flushes[i].client], "flushed")
    <3>1. SUFFICES ASSUME NEW i \in 1..f PROVE e[flushes[i].client].answer # "pending"
      BY DEF Waits
    <3>2. d[flushes[i].client] \in DeferredType
      BY <1>1
    <3> QED BY <3>2 DEF Handed, DeferredType
  <2>2. \A c \in Clients : (\A i \in 1..f : flushes[i].client # c) =>
          (Waits(e[c], "flushed") <=> Waits(d[c], "flushed"))
    <3>1. SUFFICES ASSUME NEW c \in Clients, \A i \in 1..f : flushes[i].client # c
                   PROVE  Waits(e[c], "flushed") <=> Waits(d[c], "flushed")
      OBVIOUS
    <3>2. \/ e[c] = d[c]
          \/ e[c].call = d[c].call /\ Waits(d[c], "read")
      BY <3>1, <1>0
    <3> QED BY <3>2 DEF Waits
  <2>3. OnePlace(d, flushes, "flushed")
    BY DEF Placed
  <2> QED BY <1>1, <2>1, <2>2, <2>3, QueueLeft
<1> HIDE DEF rs, fs
<1>4. ReadMarks(e, rs)
  <2>1. ASSUME NEW i \in 1..Len(rs) PROVE rs[i].wants = e[rs[i].client].mark
    <3>1. PICK j \in 1..Len(reads) : rs[i] = reads[j]
      BY <1>2
    <3>2. reads[j].wants = d[reads[j].client].mark
      BY DEF Placed, ReadMarks
    <3>3. e[reads[j].client].mark = d[reads[j].client].mark
      BY <1>1, <1>0
    <3> QED BY <3>1, <3>2, <3>3
  <2> QED BY <2>1 DEF ReadMarks
<1>5. FlushMarks(e, fs)
  <2>1. ASSUME NEW i \in 1..Len(fs)
        PROVE  fs[i].fill_when_num_values_read = e[fs[i].client].mark
    <3>1. PICK j \in 1..Len(flushes) : fs[i] = flushes[j]
      BY <1>3
    <3>2. flushes[j].fill_when_num_values_read = d[flushes[j].client].mark
      BY DEF Placed, FlushMarks
    <3>3. e[flushes[j].client].mark = d[flushes[j].client].mark
      BY <1>1, <1>0
    <3> QED BY <3>1, <3>2, <3>3
  <2> QED BY <2>1 DEF FlushMarks
<1>6. AnswersFit(e)
  <2>1. ASSUME NEW c \in Clients
        PROVE  /\ e[c].call = "read" => e[c].answer \in {"pending", "Ok", "Eof"}
               /\ e[c].call = "flushed" => e[c].answer \in {"pending", "Ok", "Reader_closed"}
               /\ e[c].values # << >> => e[c].call = "read" /\ e[c].answer = "Ok"
    <3>0. /\ d[c].call = "read" => d[c].answer \in {"pending", "Ok", "Eof"}
          /\ d[c].call = "flushed" => d[c].answer \in {"pending", "Ok", "Reader_closed"}
          /\ d[c].values # << >> => d[c].call = "read" /\ d[c].answer = "Ok"
      BY DEF Placed, AnswersFit
    <3>1. /\ e[c].call = d[c].call
          /\ \/ Waits(d[c], "read") /\ e[c].answer = "Ok"
             \/ Waits(d[c], "flushed") /\ e[c].answer = "Ok" /\ e[c].values = d[c].values
             \/ e[c] = d[c]
      BY <1>0
    <3> QED BY <3>0, <3>1 DEF Waits
  <2> QED BY <2>1 DEF AnswersFit
<1> QED BY <1>2, <1>3, <1>4, <1>5, <1>6 DEF Placed, rs, fs

-----------------------------------------------------------------------------
(* FlushTruth and ReadAnswers, of any deferreds, when num values have come *)
(* out.                                                                    *)
FlushesTold(d, num, ended) ==
  \A c \in Clients : d[c].call = "flushed" =>
    /\ d[c].answer = "Ok" <=> num >= d[c].mark
    /\ d[c].answer = "Reader_closed" => ended
    /\ d[c].answer = "pending" => ~ended

(* Flushes whose last value comes out are told so, and no others.          *)
LEMMA HandedFlushes ==
  ASSUME NEW reads \in Seq(ReadType), NEW flushes \in Seq(FlushType),
         NEW d \in [Clients -> DeferredType], NEW e, NEW buf, NEW cut,
         NEW k \in 0..Len(reads), NEW f \in 0..Len(flushes),
         NEW num \in Nat, NEW now \in Nat, num <= now,
         Placed(d, reads, flushes), Handed(reads, flushes, buf, d, e, cut, k, f),
         \A i \in 1..f : flushes[i].fill_when_num_values_read <= now,
         AllAhead(SubSeq(flushes, f + 1, Len(flushes)), now),
         FlushesTold(d, num, FALSE)
  PROVE  FlushesTold(e, now, FALSE)
<1> DEFINE rs == SubSeq(reads, k + 1, Len(reads))
           fs == SubSeq(flushes, f + 1, Len(flushes))
<1>1. Outcomes(reads, flushes, buf, d, e, cut, k, f)
  BY HandedTo
<1>2. Placed(e, rs, fs)
  BY HandedPlaced
<1>3. \A i \in 1..f : i \in 1..Len(flushes)
  BY ClientsTyped
<1>4. AllAhead(fs, now)
  OBVIOUS
<1> HIDE DEF rs, fs
<1> SUFFICES ASSUME NEW c \in Clients, e[c].call = "flushed"
             PROVE  /\ e[c].answer = "Ok" <=> now >= e[c].mark
                    /\ e[c].answer # "Reader_closed"
  BY DEF FlushesTold
<1>5. /\ e[c].call = d[c].call /\ e[c].mark = d[c].mark /\ d[c].mark \in Nat
      /\ \/ Waits(d[c], "read")
         \/ \E i \in 1..f : flushes[i].client = c /\ e[c].answer = "Ok"
         \/ e[c] = d[c]
  <2>1. d[c] \in DeferredType
    OBVIOUS
  <2> QED BY <1>1, <2>1 DEF Outcomes, DeferredType
<1>6. /\ d[c].answer \in {"pending", "Ok", "Reader_closed"}
      /\ d[c].answer = "Ok" <=> num >= d[c].mark
      /\ d[c].answer # "Reader_closed"
  BY <1>5 DEF Placed, AnswersFit, FlushesTold
<1>7. CASE Waits(d[c], "read")
  BY <1>5, <1>7 DEF Waits
<1>8. CASE \E i \in 1..f : flushes[i].client = c /\ e[c].answer = "Ok"
  <2>1. PICK i \in 1..f : flushes[i].client = c /\ e[c].answer = "Ok"
    BY <1>8
  <2>2. flushes[i].fill_when_num_values_read = d[c].mark
    BY <2>1, <1>3 DEF Placed, FlushMarks
  <2> QED BY <2>1, <2>2, <1>5
<1>9. CASE e[c] = d[c] /\ d[c].answer = "Ok"
  BY <1>5, <1>6, <1>9
<1>10. CASE e[c] = d[c] /\ d[c].answer = "pending"
  <2>1. Waits(e[c], "flushed")
    BY <1>10 DEF Waits
  <2>2. PICK i \in 1..Len(fs) : fs[i].client = c
    BY <1>2, <2>1 DEF Placed, OnePlace
  <2>3. fs[i].fill_when_num_values_read = e[c].mark
    BY <1>2, <2>2 DEF Placed, FlushMarks
  <2>4. e[c].mark > now
    BY <1>4, <2>2, <2>3 DEF AllAhead
  <2> QED BY <1>5, <1>10, <2>4
<1> QED BY <1>5, <1>6, <1>7, <1>8, <1>9, <1>10
-----------------------------------------------------------------------------
ReadsTold(d, num, ended) ==
  \A c \in Clients : d[c].call = "read" =>
    /\ d[c].answer = "Ok" =>
         /\ IF d[c].mark = 0 THEN d[c].values = << >> ELSE Len(d[c].values) \in 1..d[c].mark
         /\ \A i \in DOMAIN d[c].values : /\ d[c].values[i] = d[c].values[1] + i - 1
                                          /\ d[c].values[i] <= num
         /\ \A e \in Clients \ {c} : \A i \in DOMAIN d[c].values :
              \A j \in DOMAIN d[e].values : d[e].values[j] # d[c].values[i]
    /\ d[c].answer = "Eof" => ended

(* The share of read i of values numbered from num + 1 on.                 *)
ShareIs(buf, num, cut, k, i) ==
  /\ cut[i-1] \in Nat /\ cut[i] \in Nat /\ cut[k] \in Nat
  /\ cut[i-1] <= cut[i] /\ cut[i] <= cut[k]
  /\ Share(buf, cut, i) \in Seq(Nat)
  /\ Len(Share(buf, cut, i)) = cut[i] - cut[i-1]
  /\ DOMAIN Share(buf, cut, i) = 1..(cut[i] - cut[i-1])
  /\ \A p \in 1..(cut[i] - cut[i-1]) : Share(buf, cut, i)[p] = num + cut[i-1] + p

LEMMA ShareOfRead ==
  ASSUME NEW buf \in Seq(Nat), NEW num \in Nat,
         \A i \in 1..Len(buf) : buf[i] = num + i,
         NEW reads, NEW cut, NEW k, Cutting(reads, Len(buf), cut, k), Len(reads) \in Nat,
         NEW i \in 1..k
  PROVE  ShareIs(buf, num, cut, k, i)
<1>1. /\ cut \in [0..Len(reads) -> 0..Len(buf)] /\ k \in 0..Len(reads)
      /\ cut[i-1] <= cut[i] /\ cut[i] <= cut[k] /\ Len(buf) \in Nat
  BY LenProperties DEF Cutting
<1>2. i \in 0..Len(reads) /\ i - 1 \in 0..Len(reads)
  BY <1>1
<1>3. cut[i-1] \in 0..Len(buf) /\ cut[i] \in 0..Len(buf) /\ cut[k] \in 0..Len(buf)
  BY <1>1, <1>2
<1>4. PICK a \in 0..Len(buf), b \in 0..Len(buf) : a = cut[i-1] /\ b = cut[i]
  BY <1>3
<1>5. \A j \in (a + 1)..b : j \in 1..Len(buf) /\ buf[j] \in Nat
  <2>1. \A j \in (a + 1)..b : j \in 1..Len(buf)
    BY <1>1
  <2> QED BY <2>1, ElementOfSeq
<1>6. /\ SubSeq(buf, a + 1, b) \in Seq(Nat)
      /\ Len(SubSeq(buf, a + 1, b)) = b - a
      /\ \A p \in 1..(b - a) : SubSeq(buf, a + 1, b)[p] = buf[a + p]
  <2>1. Len(SubSeq(buf, a + 1, b)) = IF a + 1 <= b THEN b - (a + 1) + 1 ELSE 0
    BY <1>5, <1>1, SubSeqProperties
  <2>2. SubSeq(buf, a + 1, b) \in Seq(Nat)
    BY <1>5, <1>1, SubSeqProperties
  <2>3. a <= b /\ a \in Nat /\ b \in Nat
    BY <1>1, <1>4
  <2>4. \A p \in 1..(b - (a + 1) + 1) : SubSeq(buf, a + 1, b)[p] = buf[(a + 1) + p - 1]
    BY <1>5, <1>1, SubSeqProperties
  <2>5. \A p \in 1..(b - a) : (a + 1) + p - 1 = a + p
    BY <2>3
  <2>6. b - (a + 1) + 1 = b - a
    BY <2>3
  <2> QED BY <2>1, <2>2, <2>3, <2>4, <2>5, <2>6
<1>7. \A p \in 1..(b - a) : SubSeq(buf, a + 1, b)[p] = num + a + p
  <2>0. a \in Nat /\ b \in Nat /\ b <= Len(buf) /\ Len(buf) \in Nat
    BY <1>1
  <2>1. \A p \in 1..(b - a) : a + p \in 1..Len(buf) /\ num + (a + p) = num + a + p
    BY <2>0
  <2> QED BY <2>1, <1>6
<1>8. DOMAIN SubSeq(buf, a + 1, b) = 1..(b - a)
  BY <1>6, LenProperties
<1>9. Share(buf, cut, i) = SubSeq(buf, a + 1, b)
  BY <1>4 DEF Share
<1>10. cut[i-1] \in Nat /\ cut[i] \in Nat /\ cut[k] \in Nat
  BY <1>3
<1> QED BY <1>1, <1>4, <1>6, <1>7, <1>8, <1>9, <1>10 DEF ShareIs

(* Values that clients hold have come out before.                          *)
LEMMA HeldValues ==
  ASSUME NEW d \in [Clients -> DeferredType], AnswersFit(d), NEW num \in Nat, NEW ended,
         ReadsTold(d, num, ended), NEW c \in Clients, NEW p \in DOMAIN d[c].values
  PROVE  d[c].values[p] \in Nat /\ d[c].values[p] <= num
<1>1. d[c].values \in Seq(Nat)
  <2>1. d[c] \in DeferredType
    OBVIOUS
  <2> QED BY <2>1 DEF DeferredType
<1>2. p \in 1..Len(d[c].values)
  BY <1>1, LenProperties
<1>3. d[c].values # << >>
  BY <1>1, <1>2, EmptySeq
<1>4. d[c].call = "read" /\ d[c].answer = "Ok"
  BY <1>3 DEF AnswersFit
<1> QED BY <1>1, <1>2, <1>4, ElementOfSeq DEF ReadsTold

Numbered(buf, num) == \A i \in 1..Len(buf) : buf[i] = num + i

(* Reads that are served get their own share of the values, which nobody   *)
(* has got before.                                                         *)
LEMMA HandedReads ==
  ASSUME NEW reads \in Seq(ReadType), NEW flushes \in Seq(FlushType),
         NEW d \in [Clients -> DeferredType], NEW e, NEW buf \in Seq(Nat), NEW cut,
         NEW k \in 0..Len(reads), NEW f \in 0..Len(flushes),
         Placed(d, reads, flushes), Handed(reads, flushes, buf, d, e, cut, k, f),
         Cutting(reads, Len(buf), cut, k),
         NEW num \in Nat, Numbered(buf, num),
         NEW now \in Nat, now = num + cut[k],
         ReadsTold(d, num, FALSE)
  PROVE  ReadsTold(e, now, FALSE)
<1>1. Outcomes(reads, flushes, buf, d, e, cut, k, f)
  BY HandedTo
<1>2. /\ Len(reads) \in Nat
      /\ \A i \in 1..Len(reads) : reads[i].wants \in Nat
      /\ \A i \in 1..k : i \in 1..Len(reads)
  BY ClientsTyped
<1>3. /\ cut[k] \in Nat /\ num <= now
      /\ \A i, j \in 1..k : i < j => cut[i] <= cut[j-1]
  <2>1. cut[k] \in Nat
    BY <1>2, LenProperties DEF Cutting
  <2> QED BY <2>1 DEF Cutting
(* a value that a served read gets *)
<1> DEFINE share(i) == Share(buf, cut, i)
<1>4. ASSUME NEW i \in 1..k
      PROVE  /\ cut[i-1] \in Nat /\ cut[i] \in Nat /\ cut[i-1] <= cut[i] /\ cut[i] <= cut[k]
             /\ share(i) \in Seq(Nat) /\ Len(share(i)) = cut[i] - cut[i-1]
             /\ DOMAIN share(i) = 1..(cut[i] - cut[i-1])
             /\ \A p \in 1..(cut[i] - cut[i-1]) : share(i)[p] = num + cut[i-1] + p
  <2>1. ShareIs(buf, num, cut, k, i)
    BY <1>2, ShareOfRead DEF Numbered
  <2> QED BY <2>1 DEF ShareIs
<1>5. ASSUME NEW c \in Clients
      PROVE  /\ e[c].call = d[c].call /\ e[c].mark = d[c].mark /\ d[c].mark \in Nat
             /\ \/ \E i \in 1..k : /\ reads[i].client = c /\ Waits(d[c], "read")
                                   /\ e[c].answer = "Ok" /\ e[c].values = share(i)
                \/ e[c].values = d[c].values /\ (e[c] = d[c] \/ d[c].call = "flushed")
  <2>1. d[c] \in DeferredType
    OBVIOUS
  <2>2. d[c].mark \in Nat
    BY <2>1 DEF DeferredType
  <2> QED BY <1>1, <2>2 DEF Outcomes, Waits
<1> HIDE DEF share
<1>6. ASSUME NEW i \in 1..k, NEW p \in DOMAIN share(i)
      PROVE  /\ share(i)[p] \in Nat /\ share(i)[p] > num + cut[i-1] /\ share(i)[p] <= num + cut[i]
             /\ share(i)[p] > num /\ share(i)[p] <= now
             /\ p \in Nat /\ p >= 1 /\ share(i)[p] = num + cut[i-1] + p /\ 1 \in DOMAIN share(i)
  <2>1. /\ cut[i-1] \in Nat /\ cut[i] \in Nat /\ p \in 1..(cut[i] - cut[i-1])
        /\ share(i)[p] = num + cut[i-1] + p /\ cut[i] <= cut[k]
    <3>1. DOMAIN share(i) = 1..(cut[i] - cut[i-1])
      BY <1>4
    <3> QED BY <3>1, <1>4
  <2>2. 1 \in DOMAIN share(i)
    <3>1. 1 \in 1..(cut[i] - cut[i-1])
      BY <2>1
    <3> QED BY <3>1, <1>4
  <2>3. PICK a \in Nat, b \in Nat, t \in Nat : a = cut[i-1] /\ b = cut[i] /\ t = cut[k]
    BY <1>3, <1>4
  <2>4. p \in 1..(b - a) /\ share(i)[p] = num + a + p /\ b <= t /\ now = num + t
    BY <2>1, <2>3
  <2>5. /\ share(i)[p] \in Nat /\ share(i)[p] > num + a /\ share(i)[p] <= num + b
        /\ share(i)[p] > num /\ share(i)[p] <= now /\ p \in Nat /\ p >= 1
    BY <2>4
  <2> QED BY <2>1, <2>2, <2>3, <2>5
<1>7. AnswersFit(d)
  BY DEF Placed
<1>8. ASSUME NEW c \in Clients, NEW p \in DOMAIN d[c].values
      PROVE  d[c].values[p] \in Nat /\ d[c].values[p] <= num
  BY <1>7, HeldValues
(* values of two clients differ *)
<1>9. ASSUME NEW c \in Clients, NEW o \in Clients, o # c,
             NEW p \in DOMAIN e[c].values, NEW q \in DOMAIN e[o].values
      PROVE  e[o].values[q] # e[c].values[p]
  <2>1. CASE e[c].values = d[c].values /\ e[o].values = d[o].values
    <3>1. d[c].values # << >>
      BY <2>1, EmptySeq
    <3>2. d[c].call = "read" /\ d[c].answer = "Ok"
      BY <3>1, <1>7 DEF AnswersFit
    <3> QED BY <2>1, <3>2, <1>9 DEF ReadsTold
  <2>2. CASE \E i \in 1..k : e[c].values = share(i) /\ e[o].values = d[o].values
    BY <2>2, <1>6, <1>8
  <2>3. CASE \E j \in 1..k : e[o].values = share(j) /\ e[c].values = d[c].values
    BY <2>3, <1>6, <1>8
  <2>4. ASSUME NEW i \in 1..k, NEW j \in 1..k, reads[i].client = c, reads[j].client = o,
               e[c].values = share(i), e[o].values = share(j)
        PROVE  e[o].values[q] # e[c].values[p]
    <3>1. /\ share(i)[p] \in Nat /\ share(i)[p] > num + cut[i-1] /\ share(i)[p] <= num + cut[i]
          /\ share(j)[q] \in Nat /\ share(j)[q] > num + cut[j-1] /\ share(j)[q] <= num + cut[j]
          /\ cut[i-1] \in Nat /\ cut[i] \in Nat /\ cut[j-1] \in Nat /\ cut[j] \in Nat
      BY <2>4, <1>4, <1>6
    <3>2. i # j
      BY <2>4, <1>9
    <3>3. CASE i < j
      <4>1. cut[i] <= cut[j-1]
        BY <3>3, <1>3
      <4>2. PICK x \in Nat, y \in Nat, a \in Nat, b \in Nat :
              x = share(i)[p] /\ y = share(j)[q] /\ a = cut[i] /\ b = cut[j-1]
        BY <3>1
      <4>3. x <= num + a /\ y > num + b /\ a <= b
        BY <4>1, <4>2, <3>1
      <4>4. x # y
        BY <4>3
      <4> QED BY <4>2, <4>4, <2>4
    <3>4. CASE j < i
      <4>1. cut[j] <= cut[i-1]
        BY <3>4, <1>3
      <4>2. PICK x \in Nat, y \in Nat, a \in Nat, b \in Nat :
              x = share(i)[p] /\ y = share(j)[q] /\ a = cut[i-1] /\ b = cut[j]
        BY <3>1
      <4>3. x > num + a /\ y <= num + b /\ b <= a
        BY <4>1, <4>2, <3>1
      <4>4. x # y
        BY <4>3
      <4> QED BY <4>2, <4>4, <2>4
    <3> QED BY <3>2, <3>3, <3>4
  <2> QED BY <2>1, <2>2, <2>3, <2>4, <1>5
<1>10. ASSUME NEW c \in Clients, e[c].call = "read", e[c].answer = "Ok"
       PROVE  /\ IF e[c].mark = 0 THEN e[c].values = << >> ELSE Len(e[c].values) \in 1..e[c].mark
              /\ \A i \in DOMAIN e[c].values : /\ e[c].values[i] = e[c].values[1] + i - 1
                                               /\ e[c].values[i] <= now
  <2>1. CASE \E i \in 1..k : reads[i].client = c /\ e[c].values = share(i)
    <3>1. PICK i \in 1..k : reads[i].client = c /\ e[c].values = share(i)
      BY <2>1
    <3>2. reads[i].wants = e[c].mark
      BY <3>1, <1>2, <1>5 DEF Placed, ReadMarks
    <3>3. /\ cut[i] - cut[i-1] <= reads[i].wants
          /\ reads[i].wants > 0 => cut[i-1] < cut[i]
      BY DEF Cutting
    <3>4. /\ cut[i-1] \in Nat /\ cut[i] \in Nat /\ cut[i-1] <= cut[i]
          /\ Len(share(i)) = cut[i] - cut[i-1] /\ share(i) \in Seq(Nat)
      BY <1>4
    <3>5. ASSUME e[c].mark = 0 PROVE share(i) = << >>
      <4>1. Len(share(i)) = 0
        BY <3>2, <3>3, <3>4, <3>5
      <4> QED BY <3>4, <4>1, EmptySeq
    <3>6. ASSUME e[c].mark # 0 PROVE Len(share(i)) \in 1..e[c].mark
      <4>1. PICK m \in Nat, x \in Nat, y \in Nat : m = e[c].mark /\ x = cut[i-1] /\ y = cut[i]
        BY <1>5, <3>4
      <4>2. y - x <= m /\ (m > 0 => x < y) /\ x <= y /\ m # 0
        BY <4>1, <3>2, <3>3, <3>4, <3>6
      <4>3. y - x \in 1..m
        BY <4>2
      <4> QED BY <3>4, <4>1, <4>3
    <3>7. ASSUME NEW p \in DOMAIN share(i)
          PROVE  share(i)[p] = share(i)[1] + p - 1 /\ share(i)[p] <= now
      <4>1. /\ share(i)[p] = num + cut[i-1] + p /\ 1 \in DOMAIN share(i) /\ p \in Nat
            /\ share(i)[p] <= now
        BY <1>6
      <4>2. share(i)[1] = num + cut[i-1] + 1
        BY <4>1, <1>6
      <4>3. PICK a \in Nat : a = cut[i-1]
        BY <3>4
      <4>4. share(i)[p] = num + a + p /\ share(i)[1] = num + a + 1 /\ p \in Nat
        BY <4>1, <4>2, <4>3
      <4>5. (num + a + 1) + p - 1 = num + a + p
        BY <4>4
      <4> QED BY <4>1, <4>4, <4>5
    <3> QED BY <3>1, <3>5, <3>6, <3>7
  <2>2. CASE e[c] = d[c]
    <3>1. /\ IF d[c].mark = 0 THEN d[c].values = << >> ELSE Len(d[c].values) \in 1..d[c].mark
          /\ \A i \in DOMAIN d[c].values : /\ d[c].values[i] = d[c].values[1] + i - 1
                                           /\ d[c].values[i] <= num
      BY <1>10, <2>2 DEF ReadsTold
    <3>2. \A i \in DOMAIN d[c].values : d[c].values[i] <= now
      <4>1. SUFFICES ASSUME NEW i \in DOMAIN d[c].values PROVE d[c].values[i] <= now
        OBVIOUS
      <4>2. d[c].values[i] \in Nat /\ d[c].values[i] <= num
        BY <1>8
      <4> QED BY <4>2, <1>3
    <3> QED BY <2>2, <3>1, <3>2
  <2> QED BY <2>1, <2>2, <1>5, <1>10
<1>11. ASSUME NEW c \in Clients, e[c].call = "read" PROVE e[c].answer # "Eof"
  BY <1>5, <1>11 DEF ReadsTold
<1> QED BY <1>9, <1>10, <1>11 DEF ReadsTold

-----------------------------------------------------------------------------
(* A client that waits for nothing in the queues takes the deferred x.     *)
LEMMA PlaceKept ==
  ASSUME NEW d, NEW e, NEW S, NEW q \in Seq(S), NEW call,
         \A i \in 1..Len(q) : q[i].client \in Clients,
         NEW c \in Clients, OnePlace(d, q, call), ~Waits(d[c], call),
         \A o \in Clients \ {c} : e[o] = d[o], ~Waits(e[c], call)
  PROVE  /\ OnePlace(e, q, call)
         /\ \A i \in 1..Len(q) : e[q[i].client] = d[q[i].client]
BY DEF OnePlace

LEMMA PlaceTaken ==
  ASSUME NEW d, NEW e, NEW S, NEW q \in Seq(S), NEW call,
         \A i \in 1..Len(q) : q[i].client \in Clients,
         NEW c \in Clients, NEW r \in S, r.client = c, OnePlace(d, q, call), ~Waits(d[c], call),
         \A o \in Clients \ {c} : e[o] = d[o], Waits(e[c], call)
  PROVE  /\ OnePlace(e, Append(q, r), call)
         /\ \A i \in 1..Len(q) : /\ Append(q, r)[i] = q[i]
                                 /\ e[q[i].client] = d[q[i].client]
<1> DEFINE s == Append(q, r)
<1>1. /\ Len(s) = Len(q) + 1 /\ s[Len(q) + 1] = r /\ Len(q) \in Nat
      /\ \A i \in 1..Len(q) : s[i] = q[i]
  BY AppendProperties, LenProperties
<1>2. \A o \in Clients \ {c} : e[o] = d[o]
  OBVIOUS
<1>3. \A i \in 1..Len(q) : q[i].client # c
  BY DEF OnePlace
<1>4. \A i \in 1..Len(q) : e[q[i].client] = d[q[i].client]
  BY <1>2, <1>3
<1> HIDE DEF s
<1>5. ASSUME NEW i \in 1..Len(s) PROVE i \in 1..Len(q) \/ i = Len(q) + 1
  BY <1>1
<1>6. ASSUME NEW i \in 1..Len(s), NEW j \in 1..Len(s), s[i].client = s[j].client PROVE i = j
  <2>1. CASE i \in 1..Len(q) /\ j \in 1..Len(q)
    BY <2>1, <1>1, <1>6 DEF OnePlace
  <2>2. CASE i = Len(q) + 1 /\ j = Len(q) + 1
    BY <2>2
  <2>3. CASE i \in 1..Len(q) /\ j = Len(q) + 1
    BY <2>3, <1>1, <1>3, <1>6
  <2>4. CASE i = Len(q) + 1 /\ j \in 1..Len(q)
    BY <2>4, <1>1, <1>3, <1>6
  <2> QED BY <2>1, <2>2, <2>3, <2>4, <1>5
<1>7. ASSUME NEW i \in 1..Len(s) PROVE Waits(e[s[i].client], call)
  <2>1. CASE i \in 1..Len(q)
    BY <2>1, <1>1, <1>4 DEF OnePlace
  <2>2. CASE i = Len(q) + 1
    BY <2>2, <1>1, <1>2
  <2> QED BY <2>1, <2>2, <1>5
<1>8. ASSUME NEW o \in Clients, Waits(e[o], call) PROVE \E i \in 1..Len(s) : s[i].client = o
  <2>1. CASE o = c
    BY <2>1, <1>1
  <2>2. CASE o # c
    <3>1. PICK i \in 1..Len(q) : q[i].client = o
      BY <2>2, <1>2, <1>8 DEF OnePlace
    <3>2. i \in 1..Len(s) /\ s[i] = q[i]
      BY <1>1
    <3> QED BY <3>1, <3>2
  <2> QED BY <2>1, <2>2
<1>9. OnePlace(e, s, call)
  BY <1>6, <1>7, <1>8 DEF OnePlace
<1> QED BY <1>1, <1>4, <1>9 DEF s

(* What a deferred may say when it is returned.                            *)
Fresh(x) ==
  /\ x \in DeferredType /\ x.values = << >>
  /\ x.call = "read" => x.answer \in {"pending", "Eof"}
  /\ x.call = "flushed" => x.answer \in {"pending", "Ok"}

IdleIn(d, c) == ~Waits(d[c], "read") /\ ~Waits(d[c], "flushed")

(* x finds or needs no place in a queue.                                   *)
LEMMA RenewedPlaced ==
  ASSUME NEW d \in [Clients -> DeferredType],
         NEW reads \in Seq(ReadType), NEW flushes \in Seq(FlushType),
         Placed(d, reads, flushes), NEW c \in Clients, IdleIn(d, c),
         NEW x, Fresh(x)
  PROVE  LET e == [d EXCEPT ![c] = x]
         IN  /\ ~Waits(x, "read") /\ ~Waits(x, "flushed") => Placed(e, reads, flushes)
             /\ Waits(x, "read") =>
                  Placed(e, Append(reads, [wants |-> x.mark, client |-> c]), flushes)
             /\ Waits(x, "flushed") =>
                  Placed(e, reads, Append(flushes,
                    [fill_when_num_values_read |-> x.mark, client |-> c]))
<1> DEFINE e == [d EXCEPT ![c] = x]
           r == [wants |-> x.mark, client |-> c]
           g == [fill_when_num_values_read |-> x.mark, client |-> c]
<1>1. /\ OnePlace(d, reads, "read") /\ ReadMarks(d, reads)
      /\ OnePlace(d, flushes, "flushed") /\ FlushMarks(d, flushes)
      /\ AnswersFit(d)
  BY DEF Placed
<1>2. /\ \A i \in 1..Len(reads) : reads[i].client \in Clients
      /\ \A i \in 1..Len(flushes) : flushes[i].client \in Clients
      /\ Len(reads) \in Nat /\ Len(flushes) \in Nat
  BY ClientsTyped
<1>3. e[c] = x /\ \A o \in Clients \ {c} : e[o] = d[o]
  OBVIOUS
<1> HIDE DEF e
<1>4. AnswersFit(e)
  BY <1>1, <1>3 DEF AnswersFit, Fresh
<1>5. ASSUME ~Waits(x, "read") PROVE OnePlace(e, reads, "read") /\ ReadMarks(e, reads)
  <2>1. /\ OnePlace(e, reads, "read")
        /\ \A i \in 1..Len(reads) : e[reads[i].client] = d[reads[i].client]
    <3>1. ~Waits(e[c], "read") /\ ~Waits(d[c], "read")
      BY <1>3, <1>5 DEF IdleIn
    <3>2. OnePlace(d, reads, "read") /\ \A i \in 1..Len(reads) : reads[i].client \in Clients
      BY <1>1, <1>2
    <3> QED BY <3>1, <3>2, <1>3, PlaceKept
    <2> QED BY <2>1, <1>1 DEF ReadMarks
<1>6. ASSUME ~Waits(x, "flushed") PROVE OnePlace(e, flushes, "flushed") /\ FlushMarks(e, flushes)
  <2>1. /\ OnePlace(e, flushes, "flushed")
        /\ \A i \in 1..Len(flushes) : e[flushes[i].client] = d[flushes[i].client]
    <3>1. ~Waits(e[c], "flushed") /\ ~Waits(d[c], "flushed")
      BY <1>3, <1>6 DEF IdleIn
    <3> QED BY <3>1, <1>1, <1>2, <1>3, PlaceKept
    <2> QED BY <2>1, <1>1 DEF FlushMarks
<1>7. ASSUME Waits(x, "read")
      PROVE  OnePlace(e, Append(reads, r), "read") /\ ReadMarks(e, Append(reads, r))
  <2>0. reads \in Seq(ReadType \cup {r}) /\ r \in ReadType \cup {r} /\ r.client = c
    BY SeqMonotonic
  <2>1. /\ OnePlace(e, Append(reads, r), "read")
        /\ \A i \in 1..Len(reads) : /\ Append(reads, r)[i] = reads[i]
                                    /\ e[reads[i].client] = d[reads[i].client]
    <3>1. ~Waits(d[c], "read")
      BY DEF IdleIn
    <3>2. Waits(e[c], "read")
      BY <1>3, <1>7
    <3>3. OnePlace(d, reads, "read") /\ \A i \in 1..Len(reads) : reads[i].client \in Clients
      BY <1>1, <1>2
    <3>4. PICK S, r0 : S = ReadType \cup {r} /\ r0 = r
      OBVIOUS
    <3>5. reads \in Seq(S) /\ r0 \in S /\ r0.client = c
      BY <2>0, <3>4
    <3>6. /\ OnePlace(e, Append(reads, r0), "read")
          /\ \A i \in 1..Len(reads) : /\ Append(reads, r0)[i] = reads[i]
                                      /\ e[reads[i].client] = d[reads[i].client]
      <4> HIDE DEF r
      <4> QED BY <3>1, <3>2, <3>3, <3>5, <1>3, PlaceTaken
    <3> QED BY <3>4, <3>6
  <2>2. /\ Len(Append(reads, r)) = Len(reads) + 1
        /\ Append(reads, r)[Len(reads) + 1] = r
    BY <2>0, AppendProperties
  <2>3. r.wants = e[r.client].mark
    BY <1>3
  <2> HIDE DEF r
  <2>4. ASSUME NEW i \in 1..Len(Append(reads, r))
        PROVE  Append(reads, r)[i].wants = e[Append(reads, r)[i].client].mark
    <3>1. CASE i \in 1..Len(reads)
      BY <3>1, <2>1, <1>1 DEF ReadMarks
    <3>2. CASE i = Len(reads) + 1
      BY <3>2, <2>2, <2>3
    <3> QED BY <3>1, <3>2, <2>2, <1>2
  <2> QED BY <2>1, <2>4 DEF ReadMarks
<1>8. ASSUME Waits(x, "flushed")
      PROVE  OnePlace(e, Append(flushes, g), "flushed") /\ FlushMarks(e, Append(flushes, g))
  <2>0. flushes \in Seq(FlushType \cup {g}) /\ g \in FlushType \cup {g} /\ g.client = c
    BY SeqMonotonic
  <2>1. /\ OnePlace(e, Append(flushes, g), "flushed")
        /\ \A i \in 1..Len(flushes) : /\ Append(flushes, g)[i] = flushes[i]
                                      /\ e[flushes[i].client] = d[flushes[i].client]
    <3>1. ~Waits(d[c], "flushed")
      BY DEF IdleIn
    <3>2. Waits(e[c], "flushed")
      BY <1>3, <1>8
    <3>3. OnePlace(d, flushes, "flushed") /\ \A i \in 1..Len(flushes) : flushes[i].client \in Clients
      BY <1>1, <1>2
    <3>4. PICK S, g0 : S = FlushType \cup {g} /\ g0 = g
      OBVIOUS
    <3>5. flushes \in Seq(S) /\ g0 \in S /\ g0.client = c
      BY <2>0, <3>4
    <3>6. /\ OnePlace(e, Append(flushes, g0), "flushed")
          /\ \A i \in 1..Len(flushes) : /\ Append(flushes, g0)[i] = flushes[i]
                                        /\ e[flushes[i].client] = d[flushes[i].client]
      <4> HIDE DEF g
      <4> QED BY <3>1, <3>2, <3>3, <3>5, <1>3, PlaceTaken
    <3> QED BY <3>4, <3>6
  <2>2. /\ Len(Append(flushes, g)) = Len(flushes) + 1
        /\ Append(flushes, g)[Len(flushes) + 1] = g
    BY <2>0, AppendProperties
  <2>3. g.fill_when_num_values_read = e[g.client].mark
    BY <1>3
  <2> HIDE DEF g
  <2>4. ASSUME NEW i \in 1..Len(Append(flushes, g))
        PROVE  Append(flushes, g)[i].fill_when_num_values_read
                 = e[Append(flushes, g)[i].client].mark
    <3>1. CASE i \in 1..Len(flushes)
      BY <3>1, <2>1, <1>1 DEF FlushMarks
    <3>2. CASE i = Len(flushes) + 1
      BY <3>2, <2>2, <2>3
    <3> QED BY <3>1, <3>2, <2>2, <1>2
  <2> QED BY <2>1, <2>4 DEF FlushMarks
<1>9. ~(Waits(x, "read") /\ Waits(x, "flushed"))
  BY DEF Waits
<1> HIDE DEF e, r, g
<1>10. /\ ~Waits(x, "read") /\ ~Waits(x, "flushed") => Placed(e, reads, flushes)
       /\ Waits(x, "read") => Placed(e, Append(reads, r), flushes)
       /\ Waits(x, "flushed") => Placed(e, reads, Append(flushes, g))
  BY <1>4, <1>5, <1>6, <1>7, <1>8, <1>9 DEF Placed
<1> QED BY <1>10 DEF e, r, g

(* Nobody else is told anything.                                           *)
LEMMA RenewedTold ==
  ASSUME NEW d \in [Clients -> DeferredType], NEW num, NEW ended, NEW c \in Clients,
         NEW x, Fresh(x)
  PROVE  LET e == [d EXCEPT ![c] = x]
         IN  /\ ReadsTold(d, num, ended)
                  /\ (x.call = "read" /\ x.answer = "Eof" => ended) => ReadsTold(e, num, ended)
             /\ FlushesTold(d, num, ended)
                  /\ (x.call = "flushed" => /\ x.answer = "Ok" <=> num >= x.mark
                                            /\ x.answer = "pending" => ~ended)
                  => FlushesTold(e, num, ended)
<1> DEFINE e == [d EXCEPT ![c] = x]
<1>1. e[c] = x /\ \A o \in Clients \ {c} : e[o] = d[o]
  OBVIOUS
<1> HIDE DEF e
<1>2. x.values = << >> /\ DOMAIN x.values = {}
  BY DEF Fresh
<1>3. ASSUME ReadsTold(d, num, ended), x.call = "read" /\ x.answer = "Eof" => ended
      PROVE  ReadsTold(e, num, ended)
  BY <1>1, <1>2, <1>3 DEF ReadsTold, Fresh
<1>4. ASSUME FlushesTold(d, num, ended),
             x.call = "flushed" => /\ x.answer = "Ok" <=> num >= x.mark
                                   /\ x.answer = "pending" => ~ended
      PROVE  FlushesTold(e, num, ended)
  BY <1>1, <1>4 DEF FlushesTold, Fresh
<1> QED BY <1>3, <1>4 DEF e

-----------------------------------------------------------------------------
(* The clients of a queue have their ivars filled, and the queue is        *)
(* emptied.                                                                *)
LEMMA FilledOne ==
  ASSUME NEW d \in [Clients -> DeferredType], NEW S, NEW q \in Seq(S), NEW call,
         OnePlace(d, q, call), NEW a, NEW c \in Clients
  PROVE  LET e == Fill(d, ClientsOf(q), a)
         IN  /\ e[c].call = d[c].call /\ e[c].mark = d[c].mark /\ e[c].values = d[c].values
             /\ Waits(d[c], call) => e[c].answer = a
             /\ ~Waits(d[c], call) => e[c] = d[c]
<1>1. d[c] \in DeferredType /\ DOMAIN q = 1..Len(q)
  BY LenProperties
<1>2. c \in ClientsOf(q) <=> Waits(d[c], call)
  BY <1>1 DEF ClientsOf, OnePlace
<1> QED BY <1>1, <1>2 DEF Fill, DeferredType

(* Closing the pipe answers the reads, closing the read end the flushes.   *)
LEMMA FilledReads ==
  ASSUME NEW d \in [Clients -> DeferredType], NEW reads \in Seq(ReadType),
         NEW flushes \in Seq(FlushType), Placed(d, reads, flushes)
  PROVE  LET e == Fill(d, ClientsOf(reads), "Eof")
         IN  /\ Placed(e, << >>, flushes)
             /\ \A num, ended : ReadsTold(d, num, ended) => ReadsTold(e, num, TRUE)
             /\ \A num, ended : FlushesTold(d, num, ended) => FlushesTold(e, num, ended)
             /\ \A c \in Clients : e[c].call = d[c].call /\ e[c].mark = d[c].mark
             /\ \A c \in Clients : d[c].call = "flushed" => e[c] = d[c]
<1> DEFINE e == Fill(d, ClientsOf(reads), "Eof")
<1>1. ASSUME NEW c \in Clients
      PROVE  /\ e[c].call = d[c].call /\ e[c].mark = d[c].mark /\ e[c].values = d[c].values
             /\ Waits(d[c], "read") => e[c].answer = "Eof"
             /\ ~Waits(d[c], "read") => e[c] = d[c]
  BY FilledOne DEF Placed
<1> HIDE DEF e
<1>2. /\ OnePlace(d, flushes, "flushed") /\ FlushMarks(d, flushes) /\ AnswersFit(d)
  BY DEF Placed
<1>3. ASSUME NEW c \in Clients
      PROVE  /\ Waits(e[c], "flushed") <=> Waits(d[c], "flushed")
             /\ ~Waits(e[c], "read")
             /\ d[c].call = "flushed" => e[c] = d[c]
  BY <1>1 DEF Waits
<1>4. OnePlace(e, << >>, "read") /\ ReadMarks(e, << >>)
  BY <1>3 DEF OnePlace, ReadMarks
<1>5. \A i \in 1..Len(flushes) : flushes[i].client \in Clients /\ e[flushes[i].client] = d[flushes[i].client]
  <2>1. SUFFICES ASSUME NEW i \in 1..Len(flushes)
                 PROVE  flushes[i].client \in Clients /\ e[flushes[i].client] = d[flushes[i].client]
    OBVIOUS
  <2>2. d[flushes[i].client].call = "flushed" /\ flushes[i].client \in Clients
    BY <1>2, ClientsTyped DEF OnePlace, Waits
  <2> QED BY <2>2, <1>3
<1>6. OnePlace(e, flushes, "flushed") /\ FlushMarks(e, flushes)
  BY <1>2, <1>3, <1>5 DEF OnePlace, FlushMarks
<1>7. AnswersFit(e)
  BY <1>1, <1>2 DEF AnswersFit, Waits
<1>8. ASSUME NEW num, NEW ended, ReadsTold(d, num, ended) PROVE ReadsTold(e, num, TRUE)
  <2>1. ASSUME NEW c \in Clients, e[c].call = "read", e[c].answer = "Ok" PROVE e[c] = d[c]
    BY <1>1, <2>1
  <2> QED BY <1>1, <1>8, <2>1 DEF ReadsTold
<1>9. ASSUME NEW num, NEW ended, FlushesTold(d, num, ended) PROVE FlushesTold(e, num, ended)
  BY <1>1, <1>3, <1>9 DEF FlushesTold
<1> QED BY <1>1, <1>3, <1>4, <1>6, <1>7, <1>8, <1>9 DEF Placed, e

LEMMA FilledFlushes ==
  ASSUME NEW d \in [Clients -> DeferredType], NEW reads \in Seq(ReadType),
         NEW flushes \in Seq(FlushType), Placed(d, reads, flushes)
  PROVE  LET e == Fill(d, ClientsOf(flushes), "Reader_closed")
         IN  /\ Placed(e, reads, << >>)
             /\ \A num, ended : ReadsTold(d, num, ended) => ReadsTold(e, num, ended)
             /\ \A num, ended : FlushesTold(d, num, ended) => FlushesTold(e, num, TRUE)
             /\ \A c \in Clients : e[c].call = d[c].call /\ e[c].mark = d[c].mark
             /\ \A c \in Clients : /\ Waits(d[c], "flushed") => e[c].answer = "Reader_closed"
                                   /\ ~Waits(d[c], "flushed") => e[c] = d[c]
<1> DEFINE e == Fill(d, ClientsOf(flushes), "Reader_closed")
<1>1. ASSUME NEW c \in Clients
      PROVE  /\ e[c].call = d[c].call /\ e[c].mark = d[c].mark /\ e[c].values = d[c].values
             /\ Waits(d[c], "flushed") => e[c].answer = "Reader_closed"
             /\ ~Waits(d[c], "flushed") => e[c] = d[c]
  BY FilledOne DEF Placed
<1> HIDE DEF e
<1>2. /\ OnePlace(d, reads, "read") /\ ReadMarks(d, reads) /\ AnswersFit(d)
  BY DEF Placed
<1>3. ASSUME NEW c \in Clients
      PROVE  /\ Waits(e[c], "read") <=> Waits(d[c], "read")
             /\ ~Waits(e[c], "flushed")
             /\ d[c].call = "read" => e[c] = d[c]
  BY <1>1 DEF Waits
<1>4. OnePlace(e, << >>, "flushed") /\ FlushMarks(e, << >>)
  BY <1>3 DEF OnePlace, FlushMarks
<1>5. \A i \in 1..Len(reads) : e[reads[i].client] = d[reads[i].client]
  <2>1. SUFFICES ASSUME NEW i \in 1..Len(reads)
                 PROVE  e[reads[i].client] = d[reads[i].client]
    OBVIOUS
  <2>2. d[reads[i].client].call = "read" /\ reads[i].client \in Clients
    BY <1>2, ClientsTyped DEF OnePlace, Waits
  <2> QED BY <2>2, <1>3
<1>6. OnePlace(e, reads, "read") /\ ReadMarks(e, reads)
  BY <1>2, <1>3, <1>5 DEF OnePlace, ReadMarks
<1>7. AnswersFit(e)
  BY <1>1, <1>2 DEF AnswersFit, Waits
<1>8. ASSUME NEW num, NEW ended, ReadsTold(d, num, ended) PROVE ReadsTold(e, num, ended)
  <2>1. ASSUME NEW c \in Clients, e[c].call = "read"
        PROVE  e[c] = d[c] /\ d[c].call = "read"
    BY <2>1, <1>1, <1>3
  <2>2. \A c \in Clients : e[c].values = d[c].values
    BY <1>1
  <2>3. ASSUME NEW c \in Clients, e[c].call = "read", e[c].answer = "Ok"
        PROVE  /\ IF e[c].mark = 0 THEN e[c].values = << >>
                                   ELSE Len(e[c].values) \in 1..e[c].mark
               /\ \A i \in DOMAIN e[c].values : /\ e[c].values[i] = e[c].values[1] + i - 1
                                                /\ e[c].values[i] <= num
    <3>1. e[c] = d[c] /\ d[c].call = "read" /\ d[c].answer = "Ok"
      BY <2>1, <2>3
    <3>2. /\ IF d[c].mark = 0 THEN d[c].values = << >>
                               ELSE Len(d[c].values) \in 1..d[c].mark
          /\ \A i \in DOMAIN d[c].values : /\ d[c].values[i] = d[c].values[1] + i - 1
                                           /\ d[c].values[i] <= num
      BY <3>1, <1>8 DEF ReadsTold
    <3> QED BY <3>1, <3>2
  <2>4. ASSUME NEW c \in Clients, e[c].call = "read", e[c].answer = "Ok",
               NEW o \in Clients \ {c}, NEW i \in DOMAIN e[c].values,
               NEW j \in DOMAIN e[o].values
        PROVE  e[o].values[j] # e[c].values[i]
    <3>1. e[c] = d[c] /\ d[c].call = "read" /\ d[c].answer = "Ok" /\ e[o].values = d[o].values
      BY <2>1, <2>2, <2>4
    <3>2. \A m \in DOMAIN d[c].values : \A n \in DOMAIN d[o].values :
            d[o].values[n] # d[c].values[m]
      BY <3>1, <1>8 DEF ReadsTold
    <3> QED BY <3>1, <3>2
  <2>5. ASSUME NEW c \in Clients, e[c].call = "read", e[c].answer = "Eof" PROVE ended
    BY <2>1, <2>5, <1>8 DEF ReadsTold
  <2> QED BY <2>3, <2>4, <2>5 DEF ReadsTold
<1>9. ASSUME NEW num, NEW ended, FlushesTold(d, num, ended) PROVE FlushesTold(e, num, TRUE)
  <2>1. ASSUME NEW c \in Clients, e[c].call = "flushed"
        PROVE  e[c].answer # "pending" /\ (e[c].answer = "Ok" <=> num >= e[c].mark)
    <3>1. d[c].call = "flushed" /\ e[c].mark = d[c].mark
          /\ (d[c].answer = "Ok" <=> num >= d[c].mark)
      BY <1>1, <1>9, <2>1 DEF FlushesTold
    <3>2. CASE d[c].answer = "pending"
      BY <3>1, <3>2, <1>1 DEF Waits
    <3>3. CASE d[c].answer # "pending"
      BY <3>1, <3>3, <1>1 DEF Waits
    <3> QED BY <3>2, <3>3
  <2> QED BY <2>1 DEF FlushesTold
<1> QED BY <1>1, <1>4, <1>6, <1>7, <1>8, <1>9 DEF Placed, e

-----------------------------------------------------------------------------
(* The invariant of the clients.                                           *)
PushbacksKept(d, known) ==
  \A c \in Clients : d[c].call \in {"pushback", "with_write"} => d[c].mark \in known

CInv ==
  /\ Placed(deferred, blocked_reads, blocked_flushes)
  /\ FlushesTold(deferred, num_values_read, read_closed)
  /\ ReadsTold(deferred, num_values_read, closed /\ IsEmpty)
  /\ PushbacksKept(deferred, filled \cup {pushback})
  /\ read_closed => IsEmpty

(* In the step that hands out values, a flush says `Ok when its last value *)
(* is among them, and no client starts or forgets a call.                  *)
Moved(d, e, now) ==
  \A c \in Clients :
    /\ e[c].call = d[c].call /\ e[c].mark = d[c].mark
    /\ d[c].call = "flushed" =>
         e[c].answer = IF d[c].answer = "pending" /\ d[c].mark <= now
                       THEN "Ok" ELSE d[c].answer

(* No pushback ivar that is full or the pipe's own stops being so.         *)
LEMMA PushbackRemains ==
  ASSUME TypeOK, UpdatePushback
  PROVE  filled \cup {pushback} \subseteq filled' \cup {pushback'}
<1>1. pushback \in Nat
  BY DEF TypeOK
<1> QED BY <1>1 DEF UpdatePushback, NewPushback

LEMMA QueuesTyped ==
  ASSUME TypeOK
  PROVE  /\ blocked_reads \in Seq(ReadType) /\ blocked_flushes \in Seq(FlushType)
         /\ deferred \in [Clients -> DeferredType] /\ num_values_read \in Nat
         /\ pushback \in Nat
  BY DEF TypeOK, ReadType, FlushType, DeferredType

(* Handing out values keeps the clients' invariant, and moves values as    *)
(* the channel does.                                                       *)
LEMMA ConsumeAnswers ==
  ASSUME IInv, NEW n \in Nat, n > 0 => ~closed, NEW reads \in Seq(ReadType),
         NEW d \in [Clients -> DeferredType], Consume(reads, Enqueued(n), d),
         Placed(d, reads, blocked_flushes), FlushesTold(d, num_values_read, FALSE),
         ReadsTold(d, num_values_read, FALSE)
  PROVE  /\ Placed(deferred', blocked_reads', blocked_flushes')
         /\ FlushesTold(deferred', num_values_read', FALSE)
         /\ ReadsTold(deferred', num_values_read', FALSE)
         /\ Moved(d, deferred', num_values_read')
         /\ \E m \in 0..Len(Enqueued(n)) :
              /\ buffer' = SubSeq(Enqueued(n), m + 1, Len(Enqueued(n)))
              /\ delivered' = delivered \o SubSeq(Enqueued(n), 1, m)
              /\ num_values_read' = num_values_read + m
         /\ UpdatePushback /\ UNCHANGED <<closed, read_closed>>
<1>1. PICK buf : buf = Enqueued(n)
  OBVIOUS
<1>2. buf \in Seq(Nat) /\ ReadyToConsume(buf) /\ TypeOK
  BY <1>1, EnqueuedReady DEF IInv
<1>3. /\ OnePlace(d, reads, "read") /\ OnePlace(d, blocked_flushes, "flushed")
  BY DEF Placed
<1>4. PICK cut, k, f :
           /\ Cutting(reads, Len(buf), cut, k)
           /\ f \in 0..Len(blocked_flushes)
           /\ \A i \in 1..f :
                blocked_flushes[i].fill_when_num_values_read <= num_values_read + cut[k]
           /\ Handed(reads, blocked_flushes, buf, d, deferred', cut, k, f)
           /\ buffer' = SubSeq(buf, cut[k] + 1, Len(buf))
           /\ num_values_read' = num_values_read + cut[k]
           /\ delivered' = delivered \o SubSeq(buf, 1, cut[k])
           /\ blocked_reads' = SubSeq(reads, k + 1, Len(reads))
           /\ blocked_flushes' = SubSeq(blocked_flushes, f + 1, Len(blocked_flushes))
           /\ UpdatePushback
           /\ UNCHANGED <<size_budget, closed, read_closed>>
  <2>1. Consume(reads, buf, d)
    BY <1>1
  <2> QED BY <2>1, <1>2, <1>3, HandedOut
<1>5. PICK m : m = cut[k]
  OBVIOUS
<1>6. /\ blocked_flushes \in Seq(FlushType) /\ num_values_read \in Nat
      /\ Len(reads) \in Nat /\ Len(buf) \in Nat
      /\ k \in 0..Len(reads) /\ m \in 0..Len(buf)
  BY <1>2, <1>4, <1>5, QueuesTyped, LenProperties DEF Cutting
<1>7. PICK num \in Nat, now \in Nat :
        num = num_values_read /\ now = num_values_read' /\ now = num + m /\ num <= now
  <2>1. m \in Nat
    BY <1>6
  <2>2. num_values_read' = num_values_read + m
    BY <1>4, <1>5
  <2>3. num_values_read' \in Nat /\ num_values_read <= num_values_read'
    BY <2>1, <2>2, <1>6
  <2> QED BY <2>2, <2>3, <1>6
<1>8. PICK flushes \in Seq(FlushType) : flushes = blocked_flushes
  BY <1>6
<1>9. Placed(deferred', blocked_reads', blocked_flushes')
  <2>1. /\ Placed(d, reads, flushes) /\ f \in 0..Len(flushes)
        /\ Handed(reads, flushes, buf, d, deferred', cut, k, f)
    BY <1>4, <1>8
  <2>2. Placed(deferred', SubSeq(reads, k + 1, Len(reads)), SubSeq(flushes, f + 1, Len(flushes)))
    BY <2>1, <1>6, HandedPlaced
  <2> QED BY <2>2, <1>4, <1>8
<1>10. FlushesTold(deferred', now, FALSE)
  <2>1. /\ Placed(d, reads, flushes) /\ f \in 0..Len(flushes)
        /\ Handed(reads, flushes, buf, d, deferred', cut, k, f)
        /\ \A i \in 1..f : flushes[i].fill_when_num_values_read <= now
        /\ FlushesTold(d, num, FALSE)
    BY <1>4, <1>7, <1>8
  <2>2. AllAhead(SubSeq(flushes, f + 1, Len(flushes)), now)
    <3>1. FlushesAhead'
      BY <1>1, <1>2, ConsumeInvariant DEF ReadType
    <3>2. AllAhead(blocked_flushes', num_values_read')
      BY <3>1 DEF FlushesAhead, AllAhead
    <3> QED BY <3>2, <1>4, <1>7, <1>8
  <2> QED BY <2>1, <2>2, <1>6, <1>7, HandedFlushes
<1>11. ReadsTold(deferred', now, FALSE)
  <2>1. /\ Placed(d, reads, flushes) /\ f \in 0..Len(flushes)
        /\ Handed(reads, flushes, buf, d, deferred', cut, k, f)
        /\ ReadsTold(d, num, FALSE) /\ now = num + cut[k]
    BY <1>4, <1>5, <1>7, <1>8
  <2>2. Numbered(buf, num)
    BY <1>2, <1>7 DEF ReadyToConsume, InOrder, Numbered
  <2>3. Cutting(reads, Len(buf), cut, k) /\ buf \in Seq(Nat) /\ k \in 0..Len(reads)
    BY <1>2, <1>4, <1>6
  <2> QED BY <2>1, <2>2, <2>3, HandedReads
<1>12. Moved(d, deferred', now)
  <2>1. /\ Placed(d, reads, flushes) /\ f \in 0..Len(flushes)
        /\ Handed(reads, flushes, buf, d, deferred', cut, k, f)
    BY <1>4, <1>8
  <2>2. Outcomes(reads, flushes, buf, d, deferred', cut, k, f)
    BY <2>1, <1>6, HandedTo
  <2>3. SUFFICES ASSUME NEW c \in Clients
                 PROVE  /\ deferred'[c].call = d[c].call /\ deferred'[c].mark = d[c].mark
                        /\ d[c].call = "flushed" => deferred'[c].answer =
                             IF d[c].answer = "pending" /\ d[c].mark <= now
                             THEN "Ok" ELSE d[c].answer
    BY DEF Moved
  <2>4. d[c] \in DeferredType
    OBVIOUS
  <2>5. d[c].mark \in Nat
    BY <2>4 DEF DeferredType
  <2>6. /\ deferred'[c].call = d[c].call /\ deferred'[c].mark = d[c].mark
        /\ \/ Waits(d[c], "read")
           \/ Waits(d[c], "flushed") /\ deferred'[c].answer = "Ok"
           \/ deferred'[c] = d[c]
    BY <2>2 DEF Outcomes
  <2>7. ASSUME d[c].call = "flushed"
        PROVE  /\ deferred'[c].answer = "Ok" <=> now >= d[c].mark
               /\ d[c].answer = "pending" => ~(num >= d[c].mark)
    <3>1. d[c].answer = "Ok" <=> num >= d[c].mark
      BY <1>7, <2>7 DEF FlushesTold
    <3>2. deferred'[c].answer = "Ok" <=> now >= deferred'[c].mark
      BY <1>10, <2>6, <2>7 DEF FlushesTold
    <3> QED BY <2>6, <3>1, <3>2
  <2> QED BY <2>5, <2>6, <2>7, <1>7 DEF Waits
<1>13. \E o \in 0..Len(Enqueued(n)) :
              /\ buffer' = SubSeq(Enqueued(n), o + 1, Len(Enqueued(n)))
              /\ delivered' = delivered \o SubSeq(Enqueued(n), 1, o)
              /\ num_values_read' = num_values_read + o
  BY <1>1, <1>4, <1>5, <1>6
<1> QED BY <1>4, <1>7, <1>9, <1>10, <1>11, <1>12, <1>13

LEMMA QueuedAsPlaced ==
  ASSUME NEW S, NEW q \in Seq(S), NEW d, NEW call, OnePlace(d, q, call), NEW c \in Clients
  PROVE  IF Waits(d[c], call) THEN QueuedOnce(c, q) ELSE c \notin ClientsOf(q)
<1>1. DOMAIN q = 1..Len(q)
  BY LenProperties
<1>2. CASE Waits(d[c], call)
  <2>1. PICK i \in 1..Len(q) : q[i].client = c
    BY <1>2 DEF OnePlace
  <2>2. \A j \in 1..Len(q) : q[j].client = c <=> j = i
    BY <2>1 DEF OnePlace
  <2> QED BY <2>2, <1>1, <1>2 DEF QueuedOnce
<1>3. CASE ~Waits(d[c], call)
  <2>1. \A i \in 1..Len(q) : q[i].client # c
    BY <1>3 DEF OnePlace
  <2> QED BY <2>1, <1>1, <1>3 DEF ClientsOf
<1> QED BY <1>2, <1>3

(* The invariant of the clients says what the checked properties say.      *)
LEMMA ClientsServed == IInv /\ CInv => NoForgottenDeferred /\ AnswersTrue
<1> SUFFICES ASSUME IInv, CInv PROVE NoForgottenDeferred /\ AnswersTrue
  OBVIOUS
<1>1. /\ blocked_reads \in Seq(ReadType) /\ blocked_flushes \in Seq(FlushType)
  BY QueuesTyped DEF IInv
<1>3. /\ OnePlace(deferred, blocked_reads, "read")
      /\ OnePlace(deferred, blocked_flushes, "flushed")
  BY DEF CInv, Placed
<1>4. ASSUME NEW c \in Clients
      PROVE  /\ IF Waits(deferred[c], "read") THEN QueuedOnce(c, blocked_reads)
                                              ELSE c \notin ClientsOf(blocked_reads)
             /\ IF Waits(deferred[c], "flushed") THEN QueuedOnce(c, blocked_flushes)
                                                 ELSE c \notin ClientsOf(blocked_flushes)
  BY <1>1, <1>3, QueuedAsPlaced
<1>5. NoForgottenDeferred
  <2>1. \A c \in Clients : AwaitsPushback(c) => deferred[c].mark \in filled \cup {pushback}
    BY DEF CInv, PushbacksKept, AwaitsPushback
  <2> QED BY <1>4, <2>1 DEF NoForgottenDeferred, Waits
<1>6. num_values_read = Len(delivered)
  BY DEF IInv, FifoDelivery
<1>7. FlushTruth
  BY <1>6 DEF CInv, FlushesTold, FlushTruth
<1>8. ReadAnswers
  BY DEF CInv, ReadsTold, ReadAnswers
<1> QED BY <1>5, <1>7, <1>8 DEF AnswersTrue

-----------------------------------------------------------------------------
(* One lemma per operation: it keeps the clients' invariant and is a step  *)
(* of the channel or no step of it.                                        *)
AInv == IInv /\ CInv

(* The channel's flush of a client.                                        *)
FlushOf(x) == IF x.call = "flushed" THEN [until |-> x.mark, answer |-> x.answer]
                                    ELSE [until |-> 0, answer |-> "none"]

LEMMA ChannelRests ==
  ASSUME UNCHANGED <<buffer, delivered, closed, read_closed>>,
         \A c \in Clients : FlushOf(deferred'[c]) = FlushOf(deferred[c])
  PROVE  UNCHANGED C!vars
BY DEF C!vars, FlushOf

LEMMA ChannelMoves ==
  ASSUME AInv, NEW n \in 0..MaxWritten, n > 0 => ~closed,
         NEW d, Moved(d, deferred', num_values_read'),
         \A c \in Clients : FlushOf(d[c]) = FlushOf(deferred[c]),
         NEW m \in 0..Len(Enqueued(n)),
         buffer' = SubSeq(Enqueued(n), m + 1, Len(Enqueued(n))),
         delivered' = delivered \o SubSeq(Enqueued(n), 1, m),
         num_values_read' = num_values_read + m,
         UNCHANGED <<closed, read_closed>>
  PROVE  C!Next
<1>1. /\ num_values_read = Len(delivered)
      /\ n > 0 => written = Len(delivered) + Len(buffer)
      /\ Len(Enqueued(n)) = Len(buffer) + n /\ Len(buffer) \in Nat /\ n \in Nat
  <2>1. n \in Nat
    BY PipeAssumption
  <2>2. Len(Enqueued(n)) = Len(buffer) + n
    BY <2>1, EnqueuedReady DEF AInv
  <2>3. Len(buffer) \in Nat
    BY LenProperties DEF AInv, IInv, TypeOK
  <2> QED BY <2>1, <2>2, <2>3 DEF AInv, IInv, FifoDelivery, Strengthening, Length
<1>2. Enqueued(n) = buffer \o [i \in 1..n |-> C!Count + i]
  <2>1. \A i \in 1..n : written + i = C!Count + i
    BY <1>1 DEF C!Count
  <2>2. [i \in 1..n |-> written + i] = [i \in 1..n |-> C!Count + i]
    BY <2>1
  <2> QED BY <2>2 DEF Enqueued
<1>3. ASSUME NEW c \in Clients
      PROVE  FlushOf(deferred'[c]) =
               IF FlushOf(deferred[c]).answer = "pending"
                    /\ FlushOf(deferred[c]).until <= num_values_read'
               THEN [FlushOf(deferred[c]) EXCEPT !.answer = "Ok"] ELSE FlushOf(deferred[c])
  <2>1. FlushOf(deferred[c]) = FlushOf(d[c])
    OBVIOUS
  <2>2. /\ deferred'[c].call = d[c].call /\ deferred'[c].mark = d[c].mark
        /\ d[c].call = "flushed" =>
             deferred'[c].answer = IF d[c].answer = "pending" /\ d[c].mark <= num_values_read'
                                   THEN "Ok" ELSE d[c].answer
    BY DEF Moved
  <2>3. CASE d[c].call = "flushed"
    <3>1. FlushOf(d[c]) = [until |-> d[c].mark, answer |-> d[c].answer]
      BY <2>3 DEF FlushOf
    <3>2. FlushOf(deferred'[c]) = [until |-> d[c].mark, answer |-> deferred'[c].answer]
      BY <2>2, <2>3 DEF FlushOf
    <3> QED BY <2>1, <2>2, <2>3, <3>1, <3>2
  <2>4. CASE d[c].call # "flushed"
    BY <2>1, <2>2, <2>4 DEF FlushOf
  <2> QED BY <2>3, <2>4
<1>4. C!Move(n, m)
  <2>1. [c \in Clients |-> FlushOf(deferred'[c])] = [c \in Clients |->
           IF FlushOf(deferred[c]).answer = "pending"
                    /\ FlushOf(deferred[c]).until <= Len(delivered) + m
               THEN [FlushOf(deferred[c]) EXCEPT !.answer = "Ok"] ELSE FlushOf(deferred[c])]
    BY <1>1, <1>3
  <2> QED BY <1>1, <1>2, <2>1 DEF C!Move, C!Reached, FlushOf
<1>5. m \in 0..(n + Len(buffer))
  BY <1>1
<1> QED BY <1>4, <1>5 DEF C!Next

(* An operation that hands out values.                                     *)
LEMMA HandOutStep ==
  ASSUME AInv, NEW n \in 0..MaxWritten, n > 0 => ~closed, ~read_closed,
         NEW reads \in Seq(ReadType), NEW d \in [Clients -> DeferredType],
         Consume(reads, Enqueued(n), d),
         Placed(d, reads, blocked_flushes), FlushesTold(d, num_values_read, FALSE),
         ReadsTold(d, num_values_read, FALSE),
         PushbacksKept(d, filled' \cup {pushback'}),
         \A c \in Clients : FlushOf(d[c]) = FlushOf(deferred[c])
  PROVE  CInv' /\ C!Next
<1>1. IInv /\ n \in Nat
  BY PipeAssumption DEF AInv
<1>2. /\ Placed(deferred', blocked_reads', blocked_flushes')
      /\ FlushesTold(deferred', num_values_read', FALSE)
      /\ ReadsTold(deferred', num_values_read', FALSE)
      /\ Moved(d, deferred', num_values_read')
      /\ \E m \in 0..Len(Enqueued(n)) :
           /\ buffer' = SubSeq(Enqueued(n), m + 1, Len(Enqueued(n)))
           /\ delivered' = delivered \o SubSeq(Enqueued(n), 1, m)
           /\ num_values_read' = num_values_read + m
      /\ UNCHANGED <<closed, read_closed>>
  BY <1>1, ConsumeAnswers
<1>3. PushbacksKept(deferred', filled' \cup {pushback'})
  BY <1>2 DEF PushbacksKept, Moved
<1>4. CInv'
  <2>1. FlushesTold(deferred', num_values_read', read_closed')
    BY <1>2 DEF FlushesTold
  <2>2. ReadsTold(deferred', num_values_read', (closed /\ IsEmpty)')
    BY <1>2 DEF ReadsTold
  <2> QED BY <1>2, <1>3, <2>1, <2>2 DEF CInv
<1>5. C!Next
  BY <1>2, ChannelMoves
<1> QED BY <1>4, <1>5

(* Client c gives up a deferred that says no more for one that says nothing.*)
Quiet(x) == x.call \notin {"read", "flushed"}

LEMMA QuietRenewal ==
  ASSUME AInv, NEW c \in Clients, ~Waits(deferred[c], "read"), ~Waits(deferred[c], "flushed"),
         NEW x, Fresh(x), Quiet(x), NEW d, d = [deferred EXCEPT ![c] = x]
  PROVE  /\ d \in [Clients -> DeferredType]
         /\ Placed(d, blocked_reads, blocked_flushes)
         /\ FlushesTold(d, num_values_read, read_closed)
         /\ ReadsTold(d, num_values_read, closed /\ IsEmpty)
         /\ \A known : /\ filled \cup {pushback} \subseteq known
                       /\ x.call \in {"pushback", "with_write"} => x.mark \in known
                       => PushbacksKept(d, known)
         /\ Quiet(deferred[c]) => \A o \in Clients : FlushOf(d[o]) = FlushOf(deferred[o])
<1>1. /\ blocked_reads \in Seq(ReadType) /\ blocked_flushes \in Seq(FlushType)
      /\ deferred \in [Clients -> DeferredType]
  BY QueuesTyped DEF AInv, IInv
<1>2. /\ Placed(deferred, blocked_reads, blocked_flushes)
      /\ FlushesTold(deferred, num_values_read, read_closed)
      /\ ReadsTold(deferred, num_values_read, closed /\ IsEmpty)
      /\ PushbacksKept(deferred, filled \cup {pushback})
  BY DEF AInv, CInv
<1>3. /\ ~Waits(x, "read") /\ ~Waits(x, "flushed") /\ x \in DeferredType
      /\ x.call # "read" /\ x.call # "flushed"
  BY DEF Waits, Quiet, Fresh
<1>4. Placed(d, blocked_reads, blocked_flushes)
  BY <1>1, <1>2, <1>3, RenewedPlaced DEF IdleIn
<1>5. /\ FlushesTold(d, num_values_read, read_closed)
      /\ ReadsTold(d, num_values_read, closed /\ IsEmpty)
  BY <1>1, <1>2, <1>3, RenewedTold
<1>6. d[c] = x /\ \A o \in Clients \ {c} : d[o] = deferred[o]
  BY <1>1
<1>7. d \in [Clients -> DeferredType]
  BY <1>1, <1>3
<1>8. ASSUME NEW known, filled \cup {pushback} \subseteq known,
             x.call \in {"pushback", "with_write"} => x.mark \in known
      PROVE  PushbacksKept(d, known)
  BY <1>2, <1>6, <1>8 DEF PushbacksKept
<1>9. ASSUME Quiet(deferred[c]), NEW o \in Clients PROVE FlushOf(d[o]) = FlushOf(deferred[o])
  BY <1>3, <1>6, <1>9 DEF FlushOf, Quiet
<1> QED BY <1>4, <1>5, <1>7, <1>8, <1>9

(* Steps of the clients' deferreds only.                                   *)
LEMMA QuietStep ==
  ASSUME AInv, NEW c \in Clients, NEW x, Fresh(x), Quiet(x),
         ~Waits(deferred[c], "read"), ~Waits(deferred[c], "flushed"),
         deferred' = [deferred EXCEPT ![c] = x],
         x.call = "with_write" => x.mark \in filled \cup {pushback}, x.call # "pushback",
         UNCHANGED <<pipeVars, history>>
  PROVE  CInv' /\ [C!Next]_(C!vars)
<1>1. UNCHANGED <<buffer, pushback, filled, num_values_read, blocked_flushes, blocked_reads,
                  closed, delivered, read_closed>>
  BY DEF pipeVars, history
<1>2. /\ Placed(deferred', blocked_reads, blocked_flushes)
      /\ FlushesTold(deferred', num_values_read, read_closed)
      /\ ReadsTold(deferred', num_values_read, closed /\ IsEmpty)
      /\ PushbacksKept(deferred', filled \cup {pushback})
      /\ Quiet(deferred[c]) => \A o \in Clients : FlushOf(deferred'[o]) = FlushOf(deferred[o])
  BY QuietRenewal
<1>3. CInv'
  BY <1>1, <1>2 DEF AInv, CInv, IsEmpty
<1>4. CASE Quiet(deferred[c])
  <2>1. UNCHANGED C!vars
    BY <1>1, <1>2, <1>4, ChannelRests
  <2> QED BY <1>3, <2>1
<1>5. CASE deferred[c].call = "read"
  <2>1. \A o \in Clients : FlushOf(deferred'[o]) = FlushOf(deferred[o])
    <3>1. deferred'[c] = x /\ \A o \in Clients \ {c} : deferred'[o] = deferred[o]
      BY DEF AInv, IInv, TypeOK
    <3> QED BY <3>1, <1>5 DEF FlushOf, Quiet
  <2>2. UNCHANGED C!vars
    BY <1>1, <2>1, ChannelRests
  <2> QED BY <1>3, <2>2
<1>6. CASE deferred[c].call = "flushed"
  <2>1. /\ deferred'[c] = x /\ \A o \in Clients \ {c} : deferred'[o] = deferred[o]
    BY DEF AInv, IInv, TypeOK
  <2>2. /\ FlushOf(deferred'[c]) = [until |-> 0, answer |-> "none"]
        /\ FlushOf(deferred[c]).answer = deferred[c].answer
    BY <2>1, <1>6 DEF FlushOf, Quiet
  <2>3. deferred[c].answer \notin {"none", "pending"}
    BY <1>6 DEF AInv, CInv, Placed, AnswersFit, Waits
  <2>4. C!ForgetFlush(c)
    <3>1. [o \in Clients |-> FlushOf(deferred'[o])] =
            [[o \in Clients |-> FlushOf(deferred[o])] EXCEPT ![c] = C!NoFlush]
      <4>1. \A o \in Clients : FlushOf(deferred'[o]) =
                                IF o = c THEN C!NoFlush ELSE FlushOf(deferred[o])
        BY <2>1, <2>2 DEF C!NoFlush
      <4> QED BY <4>1
    <3> QED BY <1>1, <2>2, <2>3, <3>1 DEF C!ForgetFlush, FlushOf
  <2> QED BY <1>3, <2>4 DEF C!Next
<1> QED BY <1>4, <1>5, <1>6 DEF Quiet

LEMMA QuietFresh ==
  ASSUME NEW a \in {"none", "pushback", "with_write"}, NEW m \in Nat
  PROVE  LET x == Deferred(a, "none", << >>, m)
         IN  Fresh(x) /\ Quiet(x) /\ x.call = a /\ x.mark = m
<1> DEFINE x == Deferred(a, "none", << >>, m)
<1>1. x \in DeferredType
  BY EmptySeq, DeferredTyped
<1>2. x.values = << >> /\ x.call = a /\ x.mark = m
  BY DEF Deferred
<1> HIDE DEF x
<1>3. Fresh(x) /\ Quiet(x)
  BY <1>1, <1>2 DEF Fresh, Quiet
<1> QED BY <1>2, <1>3 DEF x

LEMMA WithWriteAnswers ==
  ASSUME AInv, NEW c \in Clients, WithWrite(c) PROVE CInv' /\ [C!Next]_(C!vars)
<1>1. pushback \in Nat
  BY QueuesTyped DEF AInv, IInv
<1>2. PICK x : x = Deferred("with_write", "none", << >>, pushback)
  OBVIOUS
<1>3. Fresh(x) /\ Quiet(x) /\ x.call = "with_write" /\ x.mark = pushback
  BY <1>1, <1>2, QuietFresh
<1> QED BY <1>2, <1>3, QuietStep DEF WithWrite, Idle, Waits

LEMMA CallbackAnswers ==
  ASSUME AInv, NEW c \in Clients, Callback(c) PROVE CInv' /\ [C!Next]_(C!vars)
<1>1. PICK x : x = NoDeferred
  OBVIOUS
<1>2. Fresh(x) /\ Quiet(x) /\ x.call = "none"
  BY <1>1, QuietFresh DEF NoDeferred
<1>3. ~Waits(deferred[c], "read") /\ ~Waits(deferred[c], "flushed")
  BY DEF Callback, IsDetermined, AwaitsPushback, Waits
<1> QED BY <1>1, <1>2, <1>3, QuietStep DEF Callback

LEMMA WriteAnswers ==
  ASSUME AInv, NEW n \in Nat, NEW d \in [Clients -> DeferredType], WriteValues(n, d),
         Placed(d, blocked_reads, blocked_flushes),
         FlushesTold(d, num_values_read, read_closed),
         ReadsTold(d, num_values_read, closed /\ IsEmpty),
         PushbacksKept(d, filled' \cup {pushback'}),
         \A c \in Clients : FlushOf(d[c]) = FlushOf(deferred[c])
  PROVE  CInv' /\ C!Next
<1>1. ~closed /\ written + n <= MaxWritten /\ Consume(blocked_reads, Enqueued(n), d)
  BY DEF WriteValues, Accepts
<1>2. ~read_closed /\ blocked_reads \in Seq(ReadType) /\ n \in 0..MaxWritten
  <2>1. written \in Nat
    BY DEF AInv, IInv, TypeOK
  <2>2. n \in 0..MaxWritten
    BY <1>1, <2>1, PipeAssumption
  <2>3. ~read_closed
    BY <1>1 DEF AInv, IInv, Strengthening
  <2> QED BY <2>2, <2>3, QueuesTyped DEF AInv, IInv
<1>3. FlushesTold(d, num_values_read, FALSE) /\ ReadsTold(d, num_values_read, FALSE)
  BY <1>1, <1>2 DEF FlushesTold, ReadsTold
<1> QED BY <1>1, <1>2, <1>3, HandOutStep

LEMMA PushbackKnown ==
  ASSUME AInv, NEW n, NEW d, WriteValues(n, d)
  PROVE  filled \cup {pushback} \subseteq filled' \cup {pushback'} /\ pushback' \in Nat
<1>1. UpdatePushback
  BY DEF WriteValues, Consume, ConsumeUpTo
<1> QED BY <1>1, PushbackRemains, PushbackTyped DEF AInv, IInv

LEMMA WriteNoPushbackAnswers ==
  ASSUME AInv, WriteNoPushback PROVE CInv' /\ C!Next
<1>1. PICK d : d = deferred
  OBVIOUS
<1>2. WriteValues(1, d)
  BY <1>1 DEF WriteNoPushback
<1>3. /\ d \in [Clients -> DeferredType] /\ Placed(d, blocked_reads, blocked_flushes)
      /\ FlushesTold(d, num_values_read, read_closed)
      /\ ReadsTold(d, num_values_read, closed /\ IsEmpty)
      /\ PushbacksKept(d, filled \cup {pushback})
  BY <1>1, QueuesTyped DEF AInv, IInv, CInv
<1>4. PushbacksKept(d, filled' \cup {pushback'})
  BY <1>2, <1>3, PushbackKnown DEF PushbacksKept
<1>5. \A c \in Clients : FlushOf(d[c]) = FlushOf(deferred[c])
  BY <1>1
<1> QED BY <1>2, <1>3, <1>4, <1>5, WriteAnswers

LEMMA PushbackWriteAnswers ==
  ASSUME AInv, NEW c \in Clients, NEW n \in 0..MaxBatch, Write(c, n)
  PROVE  CInv' /\ C!Next
<1>1. PICK x : x = Deferred("pushback", "none", << >>, pushback')
  OBVIOUS
<1>2. PICK d : d = [deferred EXCEPT ![c] = x]
  OBVIOUS
<1>3. Idle(c) /\ WriteValues(n, d) /\ n \in Nat
  BY <1>1, <1>2, PipeAssumption DEF Write
<1>4. filled \cup {pushback} \subseteq filled' \cup {pushback'} /\ pushback' \in Nat
  BY <1>3, PushbackKnown
<1>5. Fresh(x) /\ Quiet(x) /\ x.call = "pushback" /\ x.mark = pushback'
  BY <1>1, <1>4, QuietFresh
<1>6. /\ d \in [Clients -> DeferredType]
      /\ Placed(d, blocked_reads, blocked_flushes)
      /\ FlushesTold(d, num_values_read, read_closed)
      /\ ReadsTold(d, num_values_read, closed /\ IsEmpty)
      /\ \A known : /\ filled \cup {pushback} \subseteq known
                    /\ x.call \in {"pushback", "with_write"} => x.mark \in known
                    => PushbacksKept(d, known)
      /\ Quiet(deferred[c]) => \A o \in Clients : FlushOf(d[o]) = FlushOf(deferred[o])
  <2>1. ~Waits(deferred[c], "read") /\ ~Waits(deferred[c], "flushed")
    BY <1>3 DEF Idle, Waits
  <2> QED BY <1>2, <1>5, <2>1, QuietRenewal
<1>7. PushbacksKept(d, filled' \cup {pushback'})
  BY <1>4, <1>5, <1>6
<1>8. Quiet(deferred[c])
  BY <1>3 DEF Idle, Quiet
<1> QED BY <1>3, <1>6, <1>7, <1>8, WriteAnswers

LEMMA WithWriteCallbackAnswers ==
  ASSUME AInv, NEW c \in Clients, NEW n \in {0, 1}, WithWriteCallback(c, n)
  PROVE  CInv' /\ [C!Next]_(C!vars)
<1>1. PICK x : x = NoDeferred
  OBVIOUS
<1>2. PICK d : d = [deferred EXCEPT ![c] = x]
  OBVIOUS
<1>3. Fresh(x) /\ Quiet(x) /\ x.call = "none"
  BY <1>1, QuietFresh DEF NoDeferred
<1>4. /\ deferred[c].call = "with_write"
      /\ ~Waits(deferred[c], "read") /\ ~Waits(deferred[c], "flushed")
      /\ \/ closed /\ deferred' = d /\ UNCHANGED <<pipeVars, history>>
         \/ WriteValues(n, d)
  BY <1>1, <1>2 DEF WithWriteCallback, Waits
<1>5. CASE closed /\ deferred' = d /\ UNCHANGED <<pipeVars, history>>
  BY <1>2, <1>3, <1>4, <1>5, QuietStep
<1>6. CASE WriteValues(n, d)
  <2>1. /\ d \in [Clients -> DeferredType]
        /\ Placed(d, blocked_reads, blocked_flushes)
        /\ FlushesTold(d, num_values_read, read_closed)
        /\ ReadsTold(d, num_values_read, closed /\ IsEmpty)
        /\ \A known : /\ filled \cup {pushback} \subseteq known
                      /\ x.call \in {"pushback", "with_write"} => x.mark \in known
                      => PushbacksKept(d, known)
        /\ Quiet(deferred[c]) => \A o \in Clients : FlushOf(d[o]) = FlushOf(deferred[o])
    BY <1>2, <1>3, <1>4, QuietRenewal
  <2>2. PushbacksKept(d, filled' \cup {pushback'})
    BY <1>3, <1>6, <2>1, PushbackKnown
  <2>3. Quiet(deferred[c]) /\ n \in Nat
    BY <1>4 DEF Quiet
  <2> QED BY <1>6, <2>1, <2>2, <2>3, WriteAnswers
<1> QED BY <1>4, <1>5, <1>6

LEMMA ReadAnswersStep ==
  ASSUME AInv, NEW c \in Clients, NEW n \in Wants, Read(c, n)
  PROVE  CInv' /\ [C!Next]_(C!vars)
<1> DEFINE asked(answer) == [deferred EXCEPT ![c] = Deferred("read", answer, << >>, n)]
           r == [wants |-> n, client |-> c]
<1>1. n \in Nat /\ r \in ReadType
  BY PipeAssumption DEF Wants, All, ReadType
<1>2. /\ blocked_reads \in Seq(ReadType) /\ blocked_flushes \in Seq(FlushType)
      /\ deferred \in [Clients -> DeferredType] /\ num_values_read \in Nat
  BY QueuesTyped DEF AInv, IInv
<1>3. /\ Placed(deferred, blocked_reads, blocked_flushes)
      /\ FlushesTold(deferred, num_values_read, read_closed)
      /\ ReadsTold(deferred, num_values_read, closed /\ IsEmpty)
      /\ PushbacksKept(deferred, filled \cup {pushback})
      /\ read_closed => IsEmpty
  BY DEF AInv, CInv
<1>4. IdleIn(deferred, c) /\ Quiet(deferred[c])
  BY DEF Read, Idle, IdleIn, Waits, Quiet
(* the client holds x instead *)
<1>5. ASSUME NEW a \in {"pending", "Eof"}, a = "Eof" => closed /\ IsEmpty
      PROVE  LET x == Deferred("read", a, << >>, n)
                 d == asked(a)
             IN  /\ d \in [Clients -> DeferredType] /\ Fresh(x)
                 /\ FlushesTold(d, num_values_read, read_closed)
                 /\ ReadsTold(d, num_values_read, closed /\ IsEmpty)
                 /\ a = "pending" => Placed(d, Append(blocked_reads, r), blocked_flushes)
                 /\ a = "Eof" => Placed(d, blocked_reads, blocked_flushes)
                 /\ PushbacksKept(d, filled \cup {pushback})
                 /\ \A o \in Clients : FlushOf(d[o]) = FlushOf(deferred[o])
  <2>1. PICK x : x = Deferred("read", a, << >>, n)
    OBVIOUS
  <2>2. PICK d : d = [deferred EXCEPT ![c] = x]
    OBVIOUS
  <2>3. /\ x \in DeferredType /\ x.values = << >> /\ x.call = "read" /\ x.mark = n
        /\ x.answer = a
    <3>1. x \in DeferredType
      BY <1>1, <2>1, EmptySeq, DeferredTyped
    <3> QED BY <3>1, <2>1 DEF Deferred
  <2>4. Fresh(x)
    BY <2>3 DEF Fresh
  <2>5. d \in [Clients -> DeferredType]
    BY <1>2, <2>2, <2>3
  <2>6. d[c] = x /\ \A o \in Clients \ {c} : d[o] = deferred[o]
    BY <1>2, <2>2
  <2>7. FlushesTold(d, num_values_read, read_closed) /\ ReadsTold(d, num_values_read, closed /\ IsEmpty)
    BY <1>2, <1>3, <1>5, <2>2, <2>3, <2>4, RenewedTold
  <2>8. /\ a = "pending" => Placed(d, Append(blocked_reads, r), blocked_flushes)
        /\ a = "Eof" => Placed(d, blocked_reads, blocked_flushes)
    <3>1. /\ ~Waits(x, "read") /\ ~Waits(x, "flushed")
                => Placed(d, blocked_reads, blocked_flushes)
          /\ Waits(x, "read") =>
               Placed(d, Append(blocked_reads, [wants |-> x.mark, client |-> c]), blocked_flushes)
      BY <1>2, <1>3, <1>4, <2>2, <2>4, RenewedPlaced
    <3> QED BY <3>1, <2>3 DEF Waits
  <2>9. PushbacksKept(d, filled \cup {pushback})
    BY <1>3, <2>3, <2>6 DEF PushbacksKept
  <2>10. \A o \in Clients : FlushOf(d[o]) = FlushOf(deferred[o])
    BY <1>4, <2>3, <2>6 DEF FlushOf, Quiet
  <2> QED BY <2>1, <2>2, <2>4, <2>5, <2>7, <2>8, <2>9, <2>10
<1>6. CASE /\ ~IsEmpty /\ blocked_reads = << >>
           /\ Consume(<<r>>, buffer, asked("pending"))
  <2>1. PICK d : d = asked("pending")
    OBVIOUS
  <2>2. /\ d \in [Clients -> DeferredType]
        /\ FlushesTold(d, num_values_read, read_closed)
        /\ ReadsTold(d, num_values_read, closed /\ IsEmpty)
        /\ Placed(d, Append(blocked_reads, r), blocked_flushes)
        /\ PushbacksKept(d, filled \cup {pushback})
        /\ \A o \in Clients : FlushOf(d[o]) = FlushOf(deferred[o])
    BY <1>5, <2>1
  <2>3. PICK reads \in Seq(ReadType) : reads = <<r>>
    <3>1. <<r>> \in Seq(ReadType)
      BY <1>1
    <3> QED BY <3>1
  <2>4. Append(blocked_reads, r) = reads
    BY <1>6, <2>3
  <2>5. Enqueued(0) = buffer
    BY DEF AInv, IInv, TypeOK, Enqueued
  <2>6. Consume(reads, Enqueued(0), d)
    BY <1>6, <2>1, <2>3, <2>5
  <2>7. PushbacksKept(d, filled' \cup {pushback'})
    <3>1. UpdatePushback
      BY <2>6 DEF Consume, ConsumeUpTo
    <3> QED BY <3>1, <2>2, PushbackRemains DEF PushbacksKept, AInv, IInv
  <2>8. ~read_closed /\ FlushesTold(d, num_values_read, FALSE) /\ ReadsTold(d, num_values_read, FALSE)
    BY <1>3, <1>6, <2>2 DEF FlushesTold, ReadsTold
  <2>9. 0 \in 0..MaxWritten
    BY PipeAssumption
  <2>10. Placed(d, reads, blocked_flushes)
    BY <2>2, <2>4
  <2>11. 0 > 0 => ~closed
    OBVIOUS
  <2> QED BY <2>2, <2>6, <2>7, <2>8, <2>9, <2>10, <2>11, HandOutStep
<1>7. CASE /\ IsEmpty /\ closed /\ deferred' = asked("Eof")
           /\ UNCHANGED <<blocked_reads, waiting>>
           /\ UNCHANGED <<buffer, size_budget, pushback, filled, num_values_read,
                          blocked_flushes, closed, written, delivered, read_closed>>
  <2>1. /\ FlushesTold(deferred', num_values_read, read_closed)
        /\ ReadsTold(deferred', num_values_read, closed /\ IsEmpty)
        /\ Placed(deferred', blocked_reads, blocked_flushes)
        /\ PushbacksKept(deferred', filled \cup {pushback})
        /\ \A o \in Clients : FlushOf(deferred'[o]) = FlushOf(deferred[o])
    BY <1>5, <1>7
  <2>2. UNCHANGED C!vars
    BY <1>7, <2>1, ChannelRests
  <2> QED BY <1>3, <1>7, <2>1, <2>2 DEF CInv, IsEmpty
<1>8. CASE /\ IsEmpty /\ ~closed /\ deferred' = asked("pending")
           /\ blocked_reads' = Append(blocked_reads, r)
           /\ UNCHANGED <<buffer, size_budget, pushback, filled, num_values_read,
                          blocked_flushes, closed, written, delivered, read_closed>>
  <2>1. /\ FlushesTold(deferred', num_values_read, read_closed)
        /\ ReadsTold(deferred', num_values_read, closed /\ IsEmpty)
        /\ Placed(deferred', blocked_reads', blocked_flushes)
        /\ PushbacksKept(deferred', filled \cup {pushback})
        /\ \A o \in Clients : FlushOf(deferred'[o]) = FlushOf(deferred[o])
    BY <1>5, <1>8
  <2>2. UNCHANGED C!vars
    BY <1>8, <2>1, ChannelRests
  <2> QED BY <1>3, <1>8, <2>1, <2>2 DEF CInv, IsEmpty
<1> QED BY <1>6, <1>7, <1>8 DEF Read, Block

LEMMA FlushedAnswers ==
  ASSUME AInv, NEW c \in Clients, Flushed(c)
  PROVE  CInv' /\ [C!Next]_(C!vars)
<1>1. PICK a : a = IF IsEmpty THEN "Ok" ELSE "pending"
  OBVIOUS
<1>2. PICK x : x = Deferred("flushed", a, << >>, Awaited)
  OBVIOUS
<1>3. /\ blocked_reads \in Seq(ReadType) /\ blocked_flushes \in Seq(FlushType)
      /\ deferred \in [Clients -> DeferredType] /\ num_values_read \in Nat
  BY QueuesTyped DEF AInv, IInv
<1>4. /\ Placed(deferred, blocked_reads, blocked_flushes)
      /\ FlushesTold(deferred, num_values_read, read_closed)
      /\ ReadsTold(deferred, num_values_read, closed /\ IsEmpty)
      /\ PushbacksKept(deferred, filled \cup {pushback})
      /\ read_closed => IsEmpty
  BY DEF AInv, CInv
<1>5. /\ deferred' = [deferred EXCEPT ![c] = x]
      /\ UNCHANGED <<buffer, size_budget, pushback, filled, num_values_read,
                     blocked_reads, closed, written, delivered, read_closed>>
      /\ IF IsEmpty THEN UNCHANGED blocked_flushes
         ELSE blocked_flushes' = Append(blocked_flushes,
                [fill_when_num_values_read |-> num_values_read + Length, client |-> c])
  BY <1>1, <1>2 DEF Flushed, history
<1>6. /\ Awaited = num_values_read + Len(buffer) /\ Awaited = C!Count /\ Awaited \in Nat
      /\ num_values_read = Len(delivered)
      /\ Len(buffer) \in Nat /\ (IsEmpty <=> Len(buffer) = 0)
  <2>1. /\ num_values_read = Len(delivered)
        /\ ~read_closed => Len(delivered) + Len(buffer) = written
    BY DEF AInv, IInv, FifoDelivery, Length
  <2>2. buffer \in Seq(Nat) /\ Len(buffer) \in Nat
    BY LenProperties DEF AInv, IInv, TypeOK
  <2>3. IsEmpty <=> Len(buffer) = 0
    BY <2>2, EmptySeq DEF IsEmpty
  <2> QED BY <1>3, <1>4, <2>1, <2>2, <2>3 DEF Awaited, C!Count
<1>7. /\ x \in DeferredType /\ x.values = << >> /\ x.call = "flushed" /\ x.answer = a
      /\ x.mark = Awaited /\ a \in {"Ok", "pending"}
  <2>1. a \in {"Ok", "pending"}
    BY <1>1
  <2>2. x \in DeferredType
    BY <1>2, <1>6, <2>1, EmptySeq, DeferredTyped
  <2> QED BY <1>2, <2>1, <2>2 DEF Deferred
<1>8. Fresh(x)
  BY <1>7 DEF Fresh
<1>9. deferred'[c] = x /\ \A o \in Clients \ {c} : deferred'[o] = deferred[o]
  BY <1>3, <1>5
<1>10. /\ x.answer = "Ok" <=> num_values_read >= x.mark
       /\ x.answer = "pending" => ~read_closed
  BY <1>1, <1>3, <1>4, <1>6, <1>7
<1>11. /\ FlushesTold(deferred', num_values_read, read_closed)
       /\ ReadsTold(deferred', num_values_read, closed /\ IsEmpty)
  BY <1>3, <1>4, <1>5, <1>7, <1>8, <1>10, RenewedTold
<1>12. Placed(deferred', blocked_reads, blocked_flushes')
  <2>1. IdleIn(deferred, c)
    BY DEF Flushed, Idle, IdleIn, Waits
  <2>2. /\ ~Waits(x, "read") /\ ~Waits(x, "flushed")
                => Placed(deferred', blocked_reads, blocked_flushes)
        /\ Waits(x, "flushed") =>
               Placed(deferred', blocked_reads, Append(blocked_flushes,
                        [fill_when_num_values_read |-> x.mark, client |-> c]))
    BY <1>3, <1>4, <1>5, <1>8, <2>1, RenewedPlaced
  <2>3. CASE IsEmpty
    BY <2>2, <2>3, <1>1, <1>5, <1>7 DEF Waits
  <2>4. CASE ~IsEmpty
    BY <2>2, <2>4, <1>1, <1>5, <1>6, <1>7 DEF Waits, Length
  <2> QED BY <2>3, <2>4
<1>13. PushbacksKept(deferred', filled \cup {pushback})
  BY <1>4, <1>7, <1>9 DEF PushbacksKept
<1>14. CInv'
  BY <1>4, <1>5, <1>11, <1>12, <1>13 DEF CInv, IsEmpty
<1>15. C!AskFlush(c)
  <2>1. FlushOf(deferred[c]).answer = "none"
    BY DEF Flushed, Idle, FlushOf
  <2>2. FlushOf(x) = [until |-> C!Count, answer |-> IF buffer = << >> THEN "Ok" ELSE "pending"]
    BY <1>1, <1>6, <1>7 DEF FlushOf, IsEmpty
  <2>3. [o \in Clients |-> FlushOf(deferred'[o])] =
          [[o \in Clients |-> FlushOf(deferred[o])] EXCEPT ![c] =
             [until |-> C!Count, answer |-> IF buffer = << >> THEN "Ok" ELSE "pending"]]
    <3>1. \A o \in Clients : FlushOf(deferred'[o]) =
            IF o = c THEN [until |-> C!Count, answer |-> IF buffer = << >> THEN "Ok" ELSE "pending"]
                     ELSE FlushOf(deferred[o])
      BY <1>9, <2>2
    <3> QED BY <3>1
  <2> QED BY <1>5, <2>1, <2>3 DEF C!AskFlush, FlushOf
<1> QED BY <1>14, <1>15 DEF C!Next

LEMMA CloseAnswers ==
  ASSUME AInv, Close PROVE CInv' /\ [C!Next]_(C!vars)
<1>1. /\ closed' = TRUE /\ UpdatePushback
      /\ UNCHANGED <<buffer, num_values_read, blocked_flushes, delivered, read_closed>>
      /\ IF IsEmpty
         THEN /\ deferred' = Fill(deferred, ClientsOf(blocked_reads), "Eof")
              /\ blocked_reads' = << >>
         ELSE UNCHANGED <<deferred, blocked_reads>>
  BY DEF Close
<1>2. /\ blocked_reads \in Seq(ReadType) /\ blocked_flushes \in Seq(FlushType)
      /\ deferred \in [Clients -> DeferredType]
  BY QueuesTyped DEF AInv, IInv
<1>3. /\ Placed(deferred, blocked_reads, blocked_flushes)
      /\ FlushesTold(deferred, num_values_read, read_closed)
      /\ ReadsTold(deferred, num_values_read, closed /\ IsEmpty)
      /\ PushbacksKept(deferred, filled \cup {pushback})
      /\ read_closed => IsEmpty
  BY DEF AInv, CInv
<1>4. /\ Placed(deferred', blocked_reads', blocked_flushes)
      /\ FlushesTold(deferred', num_values_read, read_closed)
      /\ ReadsTold(deferred', num_values_read, (closed /\ IsEmpty)')
      /\ \A c \in Clients : /\ deferred'[c].call = deferred[c].call
                            /\ deferred'[c].mark = deferred[c].mark
                            /\ FlushOf(deferred'[c]) = FlushOf(deferred[c])
  <2>1. CASE IsEmpty
    <3>1. PICK e : e = Fill(deferred, ClientsOf(blocked_reads), "Eof")
      OBVIOUS
    <3>2. /\ Placed(e, << >>, blocked_flushes)
          /\ \A num, ended : ReadsTold(deferred, num, ended) => ReadsTold(e, num, TRUE)
          /\ \A num, ended : FlushesTold(deferred, num, ended) => FlushesTold(e, num, ended)
          /\ \A c \in Clients : e[c].call = deferred[c].call /\ e[c].mark = deferred[c].mark
          /\ \A c \in Clients : deferred[c].call = "flushed" => e[c] = deferred[c]
      BY <1>2, <1>3, <3>1, FilledReads
    <3>3. deferred' = e /\ blocked_reads' = << >> /\ (closed /\ IsEmpty)' = TRUE
      BY <1>1, <2>1, <3>1 DEF IsEmpty
    <3>4. \A c \in Clients : FlushOf(e[c]) = FlushOf(deferred[c])
      BY <3>2 DEF FlushOf
    <3> QED BY <1>3, <3>2, <3>3, <3>4
  <2>2. CASE ~IsEmpty
    <3>1. UNCHANGED <<deferred, blocked_reads>>
      BY <1>1, <2>2
    <3> QED BY <1>3, <2>2, <3>1 DEF ReadsTold
  <2> QED BY <2>1, <2>2
<1>5. PushbacksKept(deferred', filled' \cup {pushback'})
  BY <1>1, <1>3, <1>4, PushbackRemains DEF PushbacksKept, AInv, IInv
<1>6. CInv'
  BY <1>1, <1>3, <1>4, <1>5 DEF CInv, IsEmpty
<1>7. C!CloseWriter
  <2>1. [c \in Clients |-> FlushOf(deferred'[c])] = [c \in Clients |-> FlushOf(deferred[c])]
    BY <1>4
  <2> QED BY <1>1, <2>1 DEF C!CloseWriter, FlushOf
<1> QED BY <1>6, <1>7 DEF C!Next

LEMMA CloseReadAnswers ==
  ASSUME AInv, CloseRead PROVE CInv' /\ [C!Next]_(C!vars)
<1>1. PICK d : d = Fill(deferred, ClientsOf(blocked_flushes), "Reader_closed")
  OBVIOUS
<1>2. /\ closed' = TRUE /\ read_closed' = TRUE /\ UpdatePushback
      /\ buffer' = << >> /\ blocked_flushes' = << >>
      /\ UNCHANGED <<num_values_read, delivered>>
      /\ IF closed THEN deferred' = d /\ UNCHANGED blocked_reads
         ELSE /\ deferred' = Fill(d, ClientsOf(blocked_reads), "Eof")
              /\ blocked_reads' = << >>
  BY <1>1 DEF CloseRead
<1>3. /\ blocked_reads \in Seq(ReadType) /\ blocked_flushes \in Seq(FlushType)
      /\ deferred \in [Clients -> DeferredType]
  BY QueuesTyped DEF AInv, IInv
<1>4. /\ Placed(deferred, blocked_reads, blocked_flushes)
      /\ FlushesTold(deferred, num_values_read, read_closed)
      /\ ReadsTold(deferred, num_values_read, closed /\ IsEmpty)
      /\ PushbacksKept(deferred, filled \cup {pushback})
  BY DEF AInv, CInv
<1>5. /\ Placed(d, blocked_reads, << >>)
      /\ \A num, ended : ReadsTold(deferred, num, ended) => ReadsTold(d, num, ended)
      /\ \A num, ended : FlushesTold(deferred, num, ended) => FlushesTold(d, num, TRUE)
      /\ \A c \in Clients : d[c].call = deferred[c].call /\ d[c].mark = deferred[c].mark
      /\ \A c \in Clients : /\ Waits(deferred[c], "flushed") => d[c].answer = "Reader_closed"
                            /\ ~Waits(deferred[c], "flushed") => d[c] = deferred[c]
  BY <1>1, <1>3, <1>4, FilledFlushes
<1>6. d \in [Clients -> DeferredType]
  BY <1>1, <1>3, FillTyped
<1>7. /\ Placed(deferred', blocked_reads', << >>)
      /\ FlushesTold(deferred', num_values_read, TRUE)
      /\ ReadsTold(deferred', num_values_read, TRUE)
      /\ \A c \in Clients : /\ deferred'[c].call = deferred[c].call
                            /\ deferred'[c].mark = deferred[c].mark
                            /\ d[c].call = "flushed" => deferred'[c] = d[c]
  <2>1. CASE closed
    <3>1. deferred' = d /\ blocked_reads' = blocked_reads
      BY <1>2, <2>1
    <3>2. ReadsTold(d, num_values_read, closed /\ IsEmpty)
      BY <1>4, <1>5
    <3>3. ReadsTold(d, num_values_read, TRUE) /\ FlushesTold(d, num_values_read, TRUE)
      BY <1>4, <1>5, <3>2 DEF ReadsTold
    <3> QED BY <1>5, <3>1, <3>3
  <2>2. CASE ~closed
    <3>0. << >> \in Seq(FlushType)
      BY EmptySeq
    <3>1. PICK e : e = Fill(d, ClientsOf(blocked_reads), "Eof")
      OBVIOUS
    <3>2. /\ Placed(e, << >>, << >>)
          /\ \A num, ended : ReadsTold(d, num, ended) => ReadsTold(e, num, TRUE)
          /\ \A num, ended : FlushesTold(d, num, ended) => FlushesTold(e, num, ended)
          /\ \A c \in Clients : e[c].call = d[c].call /\ e[c].mark = d[c].mark
          /\ \A c \in Clients : d[c].call = "flushed" => e[c] = d[c]
      BY <1>3, <1>5, <1>6, <3>0, <3>1, FilledReads
    <3>3. deferred' = e /\ blocked_reads' = << >>
      BY <1>2, <2>2, <3>1
    <3>4. ReadsTold(e, num_values_read, TRUE) /\ FlushesTold(e, num_values_read, TRUE)
      BY <1>4, <1>5, <3>2
    <3> QED BY <1>5, <3>2, <3>3, <3>4
  <2> QED BY <2>1, <2>2
<1>8. PushbacksKept(deferred', filled' \cup {pushback'})
  BY <1>2, <1>4, <1>7, PushbackRemains DEF PushbacksKept, AInv, IInv
<1>9. CInv'
  <2>1. (closed /\ IsEmpty)' = TRUE /\ read_closed' = TRUE /\ IsEmpty'
    BY <1>2 DEF IsEmpty
  <2> QED BY <1>2, <1>7, <1>8, <2>1 DEF CInv
<1>10. C!CloseReader
  <2>1. ASSUME NEW c \in Clients
        PROVE  FlushOf(deferred'[c]) =
                 IF FlushOf(deferred[c]).answer = "pending"
                 THEN [FlushOf(deferred[c]) EXCEPT !.answer = "Reader_closed"]
                 ELSE FlushOf(deferred[c])
    <3>1. /\ deferred'[c].call = deferred[c].call /\ deferred'[c].mark = deferred[c].mark
          /\ deferred[c].call = "flushed" => deferred'[c].answer =
               IF deferred[c].answer = "pending" THEN "Reader_closed" ELSE deferred[c].answer
      BY <1>5, <1>7 DEF Waits
    <3>2. CASE deferred[c].call = "flushed"
      <4>1. FlushOf(deferred[c]) = [until |-> deferred[c].mark, answer |-> deferred[c].answer]
        BY <3>2 DEF FlushOf
      <4>2. FlushOf(deferred'[c]) = [until |-> deferred[c].mark, answer |-> deferred'[c].answer]
        BY <3>1, <3>2 DEF FlushOf
      <4> QED BY <3>1, <3>2, <4>1, <4>2
    <3>3. CASE deferred[c].call # "flushed"
      BY <3>1, <3>3 DEF FlushOf
    <3> QED BY <3>2, <3>3
  <2>2. [c \in Clients |-> FlushOf(deferred'[c])] = [c \in Clients |->
           IF FlushOf(deferred[c]).answer = "pending"
           THEN [FlushOf(deferred[c]) EXCEPT !.answer = "Reader_closed"]
           ELSE FlushOf(deferred[c])]
    BY <2>1
  <2> QED BY <1>2, <2>2 DEF C!CloseReader, FlushOf
<1> QED BY <1>9, <1>10 DEF C!Next

LEMMA SetSizeBudgetAnswers ==
  ASSUME AInv, NEW b \in Budgets, SetSizeBudget(b) PROVE CInv' /\ [C!Next]_(C!vars)
<1>1. /\ UpdatePushback
      /\ UNCHANGED <<buffer, num_values_read, blocked_flushes, blocked_reads, closed,
                     deferred, delivered, read_closed>>
  BY DEF SetSizeBudget, history
<1>2. PushbacksKept(deferred', filled' \cup {pushback'})
  BY <1>1, PushbackRemains DEF PushbacksKept, AInv, IInv, CInv
<1>3. CInv'
  BY <1>1, <1>2 DEF AInv, CInv, IsEmpty
<1>4. UNCHANGED C!vars
  BY <1>1, ChannelRests
<1> QED BY <1>3, <1>4

LEMMA AnswersInit == Init => CInv /\ C!Init
<1> SUFFICES ASSUME Init PROVE CInv /\ C!Init
  OBVIOUS
<1>1. \A c \in Clients : /\ deferred[c].call = "none" /\ deferred[c].answer = "none"
                         /\ deferred[c].values = << >>
  BY DEF Init, NoDeferred, Deferred
<1>2. CInv
  BY <1>1 DEF Init, CInv, Placed, OnePlace, Waits, ReadMarks, FlushMarks, AnswersFit,
              FlushesTold, ReadsTold, PushbacksKept, IsEmpty
<1>3. C!Init
  BY <1>1 DEF Init, C!Init, C!NoFlush
<1> QED BY <1>2, <1>3

LEMMA NextAnswers == AInv /\ [Next]_vars => CInv' /\ [C!Next]_(C!vars)
<1> SUFFICES ASSUME AInv, [Next]_vars PROVE CInv' /\ [C!Next]_(C!vars)
  OBVIOUS
<1>1. CASE WriteNoPushback
  BY <1>1, WriteNoPushbackAnswers
<1>2. CASE Close
  BY <1>2, CloseAnswers
<1>3. CASE CloseRead
  BY <1>3, CloseReadAnswers
<1>4. CASE \E b \in Budgets : SetSizeBudget(b)
  BY <1>4, SetSizeBudgetAnswers
<1>5. ASSUME NEW c \in Clients, WithWrite(c) PROVE CInv' /\ [C!Next]_(C!vars)
  BY <1>5, WithWriteAnswers
<1>6. ASSUME NEW c \in Clients, Flushed(c) PROVE CInv' /\ [C!Next]_(C!vars)
  BY <1>6, FlushedAnswers
<1>7. ASSUME NEW c \in Clients, Callback(c) PROVE CInv' /\ [C!Next]_(C!vars)
  BY <1>7, CallbackAnswers
<1>8. ASSUME NEW c \in Clients, NEW n \in 0..MaxBatch, Write(c, n)
      PROVE  CInv' /\ [C!Next]_(C!vars)
  BY <1>8, PushbackWriteAnswers
<1>9. ASSUME NEW c \in Clients, NEW n \in {0, 1}, WithWriteCallback(c, n)
      PROVE  CInv' /\ [C!Next]_(C!vars)
  BY <1>9, WithWriteCallbackAnswers
<1>10. ASSUME NEW c \in Clients, NEW n \in Wants, Read(c, n)
       PROVE  CInv' /\ [C!Next]_(C!vars)
  BY <1>10, ReadAnswersStep
<1>11. CASE UNCHANGED vars
  <2>1. UNCHANGED <<buffer, pushback, filled, num_values_read, blocked_flushes,
                    blocked_reads, closed, deferred, delivered, read_closed>>
    BY <1>11 DEF vars, pipeVars, history
  <2>2. CInv'
    BY <2>1 DEF AInv, CInv, IsEmpty
  <2>3. UNCHANGED C!vars
    BY <2>1, ChannelRests
  <2> QED BY <2>2, <2>3
<1> QED BY <1>1, <1>2, <1>3, <1>4, <1>5, <1>6, <1>7, <1>8, <1>9, <1>10, <1>11 DEF Next

(* Whatever tasks read, write, flush and close, with any batch sizes and   *)
(* budgets, each deferred that consume_one, consume_all, consume_at_most,  *)
(* fill_flushes and close must fill has its one place in the queue they    *)
(* fill it from, and what they fill it with is true.                       *)
THEOREM EveryDeferredAnswered == Spec => [](NoForgottenDeferred /\ AnswersTrue)
<1>1. Init => AInv
  BY InitInvariant, AnswersInit DEF AInv
<1>2. AInv /\ [Next]_vars => AInv'
  BY NextInvariant, NextAnswers DEF AInv
<1>3. AInv => NoForgottenDeferred /\ AnswersTrue
  BY ClientsServed DEF AInv
<1> QED BY <1>1, <1>2, <1>3, PTL DEF Spec

(* Every operation of pipe.ml does to the values and the flushes what a    *)
(* step of the channel does, or nothing.                                   *)
THEOREM PipeIsAChannel == Spec => ImplementsChannel
<1>1. Init => AInv /\ C!Init
  BY InitInvariant, AnswersInit DEF AInv
<1>2. AInv /\ [Next]_vars => AInv' /\ [C!Next]_(C!vars)
  BY NextInvariant, NextAnswers DEF AInv
<1> QED BY <1>1, <1>2, PTL DEF Spec, ImplementsChannel, C!Spec
-----------------------------------------------------------------------------
(* The order in which reads are answered: the history waiting holds them   *)
(* in the order of their places in blocked_reads.                          *)
Lined(d, w, q) ==
  /\ w \in Seq(Clients)
  /\ \A i \in DOMAIN w : Waits(d[w[i]], "read")
  /\ \A i, j \in DOMAIN w : i < j =>
       \A a, b \in 1..Len(q) : q[a].client = w[i] /\ q[b].client = w[j] => a < b
Unanswered(e) == {c \in Clients : e[c].answer = "pending"}
WInv == Lined(deferred, waiting, blocked_reads)

(* What FirstComeFirstServed says of one step.                             *)
InTurn(e, w) ==
  \A i, j \in DOMAIN w : i < j /\ e[w[j]].answer # "pending" =>
    /\ e[w[i]].answer # "pending"
    /\ \A m \in DOMAIN e[w[i]].values : \A n \in DOMAIN e[w[j]].values :
         e[w[i]].values[m] < e[w[j]].values[n]

(* A read still unanswered is as it was.                                   *)
Settled(d, e, w) == \A i \in DOMAIN w : e[w[i]].answer = "pending" => e[w[i]] = d[w[i]]
SameBut(c, d, e) == \A o \in Clients \ {c} : e[o] = d[o]

(* Those still pending when the first k places are gone stay in line.      *)
LEMMA LineLeft ==
  ASSUME NEW S, NEW q \in Seq(S), NEW k \in 0..Len(q), NEW d, NEW e, NEW w, Lined(d, w, q), Settled(d, e, w),
         NEW v, v = Selected(w, Unanswered(e))
  PROVE  Lined(e, v, SubSeq(q, k + 1, Len(q)))
<1>1. w \in Seq(Clients)
  BY DEF Lined
<1>2. v \in Seq(Clients) /\ Subsequence(w, Unanswered(e), v)
  BY <1>1, SelectedIsOrdered
<1>3. PICK f : Keeps(w, Unanswered(e), v, f)
  BY <1>2 DEF Subsequence
<1>4. ASSUME NEW i \in DOMAIN v
      PROVE  f[i] \in DOMAIN w /\ v[i] = w[f[i]] /\ Waits(e[v[i]], "read")
  <2>1. f[i] \in DOMAIN w /\ v[i] = w[f[i]] /\ v[i] \in Unanswered(e)
    BY <1>3 DEF Keeps
  <2>2. e[v[i]] = d[v[i]] /\ Waits(d[v[i]], "read")
    BY <2>1 DEF Unanswered, Lined, Settled
  <2> QED BY <2>1, <2>2
<1>5. PICK r : r = SubSeq(q, k + 1, Len(q))
  OBVIOUS
<1>6. /\ Len(q) \in Nat /\ k \in Nat /\ Len(r) = Len(q) - k
      /\ \A i \in 1..(Len(q) - k) : r[i] = q[k + i]
  BY <1>5, Split, LenProperties
<1>7. ASSUME NEW i \in DOMAIN v, NEW j \in DOMAIN v, i < j,
             NEW a \in 1..Len(r), NEW b \in 1..Len(r), r[a].client = v[i], r[b].client = v[j]
      PROVE  a < b
  <2>1. f[i] < f[j]
    BY <1>3, <1>7 DEF Keeps
  <2>2. /\ k + a \in 1..Len(q) /\ k + b \in 1..Len(q)
        /\ q[k + a].client = w[f[i]] /\ q[k + b].client = w[f[j]]
    BY <1>4, <1>6, <1>7
  <2>3. k + a < k + b
    BY <1>4, <2>1, <2>2 DEF Lined
  <2> QED BY <2>3, <1>6
<1>8. Lined(e, v, r)
  BY <1>2, <1>4, <1>7 DEF Lined
<1> QED BY <1>5, <1>8

LEMMA ValuesApart ==
  \A num, x, y, u, v \in Nat : y <= u =>
    \A m \in 1..(y - x), n \in 1..(v - u) : num + x + m < num + u + n
OBVIOUS

(* The reads that are served are those in front, with consecutive values.  *)
LEMMA ServedInTurn ==
  ASSUME NEW reads \in Seq(ReadType), NEW flushes \in Seq(FlushType),
         NEW d \in [Clients -> DeferredType], NEW e, NEW buf \in Seq(Nat), NEW cut,
         NEW k \in 0..Len(reads), NEW f \in 0..Len(flushes),
         Placed(d, reads, flushes), Handed(reads, flushes, buf, d, e, cut, k, f),
         Cutting(reads, Len(buf), cut, k),
         NEW num \in Nat, Numbered(buf, num), NEW w, Lined(d, w, reads)
  PROVE  InTurn(e, w) /\ Settled(d, e, w)
<1>1. Outcomes(reads, flushes, buf, d, e, cut, k, f)
  BY HandedTo
<1>2. /\ Len(reads) \in Nat /\ \A i \in 1..k : i \in 1..Len(reads)
      /\ \A i \in 1..k : \A j \in 1..k : i < j => cut[i] <= cut[j-1]
  BY LenProperties DEF Cutting
(* a read in the line has its place, and is served or waits on *)
<1>3. ASSUME NEW i \in DOMAIN w
      PROVE  \E a \in 1..Len(reads) :
               /\ reads[a].client = w[i]
               /\ \/ a \in 1..k /\ e[w[i]].answer = "Ok" /\ e[w[i]].values = Share(buf, cut, a)
                  \/ a \notin 1..k /\ e[w[i]] = d[w[i]] /\ e[w[i]].answer = "pending"
  <2>1. w[i] \in Clients /\ Waits(d[w[i]], "read")
    BY ElementOfSeq, LenProperties DEF Lined
  <2>2. PICK a \in 1..Len(reads) : reads[a].client = w[i]
    BY <2>1 DEF Placed, OnePlace
  <2>3. \A b \in 1..Len(reads) : reads[b].client = w[i] => b = a
    BY <2>2 DEF Placed, OnePlace
  <2>4. \/ \E b \in 1..k : /\ reads[b].client = w[i] /\ Waits(d[w[i]], "read")
                           /\ e[w[i]].answer = "Ok" /\ e[w[i]].values = Share(buf, cut, b)
        \/ Waits(d[w[i]], "flushed")
        \/ /\ \A b \in 1..k : reads[b].client # w[i]
           /\ e[w[i]] = d[w[i]]
    BY <1>1, <2>1 DEF Outcomes
  <2>5. ~Waits(d[w[i]], "flushed")
    BY <2>1 DEF Waits
  <2>6. CASE \E b \in 1..k : /\ reads[b].client = w[i]
                              /\ e[w[i]].answer = "Ok" /\ e[w[i]].values = Share(buf, cut, b)
    BY <2>6, <2>2, <2>3, <1>2
  <2>7. CASE (\A b \in 1..k : reads[b].client # w[i]) /\ e[w[i]] = d[w[i]]
    BY <2>7, <2>1, <2>2 DEF Waits
  <2> QED BY <2>4, <2>5, <2>6, <2>7
<1>4. ASSUME NEW i \in DOMAIN w, NEW j \in DOMAIN w, i < j, e[w[j]].answer # "pending"
      PROVE  /\ e[w[i]].answer # "pending"
             /\ \A m \in DOMAIN e[w[i]].values : \A n \in DOMAIN e[w[j]].values :
                  e[w[i]].values[m] < e[w[j]].values[n]
  <2>1. PICK a \in 1..Len(reads) :
               /\ reads[a].client = w[i]
               /\ \/ a \in 1..k /\ e[w[i]].answer = "Ok" /\ e[w[i]].values = Share(buf, cut, a)
                  \/ a \notin 1..k /\ e[w[i]] = d[w[i]] /\ e[w[i]].answer = "pending"
    BY <1>3
  <2>2. PICK b \in 1..Len(reads) :
               /\ reads[b].client = w[j]
               /\ \/ b \in 1..k /\ e[w[j]].answer = "Ok" /\ e[w[j]].values = Share(buf, cut, b)
                  \/ b \notin 1..k /\ e[w[j]] = d[w[j]] /\ e[w[j]].answer = "pending"
    BY <1>3
  <2>3. a < b
    BY <1>4, <2>1, <2>2 DEF Lined
  <2>4. b \in 1..k /\ e[w[j]].values = Share(buf, cut, b)
    BY <1>4, <2>2
  <2>5. a \in 1..k /\ e[w[i]].answer = "Ok" /\ e[w[i]].values = Share(buf, cut, a)
    BY <1>2, <2>1, <2>3, <2>4
  <2>6. ShareIs(buf, num, cut, k, a) /\ ShareIs(buf, num, cut, k, b)
    BY <1>2, <2>4, <2>5, ShareOfRead DEF Numbered
  <2>7. PICK x \in Nat, y \in Nat, u \in Nat, v \in Nat :
          /\ x = cut[a-1] /\ y = cut[a] /\ u = cut[b-1] /\ v = cut[b] /\ y <= u
    <3>1. cut[a] <= cut[b-1]
      BY <1>2, <2>3, <2>4, <2>5
    <3>2. cut[a-1] \in Nat /\ cut[a] \in Nat /\ cut[b-1] \in Nat /\ cut[b] \in Nat
      BY <2>6 DEF ShareIs
    <3> QED BY <3>1, <3>2
  <2>8. /\ DOMAIN Share(buf, cut, a) = 1..(y - x)
        /\ \A m \in 1..(y - x) : Share(buf, cut, a)[m] = num + x + m
        /\ DOMAIN Share(buf, cut, b) = 1..(v - u)
        /\ \A m \in 1..(v - u) : Share(buf, cut, b)[m] = num + u + m
    BY <2>6, <2>7 DEF ShareIs
  <2>9. ASSUME NEW m \in 1..(y - x), NEW n \in 1..(v - u) PROVE num + x + m < num + u + n
    BY <2>7, ValuesApart
  <2>10. e[w[i]].answer # "pending"
    BY <2>5
  <2>11. ASSUME NEW m \in DOMAIN e[w[i]].values, NEW n \in DOMAIN e[w[j]].values
         PROVE  e[w[i]].values[m] < e[w[j]].values[n]
    <3>1. m \in 1..(y - x) /\ e[w[i]].values[m] = num + x + m
      BY <2>5, <2>8, <2>11
    <3>2. n \in 1..(v - u) /\ e[w[j]].values[n] = num + u + n
      BY <2>4, <2>8, <2>11
    <3> QED BY <3>1, <3>2, <2>9
  <2> QED BY <2>10, <2>11
<1>5. InTurn(e, w)
  BY <1>4 DEF InTurn
<1>6. Settled(d, e, w)
  BY <1>3 DEF Settled
<1> QED BY <1>5, <1>6

LEMMA ConsumeInTurn ==
  ASSUME AInv, NEW n \in Nat, n > 0 => ~closed, NEW reads \in Seq(ReadType),
         NEW d \in [Clients -> DeferredType], Consume(reads, Enqueued(n), d),
         Placed(d, reads, blocked_flushes), Lined(d, waiting, reads)
  PROVE  WInv' /\ InTurn(deferred', waiting)
<1>1. PICK buf : buf = Enqueued(n)
  OBVIOUS
<1>2. buf \in Seq(Nat) /\ ReadyToConsume(buf) /\ TypeOK
  BY <1>1, EnqueuedReady DEF AInv, IInv
<1>3. /\ OnePlace(d, reads, "read") /\ OnePlace(d, blocked_flushes, "flushed")
  BY DEF Placed
<1>4. PICK cut, k, f :
           /\ Cutting(reads, Len(buf), cut, k)
           /\ f \in 0..Len(blocked_flushes)
           /\ Handed(reads, blocked_flushes, buf, d, deferred', cut, k, f)
           /\ blocked_reads' = SubSeq(reads, k + 1, Len(reads))
  <2>1. Consume(reads, buf, d)
    BY <1>1
  <2> QED BY <2>1, <1>2, <1>3, HandedOut
<1>5. /\ k \in 0..Len(reads) /\ num_values_read \in Nat
      /\ blocked_flushes \in Seq(FlushType)
  BY <1>2, <1>4, QueuesTyped DEF Cutting
<1>6. PICK num, flushes, w, e, v :
        /\ num \in Nat /\ flushes \in Seq(FlushType)
        /\ num = num_values_read /\ flushes = blocked_flushes
        /\ w = waiting /\ e = deferred' /\ v = waiting'
  BY <1>5
<1>7. Numbered(buf, num)
  BY <1>2, <1>6 DEF ReadyToConsume, InOrder, Numbered
<1>8. InTurn(e, w) /\ Settled(d, e, w)
  <2>1. /\ Placed(d, reads, flushes) /\ f \in 0..Len(flushes)
        /\ Handed(reads, flushes, buf, d, e, cut, k, f) /\ Lined(d, w, reads)
    BY <1>4, <1>6
  <2> QED BY <2>1, <1>2, <1>4, <1>5, <1>6, <1>7, ServedInTurn
<1>9. v = Selected(w, Unanswered(e))
  BY <1>6 DEF Consume, ConsumeUpTo, StillWaiting, Unanswered
<1>10. Lined(e, v, SubSeq(reads, k + 1, Len(reads)))
  BY <1>5, <1>6, <1>8, <1>9, LineLeft
<1> QED BY <1>4, <1>6, <1>8, <1>10 DEF WInv

(* Steps that neither answer a read nor let one wait.                      *)
LEMMA LineKept ==
  ASSUME WInv, UNCHANGED <<waiting, blocked_reads>>,
         \A i \in DOMAIN waiting : deferred'[waiting[i]] = deferred[waiting[i]]
  PROVE  WInv' /\ InTurn(deferred', waiting)
<1>1. PICK w, q, d, e : w = waiting /\ q = blocked_reads /\ d = deferred /\ e = deferred'
  OBVIOUS
<1>2. Lined(d, w, q) /\ \A i \in DOMAIN w : e[w[i]] = d[w[i]]
  BY <1>1 DEF WInv
<1>3. Lined(e, w, q) /\ InTurn(e, w)
  BY <1>2 DEF Lined, InTurn, Waits
<1> QED BY <1>1, <1>3 DEF WInv

LEMMA OthersInLine ==
  ASSUME WInv, NEW c \in Clients, ~Waits(deferred[c], "read"), NEW d,
         SameBut(c, deferred, d)
  PROVE  /\ \A i \in DOMAIN waiting : waiting[i] # c /\ d[waiting[i]] = deferred[waiting[i]]
         /\ Lined(d, waiting, blocked_reads)
<1>1. PICK w, q, e : w = waiting /\ q = blocked_reads /\ e = deferred
  OBVIOUS
<1>2. Lined(e, w, q) /\ \A o \in Clients \ {c} : d[o] = e[o]
  BY <1>1 DEF WInv, SameBut
<1>3. \A i \in DOMAIN w : w[i] \in Clients
  BY <1>2, ElementOfSeq, LenProperties DEF Lined
<1>4. \A i \in DOMAIN w : w[i] # c
  BY <1>1, <1>2 DEF Lined
<1>5. \A i \in DOMAIN w : d[w[i]] = e[w[i]]
  BY <1>2, <1>3, <1>4
<1>6. Lined(d, w, q)
  BY <1>2, <1>5 DEF Lined
<1> QED BY <1>1, <1>4, <1>5, <1>6

LEMMA WriteInTurn ==
  ASSUME AInv, WInv, NEW n \in Nat, NEW d \in [Clients -> DeferredType], WriteValues(n, d),
         Placed(d, blocked_reads, blocked_flushes), Lined(d, waiting, blocked_reads)
  PROVE  WInv' /\ InTurn(deferred', waiting)
<1>1. ~closed /\ Consume(blocked_reads, Enqueued(n), d)
  BY DEF WriteValues, Accepts
<1>2. blocked_reads \in Seq(ReadType)
  BY QueuesTyped DEF AInv, IInv
<1> QED BY <1>1, <1>2, ConsumeInTurn

(* The client that writes or forgets its deferred stands in no line.       *)
LEMMA RenewedInTurn ==
  ASSUME AInv, WInv, NEW c \in Clients, NEW x, Fresh(x), Quiet(x),
         ~Waits(deferred[c], "read"), ~Waits(deferred[c], "flushed"),
         NEW d, d = [deferred EXCEPT ![c] = x]
  PROVE  /\ \A n \in Nat : WriteValues(n, d) => WInv' /\ InTurn(deferred', waiting)
         /\ deferred' = d /\ UNCHANGED <<pipeVars, history>> =>
              WInv' /\ InTurn(deferred', waiting)
<1>1. d \in [Clients -> DeferredType] /\ Placed(d, blocked_reads, blocked_flushes)
  BY QuietRenewal
<1>2. SameBut(c, deferred, d)
  BY QueuesTyped DEF AInv, IInv, SameBut
<1>3. /\ \A i \in DOMAIN waiting : d[waiting[i]] = deferred[waiting[i]]
      /\ Lined(d, waiting, blocked_reads)
  BY <1>2, OthersInLine
<1>4. ASSUME NEW n \in Nat, WriteValues(n, d) PROVE WInv' /\ InTurn(deferred', waiting)
  BY <1>1, <1>3, <1>4, WriteInTurn
<1>5. ASSUME deferred' = d, UNCHANGED <<pipeVars, history>>
      PROVE  WInv' /\ InTurn(deferred', waiting)
  <2>1. UNCHANGED <<waiting, blocked_reads>>
    BY <1>5 DEF pipeVars, history
  <2> QED BY <1>3, <1>5, <2>1, LineKept
<1> QED BY <1>4, <1>5

(* Reads that all end with the pipe are answered together, with no values. *)
LEMMA EndedInTurn ==
  ASSUME NEW d \in [Clients -> DeferredType], NEW reads \in Seq(ReadType),
         NEW flushes \in Seq(FlushType), Placed(d, reads, flushes),
         NEW w, Lined(d, w, reads), NEW e, e = Fill(d, ClientsOf(reads), "Eof"),
         NEW v, v = Selected(w, Unanswered(e))
  PROVE  InTurn(e, w) /\ Lined(e, v, << >>)
<1>1. ASSUME NEW i \in DOMAIN w PROVE e[w[i]].answer = "Eof" /\ e[w[i]].values = << >>
  <2>1. w[i] \in Clients /\ Waits(d[w[i]], "read")
    BY ElementOfSeq, LenProperties DEF Lined
  <2>2. OnePlace(d, reads, "read")
    BY DEF Placed
  <2>3. e[w[i]].values = d[w[i]].values /\ e[w[i]].answer = "Eof"
    BY <2>1, <2>2, FilledOne
  <2>4. d[w[i]].values = << >>
    BY <2>1 DEF Placed, AnswersFit, Waits
  <2> QED BY <2>3, <2>4
<1>2. InTurn(e, w)
  <2>1. \A i \in DOMAIN w : DOMAIN e[w[i]].values = {}
    BY <1>1
  <2> QED BY <1>1, <2>1 DEF InTurn
<1>3. Lined(e, v, SubSeq(reads, Len(reads) + 1, Len(reads)))
  <2>1. Settled(d, e, w)
    BY <1>1 DEF Settled
  <2>2. Len(reads) \in 0..Len(reads)
    BY LenProperties
  <2> QED BY <2>1, <2>2, LineLeft
<1>4. \A q : Len(q) = 0 => 1..Len(q) = {}
  OBVIOUS
<1>5. Lined(e, v, << >>)
  BY <1>3, <1>4, EmptySeq DEF Lined
<1> QED BY <1>2, <1>5

LEMMA WritesInTurn ==
  ASSUME AInv, WInv
  PROVE  /\ WriteNoPushback => WInv' /\ InTurn(deferred', waiting)
         /\ \A c \in Clients, n \in 0..MaxBatch : Write(c, n) => WInv' /\ InTurn(deferred', waiting)
         /\ \A c \in Clients : WithWrite(c) => WInv' /\ InTurn(deferred', waiting)
         /\ \A c \in Clients, n \in {0, 1} :
              WithWriteCallback(c, n) => WInv' /\ InTurn(deferred', waiting)
         /\ \A c \in Clients : Callback(c) => WInv' /\ InTurn(deferred', waiting)
<1>1. ASSUME WriteNoPushback PROVE WInv' /\ InTurn(deferred', waiting)
  <2>1. PICK d : d = deferred
    OBVIOUS
  <2>2. /\ d \in [Clients -> DeferredType] /\ Placed(d, blocked_reads, blocked_flushes)
        /\ Lined(d, waiting, blocked_reads) /\ WriteValues(1, d)
    BY <1>1, <2>1, QueuesTyped DEF AInv, IInv, CInv, WInv, WriteNoPushback
  <2> QED BY <2>2, WriteInTurn
<1>2. ASSUME NEW c \in Clients, NEW n \in 0..MaxBatch, Write(c, n)
      PROVE  WInv' /\ InTurn(deferred', waiting)
  <2>1. PICK x : x = Deferred("pushback", "none", << >>, pushback')
    OBVIOUS
  <2>2. PICK d : d = [deferred EXCEPT ![c] = x]
    OBVIOUS
  <2>3. Idle(c) /\ WriteValues(n, d) /\ n \in Nat
    BY <1>2, <2>1, <2>2, PipeAssumption DEF Write
  <2>4. pushback' \in Nat
    BY <2>3, PushbackKnown
  <2>5. Fresh(x) /\ Quiet(x) /\ ~Waits(deferred[c], "read") /\ ~Waits(deferred[c], "flushed")
    BY <2>1, <2>3, <2>4, QuietFresh DEF Idle, Waits
  <2> QED BY <2>2, <2>3, <2>5, RenewedInTurn
<1>3. ASSUME NEW c \in Clients, WithWrite(c) PROVE WInv' /\ InTurn(deferred', waiting)
  <2>1. pushback \in Nat
    BY QueuesTyped DEF AInv, IInv
  <2>2. PICK x : x = Deferred("with_write", "none", << >>, pushback)
    OBVIOUS
  <2>3. PICK d : d = [deferred EXCEPT ![c] = x]
    OBVIOUS
  <2>4. /\ Fresh(x) /\ Quiet(x) /\ ~Waits(deferred[c], "read") /\ ~Waits(deferred[c], "flushed")
        /\ deferred' = d /\ UNCHANGED <<pipeVars, history>>
    BY <1>3, <2>1, <2>2, <2>3, QuietFresh DEF WithWrite, Idle, Waits
  <2> QED BY <2>3, <2>4, RenewedInTurn
<1>4. ASSUME NEW c \in Clients, NEW n \in {0, 1}, WithWriteCallback(c, n)
      PROVE  WInv' /\ InTurn(deferred', waiting)
  <2>1. PICK x : x = NoDeferred
    OBVIOUS
  <2>2. PICK d : d = [deferred EXCEPT ![c] = x]
    OBVIOUS
  <2>3. /\ Fresh(x) /\ Quiet(x) /\ ~Waits(deferred[c], "read") /\ ~Waits(deferred[c], "flushed")
        /\ n \in Nat
        /\ \/ deferred' = d /\ UNCHANGED <<pipeVars, history>>
           \/ WriteValues(n, d)
    BY <1>4, <2>1, <2>2, QuietFresh DEF WithWriteCallback, Waits, NoDeferred
  <2> QED BY <2>2, <2>3, RenewedInTurn
<1>5. ASSUME NEW c \in Clients, Callback(c) PROVE WInv' /\ InTurn(deferred', waiting)
  <2>1. PICK x : x = NoDeferred
    OBVIOUS
  <2>2. PICK d : d = [deferred EXCEPT ![c] = x]
    OBVIOUS
  <2>3. /\ Fresh(x) /\ Quiet(x) /\ deferred' = d /\ UNCHANGED <<pipeVars, history>>
    BY <1>5, <2>1, <2>2, QuietFresh DEF Callback, NoDeferred
  <2>4. ~Waits(deferred[c], "read") /\ ~Waits(deferred[c], "flushed")
    BY <1>5 DEF Callback, IsDetermined, AwaitsPushback, Waits
  <2> QED BY <2>2, <2>3, <2>4, RenewedInTurn
<1> QED BY <1>1, <1>2, <1>3, <1>4, <1>5

(* A read that must wait goes to the end of both lines.                    *)
LEMMA LineGrows ==
  ASSUME NEW w, NEW q \in Seq(ReadType), NEW d, NEW e, NEW c \in Clients, Lined(d, w, q),
         OnePlace(d, q, "read"), \A i \in DOMAIN w : w[i] # c /\ e[w[i]] = d[w[i]],
         ~Waits(d[c], "read"), Waits(e[c], "read"), NEW r \in ReadType, r.client = c
  PROVE  Lined(e, Append(w, c), Append(q, r))
<1>1. PICK w2, q2 : w2 = Append(w, c) /\ q2 = Append(q, r)
  OBVIOUS
<1>2. /\ w2 \in Seq(Clients) /\ Len(w) \in Nat /\ DOMAIN w = 1..Len(w)
      /\ Len(w2) = Len(w) + 1 /\ DOMAIN w2 = 1..(Len(w) + 1)
      /\ w2[Len(w) + 1] = c /\ \A i \in 1..Len(w) : w2[i] = w[i]
  BY <1>1, AppendProperties, LenProperties DEF Lined
<1>3. /\ Len(q) \in Nat /\ Len(q2) = Len(q) + 1
      /\ q2[Len(q) + 1] = r /\ \A i \in 1..Len(q) : q2[i] = q[i]
  BY <1>1, AppendProperties, LenProperties
<1>4. \A a \in 1..Len(q) : q[a].client # c
  BY DEF OnePlace
<1>5. ASSUME NEW i \in DOMAIN w2 PROVE Waits(e[w2[i]], "read")
  <2>1. CASE i \in 1..Len(w)
    BY <2>1, <1>2 DEF Lined
  <2>2. CASE i = Len(w) + 1
    BY <2>2, <1>2
  <2> QED BY <2>1, <2>2, <1>2
<1>6. ASSUME NEW i \in DOMAIN w2, NEW j \in DOMAIN w2, i < j,
             NEW a \in 1..Len(q2), NEW b \in 1..Len(q2),
             q2[a].client = w2[i], q2[b].client = w2[j]
      PROVE  a < b
  <2>1. i \in 1..Len(w) /\ w2[i] = w[i]
    BY <1>2, <1>6
  <2>2. a \in 1..Len(q)
    <3>1. a # Len(q) + 1
      BY <2>1, <1>2, <1>3, <1>6
    <3> QED BY <3>1, <1>3
  <2>3. CASE j \in 1..Len(w)
    <3>1. b # Len(q) + 1
      BY <2>3, <1>2, <1>3, <1>6
    <3>2. b \in 1..Len(q)
      BY <3>1, <1>3
    <3>3. q[a].client = w[i] /\ q[b].client = w[j]
      BY <2>1, <2>2, <2>3, <3>2, <1>2, <1>3, <1>6
    <3>4. i \in DOMAIN w /\ j \in DOMAIN w
      BY <2>1, <2>3, <1>2
    <3> QED BY <2>2, <3>2, <3>3, <3>4, <1>6 DEF Lined
  <2>4. CASE j = Len(w) + 1
    <3>1. b \notin 1..Len(q)
      BY <2>4, <1>2, <1>3, <1>4, <1>6
    <3> QED BY <2>2, <3>1, <1>3
  <2> QED BY <2>3, <2>4, <1>2
<1>7. Lined(e, w2, q2)
  BY <1>2, <1>5, <1>6 DEF Lined
<1> QED BY <1>1, <1>7

LEMMA ReadInTurn ==
  ASSUME AInv, WInv, NEW c \in Clients, NEW n \in Wants, Read(c, n)
  PROVE  WInv' /\ InTurn(deferred', waiting)
<1>1. PICK r \in ReadType : r = [wants |-> n, client |-> c]
  BY PipeAssumption DEF Wants, All, ReadType
<1>2. /\ blocked_reads \in Seq(ReadType) /\ blocked_flushes \in Seq(FlushType)
      /\ deferred \in [Clients -> DeferredType] /\ n \in Nat
      /\ Placed(deferred, blocked_reads, blocked_flushes)
      /\ Lined(deferred, waiting, blocked_reads)
  BY PipeAssumption, QueuesTyped DEF AInv, IInv, CInv, WInv, Wants, All
<1>3. IdleIn(deferred, c)
  BY DEF Read, Idle, IdleIn, Waits
<1>4. ASSUME NEW a \in {"pending", "Eof"}, NEW d,
             d = [deferred EXCEPT ![c] = Deferred("read", a, << >>, n)]
      PROVE  /\ d \in [Clients -> DeferredType] /\ SameBut(c, deferred, d)
             /\ d[c].call = "read" /\ d[c].answer = a
             /\ a = "pending" => Placed(d, Append(blocked_reads, r), blocked_flushes)
  <2>1. PICK x : x = Deferred("read", a, << >>, n)
    OBVIOUS
  <2>2. x \in DeferredType /\ x.values = << >> /\ x.call = "read" /\ x.mark = n /\ x.answer = a
    <3>1. x \in DeferredType
      BY <1>2, <2>1, EmptySeq, DeferredTyped
    <3> QED BY <3>1, <2>1 DEF Deferred
  <2>3. d[c] = x /\ d \in [Clients -> DeferredType] /\ SameBut(c, deferred, d)
    BY <1>2, <1>4, <2>1, <2>2 DEF SameBut
  <2>4. Fresh(x)
    BY <2>2 DEF Fresh
  <2>5. Waits(x, "read") => Placed(d, Append(blocked_reads, [wants |-> x.mark, client |-> c]),
                                   blocked_flushes)
    BY <1>2, <1>3, <1>4, <2>1, <2>4, RenewedPlaced
  <2> QED BY <1>1, <2>2, <2>3, <2>5 DEF Waits
<1>5. CASE /\ blocked_reads = << >>
           /\ Consume(<<r>>, buffer, [deferred EXCEPT ![c] = Deferred("read", "pending", << >>, n)])
  <2>1. PICK d : d = [deferred EXCEPT ![c] = Deferred("read", "pending", << >>, n)]
    OBVIOUS
  <2>2. PICK reads \in Seq(ReadType) : reads = <<r>>
    <3>1. <<r>> \in Seq(ReadType)
      OBVIOUS
    <3> QED BY <3>1
  <2>3. Append(blocked_reads, r) = reads /\ Enqueued(0) = buffer
    BY <1>5, <2>2 DEF AInv, IInv, TypeOK, Enqueued
  <2>4. d \in [Clients -> DeferredType] /\ Placed(d, reads, blocked_flushes)
    BY <1>4, <2>1, <2>3
  <2>5. DOMAIN waiting = {}
    <3>1. PICK w, q, e : w = waiting /\ q = blocked_reads /\ e = deferred
      OBVIOUS
    <3>2. Lined(e, w, q) /\ OnePlace(e, q, "read") /\ 1..Len(q) = {}
      BY <1>2, <1>5, <3>1 DEF Placed
    <3>3. ASSUME NEW i \in DOMAIN w PROVE FALSE
      <4>1. w[i] \in Clients /\ Waits(e[w[i]], "read")
        BY <3>2, ElementOfSeq, LenProperties DEF Lined
      <4> QED BY <4>1, <3>2 DEF OnePlace
    <3> QED BY <3>1, <3>3
  <2>6. Lined(d, waiting, reads)
    BY <1>2, <2>5 DEF Lined
  <2>7. Consume(reads, Enqueued(0), d)
    BY <1>5, <2>1, <2>2, <2>3
  <2>8. 0 \in Nat /\ (0 > 0 => ~closed)
    OBVIOUS
  <2> QED BY <2>4, <2>6, <2>7, <2>8, ConsumeInTurn
<1>6. CASE /\ deferred' = [deferred EXCEPT ![c] = Deferred("read", "Eof", << >>, n)]
           /\ UNCHANGED <<blocked_reads, waiting>>
  <2>1. SameBut(c, deferred, deferred')
    BY <1>4, <1>6
  <2>2. \A i \in DOMAIN waiting : deferred'[waiting[i]] = deferred[waiting[i]]
    BY <1>3, <2>1, OthersInLine DEF IdleIn
  <2> QED BY <1>6, <2>2, LineKept
<1>7. CASE /\ deferred' = [deferred EXCEPT ![c] = Deferred("read", "pending", << >>, n)]
           /\ blocked_reads' = Append(blocked_reads, r) /\ waiting' = Append(waiting, c)
  <2>1. PICK w, q, d, e : w = waiting /\ q = blocked_reads /\ d = deferred /\ e = deferred'
    OBVIOUS
  <2>2. SameBut(c, deferred, deferred') /\ Waits(e[c], "read")
    BY <1>4, <1>7, <2>1 DEF Waits
  <2>3. \A i \in DOMAIN w : w[i] # c /\ e[w[i]] = d[w[i]]
    BY <1>3, <2>1, <2>2, OthersInLine DEF IdleIn
  <2>4. Lined(d, w, q) /\ OnePlace(d, q, "read") /\ q \in Seq(ReadType) /\ ~Waits(d[c], "read")
    BY <1>2, <1>3, <2>1 DEF Placed, IdleIn
  <2>5. r.client = c
    BY <1>1
  <2>6. Lined(e, Append(w, c), Append(q, r))
    BY <2>2, <2>3, <2>4, <2>5, LineGrows
  <2>7. InTurn(e, w)
    BY <2>3, <2>4 DEF InTurn, Lined, Waits
  <2> QED BY <1>7, <2>1, <2>6, <2>7 DEF WInv
<1> QED BY <1>1, <1>5, <1>6, <1>7 DEF Read, Block

LEMMA ClosesInTurn ==
  ASSUME AInv, WInv, Close \/ CloseRead PROVE WInv' /\ InTurn(deferred', waiting)
<1>1. /\ blocked_reads \in Seq(ReadType) /\ blocked_flushes \in Seq(FlushType)
      /\ deferred \in [Clients -> DeferredType]
      /\ Placed(deferred, blocked_reads, blocked_flushes)
      /\ Lined(deferred, waiting, blocked_reads)
  BY QueuesTyped DEF AInv, IInv, CInv, WInv
<1>2. PICK w, q, e, v : w = waiting /\ q = blocked_reads /\ e = deferred' /\ v = waiting'
  OBVIOUS
<1>3. v = Selected(w, Unanswered(e)) /\ w \in Seq(Clients) /\ q \in Seq(ReadType)
  BY <1>1, <1>2 DEF Close, CloseRead, StillWaiting, Unanswered, Lined
(* nobody in the line is answered *)
<1>4. ASSUME NEW d, Lined(d, w, q), \A i \in DOMAIN w : e[w[i]] = d[w[i]], blocked_reads' = q
      PROVE  WInv' /\ InTurn(deferred', waiting)
  <2>1. Settled(d, e, w) /\ InTurn(e, w)
    BY <1>4 DEF Settled, InTurn, Lined, Waits
  <2>2. 0 \in 0..Len(q)
    BY <1>3, LenProperties
  <2>3. Lined(e, v, SubSeq(q, 0 + 1, Len(q)))
    BY <1>3, <1>4, <2>1, <2>2, LineLeft
  <2>4. SubSeq(q, 0 + 1, Len(q)) = q
    BY <1>3
  <2> QED BY <1>2, <1>4, <2>1, <2>3, <2>4 DEF WInv
(* or all are *)
<1>5. ASSUME NEW d \in [Clients -> DeferredType], NEW flushes \in Seq(FlushType),
             Placed(d, q, flushes), Lined(d, w, q),
             e = Fill(d, ClientsOf(q), "Eof"), blocked_reads' = << >>
      PROVE  WInv' /\ InTurn(deferred', waiting)
  <2>1. InTurn(e, w) /\ Lined(e, v, << >>)
    BY <1>3, <1>5, EndedInTurn
  <2> QED BY <1>2, <1>5, <2>1 DEF WInv
<1>6. CASE Close
  <2>1. CASE IsEmpty
    BY <2>1, <1>1, <1>2, <1>5, <1>6 DEF Close
  <2>2. CASE ~IsEmpty
    BY <2>2, <1>1, <1>2, <1>4, <1>6 DEF Close
  <2> QED BY <2>1, <2>2
<1>7. CASE CloseRead
  <2>1. PICK d : d = Fill(deferred, ClientsOf(blocked_flushes), "Reader_closed")
    OBVIOUS
  <2>2. /\ Placed(d, blocked_reads, << >>)
        /\ \A c \in Clients : ~Waits(deferred[c], "flushed") => d[c] = deferred[c]
    BY <1>1, <2>1, FilledFlushes
  <2>3. d \in [Clients -> DeferredType] /\ << >> \in Seq(FlushType)
    BY <1>1, <2>1, FillTyped, EmptySeq
  <2>4. \A i \in DOMAIN w : d[w[i]] = deferred[w[i]]
    <3>1. ASSUME NEW i \in DOMAIN w PROVE w[i] \in Clients /\ Waits(deferred[w[i]], "read")
      BY <1>1, <1>2, <1>3, ElementOfSeq, LenProperties DEF Lined
    <3> QED BY <2>2, <3>1 DEF Waits
  <2>5. Lined(d, w, q)
    BY <1>1, <1>2, <2>4 DEF Lined
  <2>6. CASE closed
    <3>1. e = d /\ blocked_reads' = q
      BY <1>2, <1>7, <2>1, <2>6 DEF CloseRead
    <3> QED BY <1>4, <2>5, <3>1
  <2>7. CASE ~closed
    <3>1. e = Fill(d, ClientsOf(q), "Eof") /\ blocked_reads' = << >>
      BY <1>2, <1>7, <2>1, <2>7 DEF CloseRead
    <3> QED BY <1>2, <1>5, <2>2, <2>3, <2>5, <3>1
  <2> QED BY <2>6, <2>7
<1> QED BY <1>6, <1>7

LEMMA OthersInTurn ==
  ASSUME AInv, WInv
  PROVE  /\ \A c \in Clients : Flushed(c) => WInv' /\ InTurn(deferred', waiting)
         /\ \A b \in Budgets : SetSizeBudget(b) => WInv' /\ InTurn(deferred', waiting)
         /\ UNCHANGED vars => WInv' /\ InTurn(deferred', waiting)
<1>1. ASSUME NEW c \in Clients, Flushed(c) PROVE WInv' /\ InTurn(deferred', waiting)
  <2>1. /\ UNCHANGED <<waiting, blocked_reads>>
        /\ \E x : deferred' = [deferred EXCEPT ![c] = x]
    BY <1>1 DEF Flushed, history
  <2>2. SameBut(c, deferred, deferred')
    BY <2>1, QueuesTyped DEF AInv, IInv, SameBut
  <2>3. ~Waits(deferred[c], "read")
    BY <1>1 DEF Flushed, Idle, Waits
  <2>4. \A i \in DOMAIN waiting : deferred'[waiting[i]] = deferred[waiting[i]]
    BY <2>2, <2>3, OthersInLine
  <2> QED BY <2>1, <2>4, LineKept
<1>2. ASSUME NEW b \in Budgets, SetSizeBudget(b) PROVE WInv' /\ InTurn(deferred', waiting)
  <2>1. UNCHANGED <<waiting, blocked_reads, deferred>>
    BY <1>2 DEF SetSizeBudget, history
  <2> QED BY <2>1, LineKept
<1>3. ASSUME UNCHANGED vars PROVE WInv' /\ InTurn(deferred', waiting)
  <2>1. UNCHANGED <<waiting, blocked_reads, deferred>>
    BY <1>3 DEF vars, pipeVars, history
  <2> QED BY <2>1, LineKept
<1> QED BY <1>1, <1>2, <1>3

LEMMA NextInTurn == AInv /\ WInv /\ [Next]_vars => WInv' /\ InTurn(deferred', waiting)
<1> SUFFICES ASSUME AInv, WInv, [Next]_vars PROVE WInv' /\ InTurn(deferred', waiting)
  OBVIOUS
<1> QED BY WritesInTurn, ReadInTurn, ClosesInTurn, OthersInTurn DEF Next

(* However many reads block, with whatever batches, one that blocked first *)
(* is never passed over and gets the older values: blocked_reads is served *)
(* from its front by consume_one, consume_all and consume_at_most, and the *)
(* history of waiting reads stays in its order.                            *)
THEOREM ReadsAreServedInTurn == Spec => FirstComeFirstServed
<1>1. Init => AInv /\ WInv
  <2>1. Init => WInv
    BY EmptySeq DEF Init, WInv, Lined
  <2> QED BY <2>1, InitInvariant, AnswersInit DEF AInv
<1>2. AInv /\ WInv /\ [Next]_vars => AInv' /\ WInv'
  BY NextInvariant, NextAnswers, NextInTurn DEF AInv
<1>3. AInv /\ WInv /\ [Next]_vars =>
        [\A i, j \in DOMAIN waiting :
           LET before == deferred'[waiting[i]]
               after  == deferred'[waiting[j]]
           IN  i < j /\ after.answer # "pending" =>
                 /\ before.answer # "pending"
                 /\ \A m \in DOMAIN before.values : \A n \in DOMAIN after.values :
                      before.values[m] < after.values[n]]_vars
  BY NextInTurn DEF InTurn
<1> QED BY <1>1, <1>2, <1>3, PTL DEF Spec, FirstComeFirstServed
=============================================================================
