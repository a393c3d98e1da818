-------------------------------- MODULE Pipe --------------------------------
(***************************************************************************)
(* Async's Pipe (async/core/lib/pipe.ml): an unbounded FIFO buffer with    *)
(* advisory pushback, blocked reads served first come first serve, and     *)
(* flush notifications.                                                    *)
(*                                                                         *)
(* Async runs one job at a time, so each call of a pipe function is one    *)
(* action; what interleaves is the order of calls and the delay between a  *)
(* deferred becoming determined and its callback running (Callback and     *)
(* WithWriteCallback).  A client stands for one Async task: it holds at    *)
(* most one deferred of the pipe at a time.                                *)
(*                                                                         *)
(* The pipe is polymorphic, so the i-th value written is the number i; the *)
(* history variables written and delivered then say what was lost,         *)
(* duplicated or reordered.                                                *)
(***************************************************************************)
EXTENDS Integers, Sequences, Selection

CONSTANTS
  Clients,       \* the Async tasks that use the pipe
  MaxWritten,    \* bound: how many values are written in a behaviour
  MaxBatch,      \* bound: the longest queue given to write' or asked of read_at_most
  Budgets,       \* the arguments of set_size_budget
  MaxPushbacks   \* bound: how many pushback ivars set_size_budget may bring about

ASSUME PipeAssumption ==
  /\ MaxWritten \in Nat /\ MaxBatch \in Nat /\ MaxPushbacks \in Nat
  /\ Budgets \subseteq Int

VARIABLES
  buffer,           \* values written and not yet read
  size_budget,
  pushback,         \* the current pushback ivar, numbered by creation
  filled,           \* the pushback ivars that are full
  num_values_read,
  blocked_flushes,  \* sequence of [fill_when_num_values_read, client]
  blocked_reads,    \* sequence of [wants, client]
  closed,           \* is the [closed] ivar full?
  deferred,         \* the deferred each client holds
  written,          \* history: how many values were written
  delivered,        \* history: the values handed to reads, in that order
  read_closed,      \* history: was close_read called?
  waiting           \* history: the clients whose reads are pending, oldest first

pipeVars == <<buffer, size_budget, pushback, filled, num_values_read,
              blocked_flushes, blocked_reads, closed>>
history == <<written, delivered, read_closed, waiting>>
vars == <<pipeVars, deferred, history>>
-----------------------------------------------------------------------------
(* Blocked_read's constructors by the number of values they take: Zero     *)
(* (values_available), One (read), At_most n (read_at_most), All (read').  *)
All == MaxWritten + 1
Wants == 0..MaxBatch \cup {1, All}

Length == Len(buffer)
IsEmpty == buffer = << >>

(* A deferred: the call that returned it, its ivar's content, and a mark:  *)
(* how many values a read wants, the count of values a flush waits for, *)
(* or the pushback ivar that is waited for.            *)
Deferred(call, answer, values, mark) ==
  [call |-> call, answer |-> answer, values |-> values, mark |-> mark]
NoDeferred == Deferred("none", "none", << >>, 0)

Idle(c) == deferred[c].call = "none"
AwaitsPushback(c) == deferred[c].call \in {"pushback", "with_write"}
IsDetermined(c) ==
  IF AwaitsPushback(c) THEN deferred[c].mark \in filled
                       ELSE deferred[c].answer # "pending"

(* d after the clients of cs have their ivars filled with answer.          *)
Fill(d, cs, answer) ==
  [c \in Clients |-> IF c \in cs THEN [d[c] EXCEPT !.answer = answer] ELSE d[c]]

ClientsOf(s) == {s[i].client : i \in DOMAIN s}

(* update_pushback, in the state the operation leaves behind.              *)
HasSpaceOpenOnly == Len(buffer') <= size_budget'  \* mutant of HasSpace
HasSpace == Len(buffer') <= size_budget' \/ closed'
NewPushbackAlways == ~HasSpace  \* mutant of NewPushback
NewPushback == ~HasSpace /\ pushback \in filled
UpdatePushback ==
  /\ filled' = IF HasSpace THEN filled \cup {pushback} ELSE filled
  /\ pushback' = IF NewPushback THEN pushback + 1 ELSE pushback

(* fill_flushes dequeues the longest prefix whose counts have been reached *)
(* when m values have been read.                                           *)
FlushesDue(m) ==
  {k \in 0..Len(blocked_flushes) :
     /\ \A i \in 1..k : blocked_flushes[i].fill_when_num_values_read <= m
     /\ k < Len(blocked_flushes) =>
          blocked_flushes[k + 1].fill_when_num_values_read > m}

(* The loop of fill_blocked_reads over the queue reads, on n buffered      *)
(* values: after read i has been served, cut[i] values have been consumed; *)
(* a read is served only while the buffer is not empty.                    *)
Cuts(reads, n) ==
  {cut \in [0..Len(reads) -> 0..n] :
     /\ cut[0] = 0
     /\ \A i \in 1..Len(reads) :
          cut[i] = IF cut[i-1] + reads[i].wants < n THEN cut[i-1] + reads[i].wants
                                                    ELSE n}
Served(reads, n, cut) ==
  {k \in 0..Len(reads) : /\ \A i \in 1..k : cut[i-1] < n
                         /\ k = Len(reads) \/ cut[k] = n}

(* The history of reads that are still pending.                            *)
StillWaiting ==
  waiting' = Selected(waiting, {c \in Clients : deferred'[c].answer = "pending"})

(* What read i gets of buf.                                                *)
ShareFromFront(buf, cut, i) == SubSeq(buf, 1, cut[i])  \* mutant of Share
Share(buf, cut, i) == SubSeq(buf, cut[i-1] + 1, cut[i])

(* Values of buf go to the reads at the front of reads (consume_one,       *)
(* consume_all and consume_at_most, which fill flushes as they count);     *)
(* rest' is the queue of reads left, and d what the clients hold.  The     *)
(* calls of update_pushback on the way are one call at the end: only this  *)
(* job could see the ivars in between.                                     *)
ConsumeUpTo(reads, buf, d, cut, k, f) ==
  /\ buffer' = SubSeq(buf, cut[k] + 1, Len(buf))
  /\ num_values_read' = num_values_read + cut[k]
  /\ delivered' = delivered \o SubSeq(buf, 1, cut[k])
  /\ blocked_reads' = SubSeq(reads, k + 1, Len(reads))
  /\ blocked_flushes' = SubSeq(blocked_flushes, f + 1, Len(blocked_flushes))
  /\ UNCHANGED <<size_budget, closed, read_closed>>
  /\ UpdatePushback
  /\ deferred' = [c \in Clients |->
       IF \E i \in 1..k : reads[i].client = c
       THEN LET i == CHOOSE i \in 1..k : reads[i].client = c
            IN  [d[c] EXCEPT !.answer = "Ok", !.values = Share(buf, cut, i)]
       ELSE IF \E i \in 1..f : blocked_flushes[i].client = c
       THEN [d[c] EXCEPT !.answer = "Ok"]
       ELSE d[c]]
  /\ StillWaiting
Consume(reads, buf, d) ==
  \E cut \in Cuts(reads, Len(buf)) :
    \E k \in Served(reads, Len(buf), cut) :
      \E f \in FlushesDue(num_values_read + cut[k]) :
        ConsumeUpTo(reads, buf, d, cut, k, f)
-----------------------------------------------------------------------------
Init ==
  /\ buffer = << >> /\ size_budget = 0 /\ num_values_read = 0
  /\ pushback = 1 /\ filled = {1}
  /\ blocked_flushes = << >> /\ blocked_reads = << >>
  /\ closed = FALSE
  /\ deferred = [c \in Clients |-> NoDeferred]
  /\ written = 0 /\ delivered = << >> /\ read_closed = FALSE /\ waiting = << >>

AcceptsUntilReadClosed == ~read_closed  \* mutant of Accepts
Accepts == ~closed
Enqueued(n) == buffer \o [i \in 1..n |-> written + i]

(* n values enter the buffer and go on to the reads that wait for them.    *)
(* A closed pipe raises instead and nothing changes.                       *)
WriteValues(n, d) ==
  /\ Accepts
  /\ written + n <= MaxWritten
  /\ written' = written + n
  /\ Consume(blocked_reads, Enqueued(n), d)

(* write_no_pushback: the task does not wait.                              *)
WriteNoPushback == WriteValues(1, deferred)

(* write' and write: the caller waits for the pushback left behind.        *)
Write(c, n) ==
  /\ Idle(c)
  /\ WriteValues(n, [deferred EXCEPT ![c] = Deferred("pushback", "none", << >>, pushback')])

(* with_write waits for the pushback it finds ...                          *)
WithWrite(c) ==
  /\ Idle(c)
  /\ deferred' = [deferred EXCEPT ![c] = Deferred("with_write", "none", << >>, pushback)]
  /\ UNCHANGED <<pipeVars, history>>

(* ... and looks at the pipe again when its callback runs: `Closed, or f   *)
(* writes n values.                                                        *)
WithWriteCallback(c, n) ==
  /\ deferred[c].call = "with_write" /\ IsDetermined(c)
  /\ LET d == [deferred EXCEPT ![c] = NoDeferred]
     IN  \/ /\ closed
            /\ deferred' = d
            /\ UNCHANGED <<pipeVars, history>>
         \/ WriteValues(n, d)

BlockInFront(c, n) == <<[wants |-> n, client |-> c]>> \o blocked_reads  \* mutant of Block
Block(c, n) == Append(blocked_reads, [wants |-> n, client |-> c])

(* read, read', read_at_most and values_available: an answer at once, or a *)
(* place in blocked_reads.                                                 *)
Read(c, n) ==
  /\ Idle(c)
  /\ LET asked(answer) ==
           [deferred EXCEPT ![c] = Deferred("read", answer, << >>, n)]
     IN  \/ /\ ~IsEmpty /\ blocked_reads = << >>
            /\ Consume(<<[wants |-> n, client |-> c]>>, buffer, asked("pending"))
            /\ UNCHANGED written
         \/ /\ IsEmpty
            /\ IF closed
               THEN /\ deferred' = asked("Eof")
                    /\ UNCHANGED <<blocked_reads, waiting>>
               ELSE /\ deferred' = asked("pending")
                    /\ blocked_reads' = Block(c, n)
                    /\ waiting' = Append(waiting, c)
            /\ UNCHANGED <<buffer, size_budget, pushback, filled, num_values_read,
                           blocked_flushes, closed, written, delivered, read_closed>>

(* The values that flushed waits for: all those written, unless the read   *)
(* end is closed and the ones left behind never come out.                  *)
Awaited == IF read_closed THEN Len(delivered) ELSE written

Flushed(c) ==
  /\ Idle(c)
  /\ IF IsEmpty
     THEN /\ deferred' = [deferred EXCEPT ![c] = Deferred("flushed", "Ok", << >>, Awaited)]
          /\ UNCHANGED blocked_flushes
     ELSE /\ deferred' =
               [deferred EXCEPT ![c] = Deferred("flushed", "pending", << >>, Awaited)]
          /\ blocked_flushes' = Append(blocked_flushes,
               [fill_when_num_values_read |-> num_values_read + Length, client |-> c])
  /\ UNCHANGED <<buffer, size_budget, pushback, filled, num_values_read,
                 blocked_reads, closed, history>>

Close ==
  /\ ~closed
  /\ closed' = TRUE
  /\ IF IsEmpty
     THEN /\ deferred' = Fill(deferred, ClientsOf(blocked_reads), "Eof")
          /\ blocked_reads' = << >>
     ELSE UNCHANGED <<deferred, blocked_reads>>
  /\ UNCHANGED <<buffer, size_budget, num_values_read, blocked_flushes,
                 written, delivered, read_closed>>
  /\ UpdatePushback /\ StillWaiting

(* close_read ends with close, so its blocked reads end with `Eof.         *)
CloseRead ==
  /\ closed' = TRUE /\ read_closed' = TRUE
  /\ buffer' = << >> /\ blocked_flushes' = << >>
  /\ LET d == Fill(deferred, ClientsOf(blocked_flushes), "Reader_closed")
     IN  IF closed
         THEN deferred' = d /\ UNCHANGED blocked_reads
         ELSE /\ deferred' = Fill(d, ClientsOf(blocked_reads), "Eof")
              /\ blocked_reads' = << >>
  /\ UNCHANGED <<size_budget, num_values_read, written, delivered>>
  /\ UpdatePushback /\ StillWaiting

ValidBudget(b) == b >= 0

(* set_size_budget raises on a negative budget.                            *)
SetSizeBudget(b) ==
  /\ ValidBudget(b)
  /\ pushback < MaxPushbacks
  /\ size_budget' = b
  /\ UNCHANGED <<buffer, num_values_read, blocked_flushes, blocked_reads, closed,
                 deferred, history>>
  /\ UpdatePushback

(* The job that the determined deferred of c has scheduled runs.           *)
Callback(c) ==
  /\ ~Idle(c) /\ deferred[c].call # "with_write" /\ IsDetermined(c)
  /\ deferred' = [deferred EXCEPT ![c] = NoDeferred]
  /\ UNCHANGED <<pipeVars, history>>

Next ==
  \/ WriteNoPushback \/ Close \/ CloseRead
  \/ \E b \in Budgets : SetSizeBudget(b)
  \/ \E c \in Clients :
       \/ WithWrite(c) \/ Flushed(c) \/ Callback(c)
       \/ \E n \in 0..MaxBatch : Write(c, n)
       \/ \E n \in {0, 1} : WithWriteCallback(c, n)
       \/ \E n \in Wants : Read(c, n)

Spec == Init /\ [][Next]_vars
-----------------------------------------------------------------------------
(* Type correctness.                                                       *)
TypeOK ==
  /\ buffer \in Seq(Nat) /\ delivered \in Seq(Nat)
  /\ size_budget \in Nat /\ num_values_read \in Nat /\ written \in Nat
  /\ pushback \in Nat \ {0} /\ filled \subseteq Nat
  /\ blocked_flushes \in Seq([fill_when_num_values_read : Nat, client : Clients])
  /\ blocked_reads \in Seq([wants : Wants, client : Clients])
  /\ closed \in BOOLEAN /\ read_closed \in BOOLEAN
  /\ deferred \in [Clients -> [call : {"none", "read", "flushed", "pushback", "with_write"},
                               answer : {"none", "pending", "Ok", "Eof", "Reader_closed"},
                               values : Seq(Nat), mark : Nat]]

(* What the code's own [invariant] asserts at the start of every operation *)
(* when check_invariant is set, part by part.                              *)
PushbackExact ==
  pushback \in filled <=> (Length <= size_budget \/ closed)
AllAhead(q, m) ==
  \A i \in 1..Len(q) : q[i].fill_when_num_values_read > m
Sorted(q) ==
  \A i, j \in 1..Len(q) : i < j =>
    q[i].fill_when_num_values_read <= q[j].fill_when_num_values_read
FlushesAhead ==
  /\ AllAhead(blocked_flushes, num_values_read) /\ Sorted(blocked_flushes)
  /\ IsEmpty => blocked_flushes = << >>
ReadsMeetValues ==
  blocked_reads # << >> => IsEmpty /\ ~closed
PipeInvariant == PushbackExact /\ FlushesAhead /\ ReadsMeetValues

(* Values come out in the order they went in, once each, and every value   *)
(* is either out or in the buffer until the read end is closed: no batch   *)
(* size, waiting read or flush makes consume_one, consume_all and          *)
(* consume_at_most lose, repeat or reorder one.                            *)
InOrder(out, buf) ==
  /\ \A i \in 1..Len(out) : out[i] = i
  /\ \A i \in 1..Len(buf) : buf[i] = Len(out) + i
FifoDelivery ==
  /\ InOrder(delivered, buffer)
  /\ num_values_read = Len(delivered)
  /\ ~read_closed => Len(delivered) + Length = written

(* A flush says `Ok only when every value written before it has been       *)
(* handed to a read, and `Reader_closed only when one of them never will   *)
(* be; while it waits, some of them are still in the buffer.               *)
FlushTruth ==
  \A c \in Clients : deferred[c].call = "flushed" =>
    /\ deferred[c].answer = "Ok" <=> Len(delivered) >= deferred[c].mark
    /\ deferred[c].answer = "Reader_closed" => read_closed
    /\ deferred[c].answer = "pending" => ~read_closed

(* No deferred is forgotten: a client whose read or flush is pending has   *)
(* exactly one place in the queue that will answer it, only such clients   *)
(* have one, and a pushback ivar that somebody waits for is either full or *)
(* still the pipe's own, hence filled when the pipe drains or closes.      *)
QueuedOnce(c, q) == \E i \in DOMAIN q : \A j \in DOMAIN q : q[j].client = c <=> j = i
NoForgottenDeferred ==
  \A c \in Clients :
    /\ IF deferred[c].call = "read" /\ deferred[c].answer = "pending"
       THEN QueuedOnce(c, blocked_reads)
       ELSE c \notin ClientsOf(blocked_reads)
    /\ IF deferred[c].call = "flushed" /\ deferred[c].answer = "pending"
       THEN QueuedOnce(c, blocked_flushes)
       ELSE c \notin ClientsOf(blocked_flushes)
    /\ AwaitsPushback(c) => deferred[c].mark \in filled \cup {pushback}

(* A read gets what it asked for: at least one value and no more than it   *)
(* wants, consecutive ones that no other read got; `Eof only at the end of *)
(* a closed pipe; values_available says `Ok without taking any.            *)
ReadAnswers ==
  \A c \in Clients : deferred[c].call = "read" =>
    LET d == deferred[c]
    IN  /\ d.answer = "Ok" =>
             /\ IF d.mark = 0 THEN d.values = << >> ELSE Len(d.values) \in 1..d.mark
             /\ \A i \in DOMAIN d.values : /\ d.values[i] = d.values[1] + i - 1
                                           /\ d.values[i] <= num_values_read
             /\ \A e \in Clients \ {c} : \A i \in DOMAIN d.values :
                  \A j \in DOMAIN deferred[e].values :
                    deferred[e].values[j] # d.values[i]
        /\ d.answer = "Eof" => closed /\ IsEmpty

(* Whatever the pipe answers, to a flush or to a read, is true.            *)
AnswersTrue == FlushTruth /\ ReadAnswers

(* Blocked reads are served first come first serve: no step answers a read *)
(* and leaves one that blocked before it waiting, or gives it older values.*)
FirstComeFirstServed ==
  [][\A i, j \in DOMAIN waiting :
       LET before == deferred'[waiting[i]]
           after  == deferred'[waiting[j]]
       IN  i < j /\ after.answer # "pending" =>
             /\ before.answer # "pending"
             /\ \A m \in DOMAIN before.values : \A n \in DOMAIN after.values :
                  before.values[m] < after.values[n]]_vars

(* The pipe is the channel it promises to be.                              *)
C == INSTANCE Channel WITH
       transit <- buffer, out <- delivered, open <- ~closed, dropped <- read_closed,
       flush <- [c \in Clients |->
         IF deferred[c].call = "flushed"
         THEN [until |-> deferred[c].mark, answer |-> deferred[c].answer]
         ELSE [until |-> 0, answer |-> "none"]]
ImplementsChannel == C!Spec

(* pipe.mli:142 says that with_write waits until there is space available  *)
(* and then calls f: there is space when f writes its first value.         *)
WithWriteHasSpace ==
  [][\A c \in Clients :
       deferred[c].call = "with_write" /\ deferred'[c] = NoDeferred /\ written' > written
         => Length <= size_budget]_vars
=============================================================================
