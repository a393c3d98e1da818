------------------------------- MODULE Writer -------------------------------
(***************************************************************************)
(* Async's writer (writer.ml): bytes are collected in a buffer, or         *)
(* scheduled in bigstrings of their own, and a background writer gives     *)
(* them to the operating system, at once or in a thread, in parts.  A      *)
(* client may ask when what it wrote is flushed, and close the writer,     *)
(* which gives up waiting for the flush in four different cases.           *)
(*                                                                         *)
(* What happens in one Async job is one action.  The fields of the record  *)
(* t are those of the source's type t; an operator on such a record is the *)
(* function of that name.  The bytes of the stream are numbered in the     *)
(* order in which the client passed them.                                  *)
(***************************************************************************)
EXTENDS Integers, FiniteSets, Sequences

CONSTANTS
  Settings,   \* [supports_nonblock, periodic, limited]: of Fd.t and create
  BufLen,     \* buf_len
  Sizes,      \* bound: the lengths of the strings that clients write
  Values,     \* bound: the lengths of the values they write or marshal
  Iovecs,     \* bound: the iovecs [pos, len] that clients schedule
  MaxBytes,   \* bound: the bytes in the stream
  MaxIovecs,  \* IOVec.max_iovecs
  Requests,   \* calls of flushed
  Closer      \* the call of flushed that close makes

ASSUME WriterAssumption ==
  /\ BufLen \in Nat \ {0} /\ MaxIovecs \in Nat \ {0} /\ MaxBytes \in Nat
  /\ Settings \subseteq [supports_nonblock : BOOLEAN, periodic : BOOLEAN, limited : BOOLEAN]
  /\ Sizes \subseteq Nat /\ Values \subseteq Nat \ {0} /\ Iovecs \subseteq [pos : Nat, len : Nat]
  /\ Closer \notin Requests

VARIABLES
  set,     \* how the writer was created
  t,       \* the writer
  flight,  \* what the thread's writev was given, and its result
  fd,      \* the Fd.t: "open", "requested" (to close) or "closed"
  closing, \* close: "no", "waiting", "closing" or "finished"
  force,   \* will force_close be determined?
  too_old, \* Check_buffer_age: is the too_old ivar full?
  file,    \* the bytes that the system took
  given,   \* history: how many bytes the client passed
  skipped, \* history: the sum of the positions of the iovecs it scheduled
  shrunk,  \* history: an iovec was counted as fewer bytes than none
  spoilt,  \* history: a write_bin_prot raised in the middle
  mark     \* history: given - skipped when each flush was asked for

writerVars ==
  <<set, t, flight, fd, closing, force, too_old, file, given, skipped, shrunk, spoilt, mark>>

NoFlight == [iovecs |-> <<>>, done |-> FALSE, n |-> 0, err |-> "none"]

InitWriter ==
  /\ set \in Settings
  /\ t = [state |-> "Not_running", job |-> "none", received |-> 0, written |-> 0,
          scheduled |-> <<>>, scheduled_bytes |-> 0,
          mem |-> [b \in {0, 1} |-> IF b = 0 THEN <<>> ELSE [i \in 1..BufLen |-> 0]],
          buf |-> 1, scheduled_back |-> 0, back |-> 0,
          flushes |-> <<>>, filled |-> {}, epipe |-> FALSE, dead |-> FALSE]
  /\ flight = NoFlight /\ fd = "open"
  /\ closing = "no" /\ force = FALSE /\ too_old = FALSE
  /\ file = <<>> /\ given = 0 /\ skipped = 0 /\ shrunk = FALSE /\ spoilt = FALSE
  /\ mark = [r \in Requests \cup {Closer} |-> 0]

-----------------------------------------------------------------------------
(* Buffers: mem[b] is what the bigstring b holds.  0 is the empty one.     *)

NewBigstring(u) == CHOOSE b \in 1..Cardinality(DOMAIN u.mem) : b \notin DOMAIN u.mem

Allocated(u, b, bytes) ==
  [u EXCEPT !.mem = [c \in DOMAIN @ \cup {b} |-> IF c = b THEN bytes ELSE @[c]]]

\* Bigstrings that nobody refers to are collected, and what is in the other
\* bytes that nobody refers to does not matter: 0.
Live(u) == {0, u.buf} \cup {u.scheduled[i].buf : i \in DOMAIN u.scheduled}
Used(u, b, k) ==
  \/ b = u.buf /\ k \in u.scheduled_back + 1 .. u.back
  \/ \E i \in DOMAIN u.scheduled :
       LET v == u.scheduled[i] IN v.buf = b /\ k \in v.pos + 1 .. v.pos + v.len
Collect(u) ==
  [u EXCEPT !.mem = [b \in Live(u) |->
     [k \in DOMAIN u.mem[b] |-> IF Used(u, b, k) THEN u.mem[b][k] ELSE 0]]]

IOVec(b, pos, len, kind) == [buf |-> b, pos |-> pos, len |-> len, kind |-> kind]

\* How many bytes the first i iovecs have.
Ends(iovecs) ==
  LET upto[i \in 0..Len(iovecs)] == IF i = 0 THEN 0 ELSE upto[i - 1] + iovecs[i].len
  IN  upto
iovecs_length(iovecs) == Ends(iovecs)[Len(iovecs)]

\* The bytes that writev finds in memory.
Contents(iovecs) ==
  LET ends  == Ends(iovecs)
      Holder(p) == CHOOSE i \in DOMAIN iovecs : p \in ends[i - 1] + 1 .. ends[i]
  IN  [p \in 1..iovecs_length(iovecs) |->
         t.mem[iovecs[Holder(p)].buf][iovecs[Holder(p)].pos + p - ends[Holder(p) - 1]]]

bytes_to_write(u) == u.scheduled_bytes + u.back - u.scheduled_back
Stopped(u) == u.state = "Stopped_permanently"
Available(u) == Len(u.mem[u.buf]) - u.back

-----------------------------------------------------------------------------
(* The functions that add bytes. *)

GotBytes(u, n) == [u EXCEPT !.received = @ + n]

AddIovec(u, v) ==
  IF Stopped(u) THEN u
  ELSE [u EXCEPT !.scheduled_bytes = @ + v.len, !.scheduled = Append(@, v)]

ScheduleUnscheduled(u, kind) ==
  IF u.back = u.scheduled_back THEN u
  ELSE AddIovec([u EXCEPT !.scheduled_back = u.back],
                IOVec(u.buf, u.scheduled_back, u.back - u.scheduled_back, kind))

MaybeStartWriter(u) ==
  IF u.state = "Not_running" THEN [u EXCEPT !.state = "Running", !.job = "start"] ELSE u

\* A blit into the buffer's free space.
Blit(u, bytes) ==
  [u EXCEPT !.back = @ + Len(bytes),
            !.mem[u.buf] = [i \in DOMAIN @ |-> IF i \in u.back + 1 .. u.back + Len(bytes)
                                               THEN bytes[i - u.back] ELSE @[i]]]

\* give_buf, and the caller's blit of its bytes into what it was given: the
\* buffer, a bigstring of their own, or a new buffer.
Dedicated(u, bytes) ==
  AddIovec(Allocated(u, NewBigstring(u), bytes),
           IOVec(NewBigstring(u), 0, Len(bytes), "Destroy"))
NewBuffer(u, bytes) ==
  Blit([Allocated(u, NewBigstring(u), [i \in 1..Len(u.mem[u.buf]) |-> 0])
          EXCEPT !.buf = NewBigstring(u), !.scheduled_back = 0, !.back = 0],
       bytes)
GiveBufAhead(u, bytes) ==  \* mutant of GiveBuf
  IF Len(bytes) <= Available(u) THEN Blit(u, bytes)
  ELSE IF Len(bytes) > Len(u.mem[u.buf]) \div 2
  THEN ScheduleUnscheduled(Dedicated(u, bytes), "Keep")
  ELSE NewBuffer(ScheduleUnscheduled(u, "Destroy"), bytes)
GiveBuf(u, bytes) ==
  IF Len(bytes) <= Available(u) THEN Blit(u, bytes)
  ELSE IF Len(bytes) > Len(u.mem[u.buf]) \div 2
  THEN Dedicated(ScheduleUnscheduled(u, "Keep"), bytes)
  ELSE NewBuffer(ScheduleUnscheduled(u, "Destroy"), bytes)

\* write_substring: what does not fit into the buffer goes where give_buf says.
WriteSubstring(u, bytes) ==
  IF Len(bytes) <= Available(u) THEN Blit(u, bytes)
  ELSE GiveBuf(Blit(u, SubSeq(bytes, 1, Available(u))),
               SubSeq(bytes, Available(u) + 1, Len(bytes)))

\* The client's next n bytes.
Bytes(n) == [i \in 1..n |-> given + i]
Pass(n) ==
  /\ closing = "no" /\ given + n <= MaxBytes
  /\ given' = given + n
  /\ UNCHANGED <<set, flight, fd, closing, force, too_old, file, mark>>

\* write, and all that end in write_substring; write_char is the same for
\* one byte.  A writer that has stopped only counts.
Write(n) ==
  /\ Pass(n)
  /\ t' = IF Stopped(t) THEN GotBytes(t, n)
          ELSE Collect(MaybeStartWriter(WriteSubstring(GotBytes(t, n), Bytes(n))))
  /\ UNCHANGED <<skipped, shrunk, spoilt>>

\* write_bin_prot; if the type's writer raises, the bytes given by give_buf
\* stay, but nobody starts the background writer.
WriteBinProt(n, raises) ==
  /\ Pass(n)
  /\ spoilt' = (spoilt \/ (raises /\ ~Stopped(t)))
  /\ t' = IF Stopped(t) THEN GotBytes(t, n)
          ELSE IF raises THEN Collect(GiveBuf(GotBytes(t, n), Bytes(n)))
          ELSE Collect(MaybeStartWriter(GiveBuf(GotBytes(t, n), Bytes(n))))
  /\ UNCHANGED <<skipped, shrunk>>

\* write_marshal and schedule_iovecs: a bigstring that holds the n bytes from
\* pos on.  The bytes counted as received are n - pos.
CountedFor(u, pos, len) == GotBytes(u, len - pos)
Scheduled(u, pos, bytes, kind) ==
  AddIovec(Allocated(CountedFor(u, pos, Len(bytes)), NewBigstring(u),
                     [i \in 1..pos |-> 0] \o bytes),
           IOVec(NewBigstring(u), pos, Len(bytes), kind))

Schedule(pos, n, kind) ==
  /\ Pass(n)
  /\ t' = Collect(MaybeStartWriter(Scheduled(ScheduleUnscheduled(t, "Keep"), pos, Bytes(n), kind)))
  /\ skipped' = skipped + pos /\ shrunk' = (shrunk \/ pos > n)
  /\ UNCHANGED spoilt
WriteMarshal(n) == Schedule(0, n, "Destroy")
ScheduleIovec(v) == Schedule(v.pos, v.len, "Keep")

-----------------------------------------------------------------------------
(* The background writer. *)

StopPermanently(u) ==
  [u EXCEPT !.state = "Stopped_permanently", !.job = "none", !.scheduled = <<>>,
            !.scheduled_bytes = 0, !.buf = 0, !.scheduled_back = 0, !.back = 0,
            !.mem = [b \in {0} |-> <<>>]]
Die(u) == [StopPermanently(u) EXCEPT !.dead = TRUE]

FillFlushes(u) ==
  LET due == Cardinality({i \in DOMAIN u.flushes :
                            \A j \in 1..i : u.flushes[j].z <= u.written})
  IN  [u EXCEPT !.filled = @ \cup {u.flushes[i].who : i \in 1..due},
                !.flushes = SubSeq(@, due + 1, Len(@))]

\* remove_done: iovecs that are written are removed, and destroyed if they
\* are the writer's own; of the next one the rest is kept.
Rest(v, n) == [v EXCEPT !.pos = @ + n, !.len = @ - n]
Partial(iovecs, n) ==
  IF iovecs = <<>> THEN <<>> ELSE <<Rest(Head(iovecs), n)>> \o Tail(iovecs)
RemoveDone(u, n) ==
  LET ends  == Ends(u.scheduled)
      done  == Cardinality({i \in DOMAIN u.scheduled : ends[i] <= n})
      first == SubSeq(u.scheduled, 1, done)
  IN  [u EXCEPT !.mem = [b \in DOMAIN @ |->
                           IF \E i \in 1..done : first[i].buf = b /\ first[i].kind = "Destroy"
                           THEN <<>> ELSE @[b]],
                !.scheduled = Partial(SubSeq(@, done + 1, Len(@)), n - ends[done])]

NextWriteFromTheMiddle(u) ==  \* mutant of NextWrite
  IF u.scheduled = <<>>
  THEN [u EXCEPT !.back = 0, !.state = "Not_running", !.job = "none"]
  ELSE [u EXCEPT !.job = IF set.periodic THEN "after" ELSE "ready"]
NextWrite(u) ==
  IF u.scheduled = <<>>
  THEN [u EXCEPT !.back = 0, !.scheduled_back = 0, !.state = "Not_running", !.job = "none"]
  ELSE [u EXCEPT !.job = IF set.periodic THEN "after" ELSE "ready"]

Written(u, n) == [u EXCEPT !.written = @ + n, !.scheduled_bytes = @ - n]
WriteFinished(u, n) ==
  \E w \in {Written(u, n)} :
    \/ w.written > w.received /\ t' = Die(w)
    \/ /\ w.written <= w.received
       /\ \E f \in {FillFlushes(w)} : \E r \in {RemoveDone(f, n)} :
            \E s \in {NextWrite(ScheduleUnscheduled(r, "Keep"))} : t' = Collect(s)

HandleWriteResult(u, n, err) ==
  \/ err = "none" /\ WriteFinished(u, n)
  \/ err = "EAGAIN" /\ t' = [u EXCEPT !.job = "ready"]
  \/ err = "EPIPE" /\ t' = [StopPermanently(u) EXCEPT !.epipe = TRUE]
  \/ err = "other" /\ t' = Die(u)

MkIovecs(u) ==
  IF Len(u.scheduled) <= MaxIovecs THEN u.scheduled ELSE SubSeq(u.scheduled, 1, MaxIovecs)

\* What a writev of these iovecs may do: take some bytes, or fail.
Errors == {"other"} \cup IF set.supports_nonblock THEN {"EAGAIN", "EPIPE"} ELSE {}
SystemTakes(iovecs, n) ==
  /\ n \in 0..iovecs_length(iovecs) /\ (n = 0 <=> iovecs_length(iovecs) = 0)
  /\ file' = file \o SubSeq(Contents(iovecs), 1, n)

unchangedByWriting ==
  <<set, fd, closing, force, too_old, given, skipped, shrunk, spoilt, mark>>

\* start_write, as the job that starts the writer, after a period, or when
\* the descriptor is ready; u is the writer after its schedule_unscheduled.
\* The write is made at once if the descriptor supports it and the bytes
\* are few and not mapped to a file.
Starting == ScheduleUnscheduled(t, "Keep")

StartAt == t.job \in {"start", "ready", "after"}

WriteNow(n, err) ==
  /\ StartAt /\ fd = "open" /\ set.supports_nonblock
  /\ \E u \in {Starting} : \E iovecs \in {MkIovecs(u)} :
       /\ IF err = "none" THEN SystemTakes(iovecs, n) ELSE n = 0 /\ file' = file
       /\ HandleWriteResult(u, n, err)
  /\ UNCHANGED <<flight, unchangedByWriting>>

WriteInThread ==
  /\ StartAt /\ fd = "open"
  /\ \E u \in {Starting} :
       /\ t' = [u EXCEPT !.job = "thread"]
       /\ flight' = [NoFlight EXCEPT !.iovecs = MkIovecs(u)]
  /\ UNCHANGED <<file, unchangedByWriting>>

\* writev in the thread, any time later.
ThreadWrites(n, err) ==
  /\ t.job = "thread" /\ ~flight.done
  /\ IF err = "none" THEN SystemTakes(flight.iovecs, n) ELSE n = 0 /\ file' = file
  /\ flight' = [flight EXCEPT !.done = TRUE, !.n = n, !.err = err]
  /\ UNCHANGED <<t, unchangedByWriting>>

ThreadDone ==
  /\ t.job = "thread" /\ flight.done
  /\ HandleWriteResult(t, flight.n, flight.err)
  /\ flight' = NoFlight
  /\ UNCHANGED <<file, unchangedByWriting>>

\* `Already_closed and `Closed: the writer is left as it is.  `Bad_fd.
WriteAfterClose ==
  /\ StartAt /\ fd # "open"
  /\ t' = [IF t.job = "ready" THEN t ELSE Starting EXCEPT !.job = "none"]
  /\ UNCHANGED <<flight, file, unchangedByWriting>>
BadFd ==
  /\ t.job = "ready" /\ fd = "open"
  /\ t' = Die(t)
  /\ UNCHANGED <<flight, file, unchangedByWriting>>

-----------------------------------------------------------------------------
(* flushed, the age check and close. *)

FlushBy(u, who) ==
  IF u.written = u.received THEN [u EXCEPT !.filled = @ \cup {who}]
  ELSE [u EXCEPT !.flushes = Append(@, [who |-> who, z |-> u.received])]

Asked(who) == who \in t.filled \/ \E i \in DOMAIN t.flushes : t.flushes[i].who = who

Flushed(r) ==
  /\ closing = "no" /\ ~Asked(r)
  /\ t' = FlushBy(t, r) /\ mark' = [mark EXCEPT ![r] = given - skipped]
  /\ UNCHANGED <<set, flight, fd, closing, force, too_old, file, given, skipped, shrunk, spoilt>>

\* Once a second: data were received long ago and are not written.  (Long
\* ago the writer was started: that job runs in the same cycle.)
AgeCheck ==
  /\ set.limited /\ closing \in {"no", "waiting"} /\ t.job # "start"
  /\ t.received > t.written /\ ~too_old
  /\ too_old' = TRUE
  /\ UNCHANGED <<set, t, flight, fd, closing, force, file, given, skipped, shrunk, spoilt, mark>>

\* Or: those that are not written are not that old.  A close that waits has
\* read the ivar that was full.
AgeCheckPasses ==
  /\ set.limited /\ closing = "no"
  /\ t.received > t.written /\ too_old
  /\ too_old' = FALSE
  /\ UNCHANGED <<set, t, flight, fd, closing, force, file, given, skipped, shrunk, spoilt, mark>>

\* force_close is never determined, or some time later: by default the one
\* for files, the other for all else.
Close(forced) ==
  /\ closing = "no"
  /\ closing' = "waiting" /\ force' = forced
  /\ t' = FlushBy(t, Closer) /\ mark' = [mark EXCEPT ![Closer] = given - skipped]
  /\ UNCHANGED <<set, flight, fd, too_old, file, given, skipped, shrunk, spoilt>>

\* The choose of close: one of its four deferreds is determined.  Fd.close
\* follows, for which a write in a thread is an active system call.
FlushedBeforeClose == Closer \in t.filled
CloseReasonsButAge == t.epipe \/ FlushedBeforeClose \/ force  \* mutant of CloseReasons
CloseReasons == t.epipe \/ FlushedBeforeClose \/ force \/ too_old
CloseChosen ==
  /\ closing = "waiting" /\ CloseReasons
  /\ closing' = "closing" /\ fd' = "requested"
  /\ UNCHANGED <<set, t, flight, force, too_old, file, given, skipped, shrunk, spoilt, mark>>

FdCloses ==
  /\ fd = "requested" /\ flight = NoFlight /\ t.job # "thread"
  /\ fd' = "closed" /\ closing' = "finished"
  /\ UNCHANGED <<set, t, flight, force, too_old, file, given, skipped, shrunk, spoilt, mark>>

-----------------------------------------------------------------------------
ClientStep ==
  \/ \E n \in Sizes : Write(n)
  \/ \E n \in Values : WriteMarshal(n) \/ \E b \in BOOLEAN : WriteBinProt(n, b)
  \/ \E v \in Iovecs : ScheduleIovec(v)
  \/ \E r \in Requests : Flushed(r)
  \/ \E forced \in BOOLEAN : Close(forced)

Background ==
  \/ \E n \in 0..MaxBytes : WriteNow(n, "none")
  \/ \E err \in Errors : WriteNow(0, err)
  \/ WriteInThread \/ ThreadDone
  \/ WriteAfterClose \/ BadFd

System ==
  \/ \E n \in 0..MaxBytes : ThreadWrites(n, "none")
  \/ \E err \in Errors : ThreadWrites(0, err)

WriterStep ==
  \/ Background \/ System
  \/ AgeCheck \/ AgeCheckPasses
  \/ CloseChosen \/ FdCloses

\* Async runs its jobs, system calls in threads return, the age is checked.
Fairness ==
  /\ WF_writerVars(Background) /\ WF_writerVars(System) /\ WF_writerVars(AgeCheck)
  /\ WF_writerVars(CloseChosen) /\ WF_writerVars(FdCloses)

-----------------------------------------------------------------------------
\* What invariant asserts of bytes_received (writer.ml:113, 123).  It does
\* not hold: schedule_iovec counts an iovec with a position as fewer bytes
\* than it schedules (writer.ml:410).
ReceivedIsRight ==
  /\ t.written <= t.received
  /\ ~Stopped(t) => t.received - t.written = bytes_to_write(t)

\* What invariant asserts (writer.ml:112-127), with bytes_received corrected
\* for the positions; and no iovec refers to a bigstring that was destroyed.
Books ==
  /\ t.written <= t.received + skipped
  /\ t.scheduled_back \in 0..t.back /\ t.back <= Len(t.mem[t.buf])
  /\ t.scheduled_bytes = iovecs_length(t.scheduled)
  /\ IF Stopped(t) THEN bytes_to_write(t) = 0
     ELSE /\ Len(t.mem[t.buf]) > 0
          /\ t.received + skipped - t.written = bytes_to_write(t)
  /\ \A i \in DOMAIN t.scheduled :
       LET v == t.scheduled[i]
       IN  /\ v.buf = t.buf => v.kind = "Keep"
           /\ v.pos + v.len <= Len(t.mem[v.buf])

\* A writer that is not running has nothing to write, unless a write_bin_prot
\* raised; one that is running has a job or a thread that goes on, until the
\* descriptor is closed; and no flush waits for bytes that were written, as
\* long as bytes_received has not decreased.
NothingForgotten ==
  /\ t.state = "Not_running" => bytes_to_write(t) = 0 \/ spoilt
  /\ t.state = "Running" /\ fd = "open" => t.job # "none"
  /\ shrunk \/ t.dead \/ \A i \in DOMAIN t.flushes : t.flushes[i].z > t.written

\* The writer's own account of what it has to do is right.
WriterInvariant == Books /\ NothingForgotten

\* The system gets the bytes that the client passed, in that order, each
\* once, through buffers, bigstrings and partial writes; and a flush that is
\* answered is true: the bytes passed before it was asked for were taken by
\* the system ("when all prior writes complete", writer.mli:148), but for
\* the positions of iovecs.
StreamInOrder ==
  /\ \A i \in DOMAIN file : file[i] = i
  /\ Len(file) = t.written + IF flight.done THEN flight.n ELSE 0
  /\ \A r \in t.filled : Len(file) >= mark[r]

\* The too_old ivar is full only while there are old data ... it stays full
\* when all were written, because the queue of the check is then empty
\* (writer.ml:166): does not hold, and the next close may drop young data.
TooOldIsTrue == too_old /\ closing = "no" => t.received > t.written

\* What a client waits for comes.  A flush of a file is answered unless the
\* writer stops or is closed first; close finishes unless nothing can end
\* it: no force_close, no age check that sees the bytes that are left, and
\* a writer that failed or was not started, or a peer that does not read.
Hopeless ==
  /\ ~force
  /\ t.dead \/ spoilt \/ set.supports_nonblock
  /\ ~set.limited \/ skipped > 0
AnswersCome ==
  /\ \A r \in Requests :
       ~set.supports_nonblock /\ Asked(r) ~> r \in t.filled \/ Stopped(t) \/ fd # "open" \/ spoilt
  /\ closing = "waiting" ~> closing = "finished" \/ Hopeless
=============================================================================
