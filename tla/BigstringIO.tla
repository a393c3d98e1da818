----------------------------- MODULE BigstringIO -----------------------------
(***************************************************************************)
(* The I/O stubs of Bigstring (bigstring_stubs.c), and those of Core for   *)
(* strings and channels that share their form, at the two ends of one pipe *)
(* or socket.  A writer outputs bigstrings through an OCaml channel or     *)
(* straight to its descriptor; a reader fills bigstrings through a channel *)
(* or from the descriptor.  System calls transfer any part of what they    *)
(* are asked for, are interrupted and fail; the stubs loop, give up and    *)
(* report how far they came.                                               *)
(*                                                                         *)
(* The bytes of the stream are numbered: the writer's client always passes *)
(* the bytes that follow the last one it was told was accepted.            *)
(***************************************************************************)
EXTENDS Integers, Sequences

CONSTANTS
  Total,       \* bound: the bytes that the writer's client has to write
  PipeSize,    \* what the kernel holds between the two descriptors
  BufSize,     \* IO_BUFFER_SIZE, of each channel
  Window,      \* the size of the reader's bigstring: more than what it asks for
  ReadAsks, WriteAsks, \* the requests [op, len, min] of the clients
  Tries,       \* how often fixed_close_channel calls close (1000)
  Faults,      \* bound: failed or interrupted system calls
  Signals      \* may a signal end a recv with MSG_WAITALL early?

ASSUME IOAssumption ==
  /\ {Total, PipeSize, BufSize, Window, Tries, Faults} \subseteq Nat
  /\ PipeSize > 0 /\ BufSize > 0 /\ Signals \in BOOLEAN
  /\ \A q \in ReadAsks \cup WriteAsks : q.len \in Nat /\ q.min \in 0..q.len
  /\ \A q \in ReadAsks : 2 * q.len <= Window

VARIABLES
  route,     \* do the clients use a channel or the descriptor? [out, in]
  wire,      \* bytes in the kernel
  shut,      \* the writer's descriptor is closed
  faults,    \* failed or interrupted system calls so far
  obuf,      \* the out channel's buffer, up to curr
  accepted,  \* how many bytes the writer's client was told are written
  w,         \* the writer's call
  ibuf,      \* the in channel's buffer: positions 0..BufSize-1
  curr, max, \* its current position and its logical end
  bstr,      \* the reader's bigstring, from the position it passed
  r,         \* the reader's call
  delivered, \* all bytes that the reader's client was told it has
  astray,    \* the bytes of those really_recv calls that have stored some of
             \* theirs in a wrong place (history)
  answer     \* the last answer to a call

writerVars == <<obuf, accepted, w>>
readerVars == <<ibuf, curr, max, bstr, r, delivered, astray>>
vars == <<route, wire, shut, faults, writerVars, readerVars, answer>>

NoOne == "no one"
Idle  == [pc |-> "idle"]

\* The reader's client reads until it learns of the end of the stream.
Stopped == [pc |-> "stopped"]

Smaller(m, n) == IF m < n THEN m ELSE n

\* A call q by who ends: normally (exn "none") or with IOError (n, exn).
Answer(who, q, n, exn) ==
  answer' = [who |-> who, op |-> q.op, len |-> q.len, min |-> q.min, n |-> n, exn |-> exn]

Init ==
  /\ route \in [out : {"channel", "descriptor"}, in : {"channel", "descriptor"}]
  /\ wire = <<>> /\ shut = FALSE /\ faults = 0
  /\ obuf = <<>> /\ accepted = 0 /\ w = Idle
  /\ ibuf = [i \in 0..BufSize - 1 |-> 0] /\ curr = 0 /\ max = 0
  /\ bstr = [i \in 0..Window - 1 |-> 0]
  /\ r = Idle /\ delivered = <<>> /\ astray = {}
  /\ answer = [who |-> NoOne, op |-> "none", len |-> 0, min |-> 0, n |-> 0, exn |-> "none"]

-----------------------------------------------------------------------------
(* The kernel. *)

\* A write of the bytes s, n of which are taken.
Put(s, n) ==
  /\ n \in 0..Len(s) /\ (n = 0 => s = <<>>)
  /\ Len(wire) + n <= PipeSize
  /\ wire' = wire \o SubSeq(s, 1, n)

\* A read of up to len bytes that yields n of them.
Take(len, n) ==
  /\ n \in 1..len /\ n <= Len(wire)
  /\ wire' = SubSeq(wire, n + 1, Len(wire))

AtEof == shut /\ wire = <<>>

\* A system call on a request for len bytes may be interrupted, fail, or,
\* on a non-blocking descriptor, find less room than len (a pipe takes
\* short writes whole or not at all) or nothing to read.
Fault(e, wouldBlock) ==
  /\ faults < Faults /\ faults' = faults + 1
  /\ e \in {"EINTR", "EIO"} \cup IF wouldBlock THEN {"EAGAIN"} ELSE {}

-----------------------------------------------------------------------------
(* bigstring_output_stub.  Positions in the bigstring are counted from the *)
(* start of the call, so its byte at p is number accepted + p of the       *)
(* stream.  buff_len counts what is left of the channel's buffer, from its *)
(* position boff; buff_iov and bstr_iov are the lengths of the two iovecs, *)
(* base the start of the second.                                           *)

Bytes(base, len) == [i \in 1..len |-> accepted + base + i]

StartOutput(q) ==
  /\ w = Idle /\ q.op = "output" /\ route.out = "channel"
  /\ accepted + q.len <= Total
  /\ IF Len(obuf) + q.len <= BufSize
     THEN /\ obuf' = obuf \o Bytes(0, q.len) /\ accepted' = accepted + q.len
          /\ w' = w
          /\ Answer("writer", q, q.len, "none")
     ELSE /\ w' = [pc |-> "writev", op |-> q.op, len |-> q.len, min |-> q.min,
                   boff |-> 0, buff_len |-> Len(obuf), buff_iov |-> Len(obuf),
                   base |-> 0, bstr_len |-> q.len, bstr_iov |-> q.len]
          /\ UNCHANGED <<obuf, accepted, answer>>
  /\ UNCHANGED <<route, wire, shut, faults, readerVars>>

\* What the two iovecs of the call hold.
Gathered ==
  SubSeq(obuf, w.boff + 1, w.boff + w.buff_iov) \o Bytes(w.base, w.bstr_iov)

WritevOk(n) ==
  /\ w.pc = "writev"
  /\ Put(Gathered, n)
  /\ IF w.buff_len > n
     THEN /\ w' = [w EXCEPT !.boff = @ + n, !.buff_len = @ - n, !.buff_iov = w.buff_len - n]
          /\ UNCHANGED <<obuf, accepted, answer>>
     ELSE LET bstr_written == n - w.buff_len
              new_base     == w.base + bstr_written
          IN  IF new_base >= w.min
              THEN /\ obuf' = <<>> /\ accepted' = accepted + new_base /\ w' = Idle
                   /\ Answer("writer", w, new_base, "none")
              ELSE /\ w' = [w EXCEPT !.base = new_base, !.boff = @ + w.buff_len,
                              !.buff_len = 0, !.buff_iov = 0,
                              !.bstr_len = @ - bstr_written,
                              !.bstr_iov = w.bstr_len - bstr_written]
                   /\ UNCHANGED <<obuf, accepted, answer>>
  /\ UNCHANGED <<route, shut, faults, readerVars>>

\* What a failed call leaves in the channel's buffer.
KeptFromStart == SubSeq(obuf, 1, w.buff_len)  \* mutant of Kept
Kept == SubSeq(obuf, w.boff + 1, w.boff + w.buff_len)

MayTryNoByte == FALSE  \* mutant of MayTryOneByte
MayTryOneByte == w.buff_iov + w.bstr_iov > 1

\* EINTR: again.  EAGAIN: a single byte may still go.  Else the rest of the
\* channel's buffer is kept and the call fails.
WritevFault(e) ==
  /\ w.pc = "writev"
  /\ Fault(e, Len(wire) + w.buff_iov + w.bstr_iov > PipeSize)
  /\ CASE e = "EINTR" -> UNCHANGED <<obuf, accepted, w, answer>>
       [] e = "EAGAIN" /\ MayTryOneByte ->
            /\ w' = IF w.buff_len > 0 THEN [w EXCEPT !.buff_iov = 1, !.bstr_iov = 0]
                    ELSE [w EXCEPT !.bstr_iov = 1]
            /\ UNCHANGED <<obuf, accepted, answer>>
       [] OTHER ->
            /\ obuf' = Kept
            /\ accepted' = accepted + w.base /\ w' = Idle
            /\ Answer("writer", w, w.base, e)
  /\ UNCHANGED <<route, wire, shut, readerVars>>

-----------------------------------------------------------------------------
(* The functions that write to a descriptor.  really_write and             *)
(* really_send_no_sigpipe loop until all is written; write, writev, send,  *)
(* sendto, sendmsg, their variants that assume the descriptor to be        *)
(* non-blocking and those on strings (unix_stubs.c, linux_ext_stubs.c)     *)
(* make one system call.                                                   *)

\* Two strings, of k bytes and of the rest, to be written by writev.
Iovecs(q, k) == <<Bytes(0, k), Bytes(k, q.len - k)>>

\* The strings are copied into one buffer, each in its place, as they may
\* move once the lock is released.
Copied(iovecs) == iovecs[1] \o iovecs[2]

StartWrite(q) ==
  /\ w = Idle /\ q.op \in {"really_write", "write", "writev", "send"}
  /\ route.out = "descriptor"
  /\ accepted + q.len <= Total
  /\ \E k \in 0..q.len :
       w' = [pc |-> "write", op |-> q.op, len |-> q.len, min |-> q.min, base |-> 0,
             data |-> IF q.op = "writev" THEN Copied(Iovecs(q, k)) ELSE Bytes(0, q.len)]
  /\ UNCHANGED <<route, wire, shut, faults, obuf, accepted, readerVars, answer>>

WriteOk(n) ==
  /\ w.pc = "write"
  /\ Put(SubSeq(w.data, w.base + 1, w.len), n)
  /\ IF w.op = "really_write" /\ w.base + n < w.len
     THEN /\ w' = [w EXCEPT !.base = @ + n]
          /\ UNCHANGED <<accepted, answer>>
     ELSE /\ w' = Idle /\ accepted' = accepted + w.base + n
          /\ Answer("writer", w, w.base + n, "none")
  /\ UNCHANGED <<route, shut, faults, obuf, readerVars>>

\* A send that would block answers -1; all else that fails is raised.
WriteFault(e) ==
  /\ w.pc = "write" /\ ~(w.op = "send" /\ e = "EAGAIN")
  /\ Fault(e, Len(wire) + w.len - w.base > PipeSize)
  /\ w' = Idle /\ accepted' = accepted + w.base
  /\ Answer("writer", w, w.base, e)
  /\ UNCHANGED <<route, wire, shut, obuf, readerVars>>

SendBlocked ==
  /\ w.pc = "write" /\ w.op = "send"
  /\ Fault("EAGAIN", Len(wire) + w.len > PipeSize)
  /\ w' = Idle /\ Answer("writer", w, -1, "none")
  /\ UNCHANGED <<route, wire, shut, obuf, accepted, readerVars>>

\* The client closes once it has written all: the runtime flushes the
\* channel's buffer, then closes the descriptor.
FlushSome(n) ==
  /\ w = Idle /\ accepted = Total /\ obuf # <<>> /\ n > 0
  /\ Put(obuf, n)
  /\ obuf' = SubSeq(obuf, n + 1, Len(obuf))
  /\ UNCHANGED <<route, shut, faults, accepted, w, readerVars, answer>>

StartClose ==
  /\ w = Idle /\ accepted = Total /\ obuf = <<>> /\ ~shut
  /\ w' = [pc |-> "close", tries |-> 0]
  /\ UNCHANGED <<route, wire, shut, faults, obuf, accepted, readerVars, answer>>

CloseOk ==
  /\ w.pc = "close"
  /\ shut' = TRUE /\ w' = Idle
  /\ UNCHANGED <<route, wire, faults, obuf, accepted, readerVars, answer>>

\* fixed_close_channel tries again; when it gives up, the channel gets its
\* descriptor back, and the client may close it once more.
CloseFault(e) ==
  /\ w.pc = "close"
  /\ Fault(e, TRUE)
  /\ w' = IF route.out = "channel" /\ e \in {"EINTR", "EAGAIN"} /\ w.tries + 1 < Tries
          THEN [w EXCEPT !.tries = @ + 1] ELSE Idle
  /\ UNCHANGED <<route, wire, shut, obuf, accepted, readerVars, answer>>

-----------------------------------------------------------------------------
(* bigstring_input_stub. *)

\* What a client learns when its call ends with n good bytes: they lie at
\* the start of its bigstring.
Deliver(n) == delivered' = delivered \o [i \in 1..n |-> bstr'[i - 1]]

\* What is left in the channel's buffer comes first.
StartInput(q) ==
  LET avail    == max - curr
      to_write == Smaller(q.len, avail)
  IN  /\ r = Idle /\ q.op = "input" /\ route.in = "channel"
      /\ bstr' = [i \in 0..Window - 1 |-> IF i < to_write THEN ibuf[curr + i] ELSE 0]
      /\ IF avail > 0 /\ q.len <= avail
         THEN /\ curr' = curr + to_write /\ r' = r
              /\ Deliver(q.len) /\ Answer("reader", q, q.len, "none")
         ELSE /\ r' = [pc |-> "readv", op |-> q.op, len |-> q.len, min |-> q.min,
                       base |-> to_write, iov_len |-> q.len - to_write]
              /\ UNCHANGED <<curr, delivered, answer>>
      /\ UNCHANGED <<route, wire, shut, faults, writerVars, ibuf, max, astray>>

\* The call ends and answers n bytes.
EndInput(n, exn) ==
  /\ r' = IF exn = "EOF" THEN Stopped ELSE Idle
  /\ Deliver(n) /\ Answer("reader", r, n, exn)

\* The bigstring from base on after n bytes of the wire were stored there.
Stored(base, n) ==
  [i \in 0..Window - 1 |->
     IF i \in base..base + n - 1 THEN wire[i - base + 1] ELSE bstr[i]]

\* readv fills the rest of the bigstring, then the channel's buffer.
ReadvOk(n) ==
  LET fit == Smaller(n, r.iov_len)
  IN  /\ r.pc = "readv"
      /\ Take(r.iov_len + BufSize, n)
      /\ bstr' = Stored(r.base, fit)
      /\ ibuf' = [i \in 0..BufSize - 1 |->
                    IF i < n - fit THEN wire[fit + i + 1] ELSE ibuf[i]]
      /\ IF r.base + n >= r.min
         THEN IF n > r.iov_len
              THEN /\ max' = n - r.iov_len /\ curr' = 0 /\ EndInput(r.len, "none")
              ELSE /\ curr' = max /\ max' = max /\ EndInput(r.base + n, "none")
         ELSE /\ r' = [r EXCEPT !.base = @ + n, !.iov_len = @ - n]
              /\ UNCHANGED <<curr, max, delivered, answer>>
      /\ UNCHANGED <<route, shut, faults, writerVars, astray>>

ReadvFault(e) ==
  /\ r.pc = "readv"
  /\ Fault(e, wire = <<>>)
  /\ IF e = "EINTR" THEN UNCHANGED <<readerVars, answer>>
     ELSE /\ curr' = max
          /\ bstr' = bstr /\ EndInput(r.base, e)
          /\ UNCHANGED <<ibuf, max, astray>>
  /\ UNCHANGED <<route, wire, shut, writerVars>>

ReadvEofAgain ==  \* mutant of ReadvEof
  r.pc = "readv" /\ AtEof /\ UNCHANGED vars
ReadvEof ==
  /\ r.pc = "readv" /\ AtEof
  /\ curr' = max
  /\ bstr' = bstr
  /\ IF r.len = 0 THEN EndInput(0, "none") ELSE EndInput(r.base, "EOF")
  /\ UNCHANGED <<route, wire, shut, faults, writerVars, ibuf, max, astray>>

-----------------------------------------------------------------------------
(* The functions that read from a descriptor: bigstring_read_stub, which   *)
(* loops until it has min_len bytes, bigstring_really_recv_stub, and those *)
(* that make one system call.                                              *)

StartRead(q) ==
  /\ r = Idle /\ q.op \in {"read", "really_recv", "read_nonblocking"}
  /\ route.in = "descriptor"
  /\ bstr' = [i \in 0..Window - 1 |-> 0]
  /\ IF q.op = "really_recv" /\ q.len = 0
     THEN /\ r' = r
          /\ Answer("reader", q, 0, "none")
     ELSE /\ r' = [pc |-> "read", op |-> q.op, len |-> q.len, min |-> q.min,
                    base |-> 0, left |-> q.len]
          /\ answer' = answer
  /\ UNCHANGED <<route, wire, shut, faults, writerVars, ibuf, curr, max, delivered, astray>>

EndRead(n, exn) ==
  /\ r' = IF exn = "EOF" \/ (n = 0 /\ r.len > 0 /\ exn = "none") THEN Stopped ELSE Idle
  /\ Deliver(n) /\ Answer("reader", r, n, exn)

\* bigstring_read_stub goes on until it has min_len bytes.
EnoughAtOnce(q, n) == TRUE  \* mutant of Enough
Enough(q, n) == q.op # "read" \/ q.base + n >= q.min

\* One system call is enough; a call for no bytes gets 0, which is no EOF.
ReadOk(n) ==
  /\ r.pc = "read" /\ r.op # "really_recv"
  /\ IF r.len = 0 THEN n = 0 /\ wire' = wire ELSE Take(r.left, n)
  /\ bstr' = Stored(r.base, n)
  /\ IF Enough(r, n) THEN EndRead(r.base + n, "none")
     ELSE /\ r' = [r EXCEPT !.base = @ + n, !.left = @ - n]
          /\ UNCHANGED <<delivered, answer>>
  /\ UNCHANGED <<route, shut, faults, writerVars, ibuf, curr, max, astray>>

\* The bytes that a call has got, which it delivers when a system call fails.
Good(q) == q.len - q.left

\* recv with MSG_WAITALL returns less than it was asked for only at the end
\* of the stream, or when a signal arrives.  The next call stores its bytes
\* where the pointer, moved by the length that is left, points to: if that is
\* not behind the bytes it has, the call leaves gaps in the bigstring and may
\* write over bytes that it has or beyond its end.
RecvOk(n) ==
  LET left == r.left - n
  IN  /\ r.pc = "read" /\ r.op = "really_recv"
      /\ Take(r.left, n)
      /\ n < r.left => Signals \/ (shut /\ n = Len(wire))
      /\ bstr' = Stored(r.base, n)
      /\ astray' = astray \cup
           IF r.base = Good(r) THEN {}
           ELSE Len(delivered) + 1 .. Len(delivered) + Good(r) + n
      /\ IF left > 0
         THEN /\ r' = [r EXCEPT !.base = @ + left, !.left = left]
              /\ UNCHANGED <<delivered, answer>>
         ELSE EndRead(r.len, "none")
      /\ UNCHANGED <<route, shut, faults, writerVars, ibuf, curr, max>>

ReadFault(e) ==
  /\ r.pc = "read"
  /\ Fault(e, wire = <<>>)
  /\ bstr' = bstr /\ EndRead(Good(r), e)
  /\ UNCHANGED <<route, wire, shut, writerVars, ibuf, curr, max, astray>>

\* A system call returns 0 for the end of the stream; the functions that
\* make one call return that 0.
ReadEof ==
  /\ r.pc = "read" /\ AtEof /\ r.len > 0
  /\ bstr' = bstr
  /\ EndRead(Good(r), IF r.op = "read_nonblocking" THEN "none" ELSE "EOF")
  /\ UNCHANGED <<route, wire, shut, faults, writerVars, ibuf, curr, max, astray>>

-----------------------------------------------------------------------------
Errors == {"EINTR", "EIO", "EAGAIN"}

StartOut(q) == StartOutput(q) \/ StartWrite(q)
StartIn(q)  == StartInput(q) \/ StartRead(q)
Output == \E n \in 0..PipeSize : WritevOk(n) \/ WriteOk(n) \/ FlushSome(n)
Input  == \E n \in 0..PipeSize : ReadvOk(n) \/ ReadOk(n) \/ RecvOk(n)
Eof    == ReadvEof \/ ReadEof

\* Everything has been written, and the reader knows that it has it.
Done == r = Stopped /\ UNCHANGED vars

Next ==
  \/ \E q \in WriteAsks : StartOut(q)
  \/ Output
  \/ \E e \in Errors : WritevFault(e) \/ WriteFault(e) \/ CloseFault(e)
  \/ SendBlocked
  \/ StartClose \/ CloseOk
  \/ \E q \in ReadAsks : StartIn(q)
  \/ Input
  \/ \E e \in Errors : ReadvFault(e) \/ ReadFault(e)
  \/ Eof
  \/ Done

\* System calls return.  The clients go on asking for bytes and the writer's
\* closes in the end, although they may also make calls for no bytes, any
\* number of them: hence the strong fairness.
Fairness ==
  /\ SF_vars(\E q \in WriteAsks : q.len > 0 /\ StartOut(q))
  /\ WF_vars(CloseOk \/ \E n \in 0..PipeSize : WritevOk(n) \/ WriteOk(n))
  /\ SF_vars((\E n \in 1..PipeSize : FlushSome(n)) \/ StartClose)
  /\ SF_vars(\E q \in ReadAsks : q.len > 0 /\ StartIn(q))
  /\ WF_vars(Input) /\ WF_vars(Eof)

Spec == Init /\ [][Next]_vars /\ Fairness
-----------------------------------------------------------------------------
\* What the reader has got so far in a call that is not over.
InHand ==
  LET n == IF r.pc = "readv" THEN r.base ELSE IF r.pc = "read" THEN Good(r) ELSE 0
  IN  [i \in 1..n |-> bstr[i - 1]]

\* The bytes in the in channel's buffer: a call that is reading has copied
\* them, although it moves curr only when it ends.
Buffered ==
  IF r.pc = "readv" THEN <<>> ELSE [i \in 1..max - curr |-> ibuf[curr + i - 1]]

\* The bytes that are left in the out channel's buffer.
Unsent ==
  IF w.pc = "writev" THEN SubSeq(obuf, w.boff + 1, Len(obuf)) ELSE obuf

\* No byte of the stream is lost, duplicated or out of order, through any
\* partial transfers, interruptions, signals and failures: what the reader's
\* client was given, what is under way in its call, in the channels' buffers
\* and in the kernel, is exactly what the writer's client was told, or will
\* be told if the next system call fails, that it has written
\* (input, output, read, really_recv, really_write in bigstring_stubs.c).
\* Only a really_recv whose recv a signal cuts short may deliver wrong bytes,
\* and then not more than those that it received itself: how many there are is
\* right, and so are all bytes of the calls before and after it.
StreamIntact ==
  LET stream == delivered \o InHand \o Buffered \o wire \o Unsent
      sent   == accepted + IF w.pc \in {"idle", "close"} THEN 0 ELSE w.base
  IN  /\ Len(stream) = sent
      /\ \A i \in 1..sent : stream[i] = i \/ i \in astray

\* The reader's client gets the bytes of the stream in order, each once: a
\* call that returns has put those it received at the place it was given
\* ("receives [len] bytes from socket [sock], and writes them to bigstring
\* [bstr] starting at position [pos]", bigstring.mli:149).  It fails if a
\* signal ends a recv early (bigstring_stubs.c:215).
DeliveredInOrder == delivered = [i \in 1..Len(delivered) |-> i]

\* A call that succeeds has transferred at least min_len bytes, the really_
\* functions all of them; a call that fails has transferred less than it was
\* asked for, a read or an output less than min_len unless that is 0, and
\* End_of_file is raised only at the end of the stream.
CallsKeepTheirWord ==
  /\ answer.exn = "none" =>
       /\ answer.n <= answer.len
       /\ answer.n >= answer.min \/ answer.op \in {"write", "writev", "send", "read_nonblocking"}
       /\ answer.n >= 0 \/ answer.op = "send"
       /\ answer.op \in {"really_write", "really_recv"} => answer.n = answer.len
  /\ answer.exn # "none" =>
       /\ answer.n < answer.len \/ answer.len = 0
       /\ answer.op \in {"read", "output"} => answer.n = 0 \/ answer.n < answer.min
  /\ answer.exn = "EOF" => AtEof

\* An output to a channel fails with EAGAIN only if not even one byte could
\* be written (the fallback to single bytes in bigstring_output_stub).
BlockedOnlyWhenFull ==
  [][answer' # answer /\ answer'.op = "output" /\ answer'.exn = "EAGAIN"
       => Len(wire) = PipeSize]_vars

\* Whatever the client has to write arrives, and the reader learns that
\* the stream has ended.
AllDelivered == <>(Len(delivered) = Total /\ r = Stopped)
=============================================================================
