------------------------------ MODULE BinBuffer ------------------------------
(***************************************************************************)
(* A client of the Bin_prot stubs that packs values into a bigstring until *)
(* Buffer_short tells it that the next one does not fit, sends what it has *)
(* packed and starts over; and its peer, which reads the values from the   *)
(* bytes that have arrived so far, and on Buffer_short tries again from the *)
(* same position.                                                          *)
(*                                                                         *)
(* The codecs are BinProt's.  The peer may expect another integer type     *)
(* than the one that was written, as after a change of a type definition.  *)
(***************************************************************************)
EXTENDS BinProt

CONSTANTS
  Programs, \* bound: the sequences of values a client writes, as records
            \* [wt, rt, val]: val is written as a wt and read as an rt
  Cap       \* the size of the client's bigstring

ASSUME BufferAssumption ==
  /\ Cap \in Nat
  /\ \A p \in Programs : \A i \in DOMAIN p : BinSize(p[i].wt, p[i].val) <= Cap

VARIABLES
  program, \* what this client writes
  buf,    \* the client's bigstring
  wpos,   \* the position of its next write
  sent,   \* how many values it has written
  wire,   \* bytes sent and not yet received
  rbuf,   \* bytes the peer has received
  rpos,   \* the peer's pos_ref
  got     \* the answers of its reads that did not ask for more

vars == <<program, buf, wpos, sent, wire, rbuf, rpos, got>>

Failed == \E i \in DOMAIN got : got[i].res # "ok"

Init ==
  /\ program \in Programs
  /\ buf = [i \in 1..Cap |-> Byte - 1] /\ wpos = 0 /\ sent = 0
  /\ wire = <<>> /\ rbuf = <<>> /\ rpos = 0 /\ got = <<>>

\* The next value of the client, written after those in the buffer.
Written ==
  LET m == program[sent + 1] IN MLWrite(m.wt, buf, wpos, m.val)

Write ==
  /\ sent < Len(program)
  /\ ~Written.short
  /\ buf' = Written.buf /\ wpos' = Written.pos /\ sent' = sent + 1
  /\ UNCHANGED <<program, wire, rbuf, rpos, got>>

\* Buffer_short: the position is the one before the write, and the client
\* sends what lies before it.
WriteShort ==
  /\ sent < Len(program)
  /\ Written.short
  /\ buf' = Written.buf /\ wire' = wire \o SubSeq(buf', 1, wpos) /\ wpos' = 0
  /\ UNCHANGED <<program, sent, rbuf, rpos, got>>

\* The client may send what it has at any time.
Flush ==
  /\ wpos > 0
  /\ wire' = wire \o SubSeq(buf, 1, wpos) /\ wpos' = 0
  /\ UNCHANGED <<program, buf, sent, rbuf, rpos, got>>

\* A byte arrives: several in a row are a piece of any length.
Arrive ==
  /\ wire # <<>>
  /\ rbuf' = Append(rbuf, Head(wire)) /\ wire' = Tail(wire)
  /\ UNCHANGED <<program, buf, wpos, sent, rpos, got>>

\* The peer tries to read the next value, be it there or not; it stops at
\* a Read_error.
Read ==
  /\ ~Failed /\ Len(got) < Len(program)
  /\ \E a \in {MLRead(program[Len(got) + 1].rt, rbuf, rpos)} :
       /\ rpos' = a.pos_ref
       /\ got' = IF a.res = "Buffer_short" THEN got ELSE Append(got, a)
  /\ UNCHANGED <<program, buf, wpos, sent, wire, rbuf>>

\* All values have been written, sent and read, or the peer has stopped.
Finished == Failed \/ Len(got) = Len(program)

Done == Finished /\ UNCHANGED vars

Next ==
  \/ Write \/ WriteShort
  \/ Flush
  \/ Arrive
  \/ Read
  \/ Done

Spec ==
  /\ Init /\ [][Next]_vars
  /\ WF_vars(Write) /\ WF_vars(Flush) /\ WF_vars(Arrive) /\ WF_vars(Read)
-----------------------------------------------------------------------------
\* The sizes, by size.ml, of the first n messages.
Offset(n) == FoldLeft(LAMBDA acc, m : acc + BinSize(m.wt, m.val), 0, SubSeq(program, 1, n))

\* Does the value of m lie in the range of the type it is read as?  (What is
\* written as a number and read as a string or an array is a size beyond the
\* largest block.)
Fits(m) ==
  CASE m.rt \in {"int", "int_64bit", "network64_int"} -> FitsInt(m.val)
    [] m.rt = "nat0"  -> FitsInt(m.val) /\ m.val >= 0
    [] m.rt = "int32" -> -(Byte^4 \div 2) <= m.val /\ m.val < Byte^4 \div 2
    [] m.rt \in {"string", "float_array"} -> m.wt = m.rt
    [] OTHER -> TRUE

\* Every value that the peer's reads return is the one that was written at
\* that place, whatever the pieces in which it arrived; a Read_error occurs
\* only for a number outside of the reader's type, at the position where
\* that number starts (read_int ... in read_stubs.c, handle_error).
AnswersRight ==
  \A i \in DOMAIN got :
    IF Fits(program[i])
    THEN got[i].res = "ok" /\ got[i].val = program[i].val
    ELSE got[i].res # "ok" /\ got[i].err_pos = Offset(i - 1)

\* Nothing is lost or added between two values: what was packed, sent and
\* received is as long as the sizes computed for the values by size.ml, and
\* the peer's position is always between two of them.  So a Buffer_short in
\* the middle of a value, after its code was read, does not move it.
PositionsAgree ==
  /\ Len(rbuf) + Len(wire) + wpos = Offset(sent)
  /\ rpos = Offset(IF Failed THEN Len(got) - 1 ELSE Len(got))

\* The peer reads what the client wrote, and both agree where it lies.
ReadsWhatWasWritten == AnswersRight /\ PositionsAgree

\* Whatever was written is read in the end, or refused with an error.
AllRead == <>(Failed \/ Len(got) = Len(program))
=============================================================================
