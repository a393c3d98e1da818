------------------------------ MODULE Channel -------------------------------
(***************************************************************************)
(* What a pipe promises, without its buffer, its queues of blocked reads   *)
(* and flushes, or its counters: values come out in the order they went in,*)
(* once each; nothing is accepted after the close; only closing the read   *)
(* end drops values; a flush becomes `Ok in the very step in which the     *)
(* last value it waits for comes out, and `Reader_closed when that value   *)
(* is dropped.                                                             *)
(***************************************************************************)
EXTENDS Integers, Sequences

CONSTANTS Clients,   \* who may wait for a flush
          MaxWritten \* bound: how many values are accepted

VARIABLES
  transit,  \* values accepted and not handed out
  out,      \* values handed out
  open,     \* may values still be accepted?
  dropped,  \* has the read end been closed?
  flush     \* each client's flush: [until, answer]

vars == <<transit, out, open, dropped, flush>>

Count == Len(out) + Len(transit)
NoFlush == [until |-> 0, answer |-> "none"]

Init == /\ transit = << >> /\ out = << >> /\ open = TRUE /\ dropped = FALSE
        /\ flush = [c \in Clients |-> NoFlush]

(* The flushes that see the last of their values among the first n.        *)
Reached(n) == [c \in Clients |-> IF flush[c].answer = "pending" /\ flush[c].until <= n
                                 THEN [flush[c] EXCEPT !.answer = "Ok"] ELSE flush[c]]

(* n values are accepted, and the oldest k values come out.                *)
Move(n, k) ==
  LET all == transit \o [i \in 1..n |-> Count + i]
  IN  /\ n > 0 => open
      /\ out' = out \o SubSeq(all, 1, k)
      /\ transit' = SubSeq(all, k + 1, Len(all))
      /\ flush' = Reached(Len(out) + k)
      /\ UNCHANGED <<open, dropped>>

CloseWriter == open' = FALSE /\ UNCHANGED <<transit, out, dropped, flush>>

CloseReader ==
  /\ open' = FALSE /\ dropped' = TRUE /\ transit' = << >>
  /\ flush' = [c \in Clients |-> IF flush[c].answer = "pending"
                                 THEN [flush[c] EXCEPT !.answer = "Reader_closed"]
                                 ELSE flush[c]]
  /\ UNCHANGED out

AskFlush(c) ==
  /\ flush[c].answer = "none"
  /\ flush' = [flush EXCEPT ![c] =
       [until |-> Count, answer |-> IF transit = << >> THEN "Ok" ELSE "pending"]]
  /\ UNCHANGED <<transit, out, open, dropped>>

ForgetFlush(c) ==
  /\ flush[c].answer \notin {"none", "pending"}
  /\ flush' = [flush EXCEPT ![c] = NoFlush]
  /\ UNCHANGED <<transit, out, open, dropped>>

Next == \/ \E n \in 0..MaxWritten : \E k \in 0..(n + Len(transit)) : Move(n, k)
        \/ CloseWriter \/ CloseReader
        \/ \E c \in Clients : AskFlush(c) \/ ForgetFlush(c)

Spec == Init /\ [][Next]_vars
=============================================================================
