-------------------------------- MODULE Jobs --------------------------------
(***************************************************************************)
(* Async's job queue (async/core/lib/jobs.ml): one FIFO queue per          *)
(* priority, and for each the number of its jobs that may still be taken   *)
(* in this cycle.  Jobs.get takes a whole batch from one queue; it builds  *)
(* the list by pushing each job it dequeues on the front, so that a batch  *)
(* is run in the reverse of the order in which its jobs were added.        *)
(***************************************************************************)
EXTENDS Integers, Sequences

Priorities == {"Normal", "Low"}

Reversed(s) == [i \in 1..Len(s) |-> s[Len(s) + 1 - i]]

(* How many jobs of queue get takes when left may be taken.                *)
AmountAll(queue, left) == Len(queue)  \* mutant of Amount
Amount(queue, left) == IF Len(queue) < left THEN Len(queue) ELSE left

(* The batch that get takes, and what it leaves in the queue.              *)
Batch(queue, left) == Reversed(SubSeq(queue, 1, Amount(queue, left)))
RestKeepsLast(queue, left) ==  \* mutant of Rest
  SubSeq(queue, Amount(queue, left), Len(queue))
Rest(queue, left) == SubSeq(queue, Amount(queue, left) + 1, Len(queue))

(* The priority whose jobs get takes: Low only if there is no batch of     *)
(* Normal ones, because there are none or because their quota is used up.  *)
GetsFrom(queues, left) ==
  IF Amount(queues["Normal"], left["Normal"]) > 0 THEN "Normal" ELSE "Low"

IsEmpty(queues) == \A p \in Priorities : queues[p] = << >>
=============================================================================
