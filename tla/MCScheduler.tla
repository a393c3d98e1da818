---------------------------- MODULE MCScheduler ----------------------------
(* The instance of Scheduler that TLC checks: with two jobs of a priority  *)
(* and a quota of one or more, batches have one or two jobs and queues     *)
(* outlive a cycle.                                                        *)
EXTENDS Scheduler

MCQuotas == {1, 2}

(* What the histories keep of a sequence is what SelectSeq selects of it.  *)
ASSUME SelectedIsSelectSeq ==
  \A n \in 0..4 : \A s \in [1..n -> 1..3] : \A S \in SUBSET (1..3) :
    Selected(s, S) = SelectSeq(s, LAMBDA x : x \in S)
=============================================================================
