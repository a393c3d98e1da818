---------------------------- MODULE MCThreadPool ----------------------------
(* The instances of ThreadPool that TLC checks: a third work, a second     *)
(* group or a helper thread runs out of the threads or reservations.       *)
EXTENDS ThreadPool

OneReserved == [g \in Groups |-> 1]
AtMostTwo == [g \in Groups |-> 2]
=============================================================================
