------------------------------- MODULE MCPipe -------------------------------
(* The instance of Pipe that TLC checks: three tasks, so that two reads,   *)
(* two flushes or two with_writes wait while the third task acts.          *)
EXTENDS Pipe, TLC

MCBudgets == -1..1
Symmetry == Permutations(Clients)
=============================================================================
