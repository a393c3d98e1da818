----------------------------- MODULE MCThrottle -----------------------------
(* The instances of Throttle that TLC checks: throttles of one and two     *)
(* runners with more jobs than runners, and prior_jobs_done among them.    *)
(* The deadlock test is off: a dead throttle does nothing any more.        *)
EXTENDS Throttle
=============================================================================
