-------------------------------- MODULE MCFd --------------------------------
(* The instance of Fd that TLC checks: one number that goes from one file  *)
(* to another, or from an Fd.t to the one that replaces it, and two        *)
(* requests that may ask for the same.  The tables of readers and writers  *)
(* are alike: one direction stands for both.  The deadlock test is off:    *)
(* when all is closed and answered nothing is left to do.                  *)
EXTENDS Fd
=============================================================================
