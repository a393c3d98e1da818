---------------------------- MODULE MCSelectLoop ----------------------------
(* The instance of SelectLoop that TLC checks: a thread whose interrupts   *)
(* race with those of the loop and with its clear.  A program has either   *)
(* finalizers and signal handlers or file descriptors, which do not depend *)
(* on each other and would else multiply (UnixProofs proves the invariants *)
(* for all programs and any number of threads).  The deadlock test is off: *)
(* the loop may end, or sleep for ever.                                    *)
EXTENDS SelectLoop

MCPrograms == {Finalizers \cup Signals, Fds}
=============================================================================
