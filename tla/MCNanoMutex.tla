----------------------------- MODULE MCNanoMutex -----------------------------
(* The instance of NanoMutex that TLC checks: three threads are a holder   *)
(* and two that race for the blocker, which the cache hands from use to    *)
(* use.  The deadlock test is off: threads need not lock for ever.         *)
EXTENDS NanoMutex
=============================================================================
