CONSTANTS
  Threads = {t1}
  Loop = Loop
  NoThread = NoThread
  Finalizers = {f1}
  Signals = {s1}
  Fds = {d1}
  Interruptor = Interruptor
  Programs <- MCPrograms
SPECIFICATION FairSpec
CHECK_DEADLOCK FALSE
INVARIANTS LoopInvariant NoMissedInterrupt
PROPERTY EverythingIsSeenTo
