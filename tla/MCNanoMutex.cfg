CONSTANTS
  Threads = {t1, t2, t3}
  Mutexes = {m1}
  NoThread = NoThread
  NoMutex = NoMutex
SPECIFICATION FairSpec
CHECK_DEADLOCK FALSE
INVARIANTS FunctionInvariant NoMissedSignal
PROPERTIES RecursionTestStable ImplementsLock HandedOver
