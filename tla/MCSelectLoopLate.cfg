CONSTANTS
  Threads = {}
  Loop = Loop
  NoThread = NoThread
  Finalizers = {f1}
  Signals = {s1}
  Fds = {d1}
  Interruptor = Interruptor
  Programs <- MCPrograms
SPECIFICATION Spec
CHECK_DEADLOCK FALSE
INVARIANT BlocksWhenOutOfHandlers
