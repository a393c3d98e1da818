CONSTANTS
  Groups = {g1, g2}
  Works = {w1, w2, w3}
  Helpers = {h1}
  None = None
  MaxLive = 3
  MinReserved <- OneReserved
  MaxReserved <- AtMostTwo
SPECIFICATION FairPoolSpec
INVARIANT SchedulerInvariant
PROPERTIES NoIdleWork EveryWorkRuns
