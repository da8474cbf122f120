CONSTANTS
  p1 = p1
  p2 = p2
  NoProc = NoProc
  Procs <- TwoProcs
  Leftover <- OneFinal
  MaxId = 7
  MaxFaults = 0
SPECIFICATION Spec
INVARIANTS
  CacheSurvives
CHECK_DEADLOCK FALSE
