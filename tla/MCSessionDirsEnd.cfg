CONSTANTS
  p1 = p1
  p2 = p2
  NoProc = NoProc
  Procs <- TwoProcs
  Leftover <- Nothing
  MaxId = 6
  MaxFaults = 1
SPECIFICATION FairSpec
PROPERTIES
  SessionsEnd
CHECK_DEADLOCK FALSE
