CONSTANTS
  p1 = p1
  p2 = p2
  NoProc = NoProc
  Procs <- TwoProcs
  Leftover <- Crashed
  MaxId = 8
  MaxFaults = 1
SYMMETRY ProcSymmetry
SPECIFICATION Spec
INVARIANTS
  TypeOK
  OwnDirKept
  NoCopyUnderDeletion
  CacheSurvivesUnlessOvertaken
  ErrorsNeverCopied
CHECK_DEADLOCK FALSE
