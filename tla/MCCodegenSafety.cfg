CONSTANTS
  c1 = c1
  c2 = c2
  c3 = c3
  alloc = alloc
  up = up
  Cgus <- ThreeCgus
  Alloc <- alloc
  Upstream <- OneUpstream
  Cost <- UnitCost
  Pool = 2
  Configs <- SafetyConfigs
SPECIFICATION Spec
INVARIANTS
  TypeOK
  WorkerAccounting
  ParallelismCapped
  RequestsCoverQueue
  HandshakeAsserts
  UnitsConserved
  LtoBarrier
  SuccessIsComplete
  ErrorsReachMain
PROPERTIES
  AbortIsFinal
