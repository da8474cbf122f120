CONSTANTS
  c1 = c1
  c2 = c2
  c3 = c3
  alloc = alloc
  up = up
  Cgus <- TwoCgus
  Alloc <- alloc
  Upstream <- OneUpstream
  Cost <- UnitCost
  Pool = 1
  Configs <- LivenessConfigs
SPECIFICATION FairSpec
PROPERTIES
  Termination
