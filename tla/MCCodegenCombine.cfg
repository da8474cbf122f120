CONSTANTS
  c1 = c1
  c2 = c2
  c3 = c3
  alloc = alloc
  up = up
  Cgus <- TwoCgus
  Alloc <- alloc
  Upstream <- OneUpstream
  Cost <- UnitCost
  Pool = 2
  Configs <- CombineConfigs
SPECIFICATION Spec
INVARIANTS
  LinkAsserts
