SPECIFICATION FairSpec
CONSTANTS
  Workers = {w1, w2}
  ReadCount = 2
  SaveEvery = 2
  MaxLen = 2
  MaxDecisions = 3
  MaxFaults = 1
  MaxCrashes = 1
  MaxInterrupts = 1
INVARIANTS
  TypeOK
  DecisionsKept
  ForksBounded
  StateLagBounded
PROPERTIES
  GrowsTree
  EveryDecisionSettles
