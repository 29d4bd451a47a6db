CONSTANTS
  TWR118 = TWR118
  TWR204 = TWR204
  NoItem = NoItem
  noCutoff = noCutoff
  b1 = b1
  b2 = b2
  b3 = b3
  Tower <- MCTower
  MaxInspections = 4
  SeedInspections <- MCSeed
  SeedCounter = 4
  NoInspection = NoItem
  Context <- MCBatch3
  Batch <- MCBatch3
  Cutoff <- MCCutoff
  NoCutoff = noCutoff
SPECIFICATION BatchSpec
INVARIANTS LeaseIsExclusive NoneLeftOverdue
CHECK_DEADLOCK FALSE
