CONSTANTS
  TWR118 = TWR118
  NoItem = NoItem
  badStatus = badStatus
  noCutoff = noCutoff
  c1 = c1
  e1 = e1
  b1 = b1
  Tower <- MCTower
  MaxInspections = 3
  SeedInspections <- MCSeed
  SeedCounter = 2
  NoInspection = NoItem
  Context <- MCContext
  Client <- MCClient1
  DueInDays <- MCDueInDays
  Exporter <- MCExporter1
  BadStatus = badStatus
  inspectionExportLeaseLimit = 1
  Batch <- MCBatch1
  Cutoff <- MCCutoff
  NoCutoff = noCutoff
SPECIFICATION FairSpec
INVARIANTS TypeOK TrailsAreComplete EveryStampHasAnAuthor ReopenedByRace
PROPERTY EveryoneAnswered
CHECK_DEADLOCK FALSE
