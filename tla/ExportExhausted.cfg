CONSTANTS
  TWR118 = TWR118
  NoItem = NoItem
  e1 = e1
  e2 = e2
  badStatus = badStatus
  Tower <- MCTower
  MaxInspections = 5
  SeedInspections <- MCSeed5
  SeedCounter = 5
  NoInspection = NoItem
  Context <- MCExporter1
  Exporter <- MCExporter1
  BadStatus = badStatus
  inspectionExportLeaseLimit = 4
SPECIFICATION ExportSpec
INVARIANT ExportMovesEvery
CHECK_DEADLOCK FALSE
