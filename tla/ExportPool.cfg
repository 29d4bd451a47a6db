CONSTANTS
  TWR118 = TWR118
  NoItem = NoItem
  e1 = e1
  e2 = e2
  badStatus = badStatus
  Tower <- MCTower
  MaxInspections = 3
  SeedInspections <- MCSeed3
  SeedCounter = 3
  NoInspection = NoItem
  Context <- MCExporter2
  Exporter <- MCExporter2
  BadStatus = badStatus
  inspectionExportLeaseLimit = 2
SPECIFICATION ExportSpec
SYMMETRY Symmetry2
INVARIANTS TokensAreHeld ReportMatchesWorkers LostOnlyInContention
CHECK_DEADLOCK FALSE
