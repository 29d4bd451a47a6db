CONSTANTS
  TWR118 = TWR118
  TWR301 = TWR301
  NoItem = NoItem
  r1 = r1
  Tower <- MCTower
  MaxInspections = 2
  SeedInspections <- MCSeed
  SeedCounter = 1
  NoInspection = NoItem
  Context <- MCReader
  IntBits = 16
  DefaultPageSize = 25
  MaxPageSize = 200
  Reader <- MCReader
  Ticker = ticker
  TowerInfo <- MCTowerInfo
  otherTower = otherTower
  OtherTower = otherTower
  MaxFindings = 4
  SeedFindings <- MCFindings
  NoFinding = NoItem
  MaxWrites = 2
  TopLimit = 2
  NewStatuses = {"in_progress", "completed"}
  NewFindings <- MCNewFindings
  Filters <- MCFilters
  Pages <- MCPages
  Sizes <- MCSizes
SPECIFICATION FairSpec
INVARIANTS TypeOK AnswersBracketed TopAreHeaviest PagesTile
PROPERTIES CacheCatchesUp TickerStops
CHECK_DEADLOCK FALSE
