CONSTANTS
  TWR118 = TWR118
  TWR301 = TWR301
  NoItem = NoItem
  noFinding = noFinding
  noOrder = noOrder
  c1 = c1
  c2 = c2
  c3 = c3
  c4 = c4
  Tower <- MCTower
  MaxInspections = 0
  SeedInspections <- MCNoInspections
  SeedCounter = 0
  NoInspection = NoItem
  Context <- MCClient4
  OrderClient <- MCClient4
  MaxFindings = 3
  MaxOrders = 2
  SeedFindings <- MCSeedFindings
  SeedFindingCounter = 1
  NoFinding = noFinding
  NoOrder = noOrder
SPECIFICATION Spec
SYMMETRY Symmetry4
INVARIANT HighFindingsHaveOrders
CHECK_DEADLOCK FALSE
