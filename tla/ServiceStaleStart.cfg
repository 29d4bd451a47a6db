CONSTANTS
  TWR118 = TWR118
  TWR204 = TWR204
  NoItem = NoItem
  c1 = c1
  c2 = c2
  c3 = c3
  Tower <- MCTower
  MaxInspections = 4
  SeedInspections <- MCSeed
  SeedCounter = 2
  NoInspection = NoItem
  Context <- MCClient3
  Client <- MCClient3
  DueInDays <- MCDueInDays
SPECIFICATION Spec
PROPERTY StatusFollowsLifecycle
CHECK_DEADLOCK FALSE
