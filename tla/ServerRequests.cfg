CONSTANTS
  TWR118 = TWR118
  NoItem = NoItem
  c1 = c1
  c2 = c2
  s1 = s1
  u1 = u1
  Tower <- MCTower
  MaxInspections = 1
  SeedInspections <- MCSeed
  SeedCounter = 1
  NoInspection = NoItem
  Context <- MCClient
  Client <- MCClient
  DueInDays <- MCDueInDays
  Subscriber <- MCSubscriber
  SubscriberCapacity = 1
  StatusClient <- MCStatusClient
  SeedStatus <- MCSeedStatus
  UnknownTower = unknownTower
  BadTowerStatus = badTowerStatus
  MaxSignals = 2
SPECIFICATION FairSpec
INVARIANTS TypeOK SubscribersAreWaiting FirstEventArrives CleanExitLosesNothing
PROPERTIES NoSkippedStart EveryoneLeaves
CHECK_DEADLOCK FALSE
