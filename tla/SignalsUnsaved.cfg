SPECIFICATION FairSpec
CONSTANTS
  c1 = c1
  c2 = c2
  NoData = NoData
  Containers = {c1, c2}
  Scrapes <- FewScrapes
  Window = 2
  RolloutTimeout = 1
  RecheckInterval = 1
  RecheckFor = 3
  MaxNewRestarts = 0
  MaxThrottleIncrease <- Tenth
  MaxReplicaIncrease <- Half
  MinAvailability <- NineTenths
  MaxClock = 5
PROPERTY JudgedInTheEnd
CHECK_DEADLOCK FALSE
