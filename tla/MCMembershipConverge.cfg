CONSTANTS
  Node <- Nodes3
  Seed <- SeedSecond
  MaxStarts = 3
  MaxCrashes = 0
  MaxFaults = 0
SPECIFICATION FairSpec
PROPERTIES ViewsConverge EventuallyOneLeader
CHECK_DEADLOCK FALSE
