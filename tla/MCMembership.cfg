CONSTANTS
  Node <- Nodes3
  Seed <- SeedFirst
  MaxStarts = 3
  MaxCrashes = 1
  MaxFaults = 1
SPECIFICATION Spec
INVARIANT IndInv
PROPERTIES NewsNeverRegresses RestartOutranks
CHECK_DEADLOCK FALSE
