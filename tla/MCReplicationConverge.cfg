CONSTANTS
  n1 = n1
  n2 = n2
  n3 = n3
  k1 = k1
  k2 = k2
  c1 = c1
  c2 = c2
  Node = {n1, n2}
  Key = {k1}
  Client = {c1, c2}
  Gateway = {n1}
  Deletes = {FALSE, TRUE}
  RF = 2
  Walk <- MCWalk
  Batches <- OneKey
  Bound <- MCBound
  Writes = 2
  Reads = 0
  Crashes = 0
  Faults = 0
  Reconciles <- Unlimited
  Decommissions = 0
  Changes = 0
SPECIFICATION FairSpec
PROPERTY ReplicasConverge

CHECK_DEADLOCK FALSE
