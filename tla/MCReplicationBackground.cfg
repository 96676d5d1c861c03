CONSTANTS
  n1 = n1
  n2 = n2
  n3 = n3
  k1 = k1
  k2 = k2
  c1 = c1
  c2 = c2
  Node = {n1, n2, n3}
  Key = {k1, k2}
  Client = {c1}
  Gateway = {n1}
  Deletes = {FALSE}
  RF = 2
  Walk <- MCWalk
  Batches <- BothKeys
  Bound <- MCBound
  Writes = 2
  Reads = 0
  Crashes = 1
  Faults = 1
  Reconciles = 1
  Decommissions = 1
  Changes = 1
SPECIFICATION Spec
INVARIANTS QuorumHolds HandoffComplete
CONSTRAINT OneDisturbance

CHECK_DEADLOCK FALSE
