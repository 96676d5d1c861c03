CONSTANTS
  n1 = n1
  n2 = n2
  n3 = n3
  k1 = k1
  k2 = k2
  c1 = c1
  c2 = c2
  Node = {n1, n2, n3}
  Key = {k1}
  Client = {c1}
  Gateway = {n1}
  Deletes = {FALSE}
  RF = 3
  Walk <- MCWalk
  Batches <- OneKey
  Bound <- MCBound
  Writes = 2
  Reads = 1
  Crashes = 0
  Faults = 3
  Reconciles = 0
  Decommissions = 0
  Changes = 0
SPECIFICATION Spec
INVARIANT AckedVisible

CHECK_DEADLOCK FALSE
