CONSTANTS
  v1 = v1
  v2 = v2
  Keys = {1, 2}
  Vals = {v1, v2}
  Tombstone = Tombstone
  Absent = Absent
  Clients = {c1, c2}
  Nobody = Nobody
  Batches <- MCBatches
  KeyLen <- MCKeyLen
  ValLen <- MCValLen
  MemtableSizeLimit = 4
  MaxCalls = 4
  MaxCrashes = 1
  MaxCloses = 0
  MaxFaults = 1
SPECIFICATION Spec
INVARIANT RestartSucceeds
CHECK_DEADLOCK FALSE
