CONSTANTS
  v1 = v1
  v2 = v2
  Keys = {1, 2}
  Vals = {v1, v2}
  Tombstone = Tombstone
  Absent = Absent
  Clients = {c1}
  Nobody = Nobody
  Batches <- MCWrites
  KeyLen <- MCKeyLen
  ValLen <- MCValLen
  MemtableSizeLimit = 1
  MaxCalls = 4
  MaxCrashes = 0
  MaxCloses = 0
  MaxFaults = 1
SPECIFICATION CompactSpec
PROPERTIES CompactPreservesReads
CHECK_DEADLOCK FALSE
