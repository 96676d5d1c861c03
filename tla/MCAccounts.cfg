CONSTANTS
  p1 = p1
  p2 = p2
  Proc = {p1, p2}
  Email = {e1}
  Assigned <- MCAssigned
  MaxCached = 1
  None = None
  Bound <- MCBound
  Events = 5
  Registers = 1
  Googles = 2
  Logins = 1
  Confirms = 1
  Votes = 2
  Assigns = 1
  Deletes = 1
  Faults = 1
  Disconnects = 1
  Crashes = 1
SPECIFICATION Spec
INVARIANTS NothingUngranted AckedAccountHasRights RolledBackStaysGone GrantKept CacheTracksReads NothingLeftUnderDeletedId
SYMMETRY Symmetry
CHECK_DEADLOCK FALSE
