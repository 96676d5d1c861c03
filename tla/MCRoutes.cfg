CONSTANTS
  p1 = p1
  p2 = p2
  w = w
  root = root
  u1 = u1
  u2 = u2
  d1 = d1
  Proc = {p1, p2}
  Worker = w
  User = {root, u1, u2}
  Admin = root
  Rights <- MCRights
  Device = {d1}
  Prune = TRUE
  SearchLimit = 1
  None = None
  Bound <- MCBound
  Events = 5
  Creates = 1
  Proposes = 1
  Votes = 1
  Closes = 1
  Schedules = 1
  Ticks = 1
  Subscribes = 1
  Leaves = 1
  Deletes = 1
  DeleteUsers = 1
  Registrations = 3
  Faults = 1
  v1 = v1
  v2 = v2
  Limit = 1
  MaxRows = 4
  MaxChanges = 2
SPECIFICATION BothSpec
INVARIANTS FollowersHear NotToldOfOwnDoing  SearchFindsCurrent DeviceReachesItsUser
  PageIsCurrent BadgeMatchesList
CONSTRAINTS OneDelivery OneOfEach
SYMMETRY Symmetry
CHECK_DEADLOCK FALSE
