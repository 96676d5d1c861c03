CONSTANTS
  u1 = u1
  u2 = u2
  p1 = p1
  p2 = p2
  g1 = g1
  Proc = {p1, p2}
  User = {u1, u2}
  Tag = {g1}
  TagSets <- MCTagSets
  Length = 3
  Proposals <- MCProposals
  Overlap = FALSE
  Bound <- MCBound
  Events = 4
  Creates = 1
  Proposes = 2
  Votes = 2
  Schedules = 1
  Closes = 2
  Ticks = 1
  Subscribes = 1
  Unsubscribes = 1
  Deletes = 1
  Failures = 1
SPECIFICATION Spec
INVARIANTS SlotsDisjoint SeedKept  ForkIsSplice HeadIsOpen  VotesMatchChoice
  DeletionLeavesNothing  ChainFromAnyVersion
CONSTRAINT CreatedFirst
SYMMETRY Symmetry
CHECK_DEADLOCK FALSE
