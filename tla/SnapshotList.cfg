SPECIFICATION Spec
CONSTANTS
  u1 = u1
  u2 = u2
  c1 = c1
  c2 = c2
  Users <- TwoUsers
  Collectors <- TwoCollectors
  Releasing <- OneUser
  Staying <- OneCollector
  NONE = NONE
  Mortal <- OneMortal
  MaxSlots = 2
  MaxCommits = 2
  MaxReleases = 1
CHECK_DEADLOCK FALSE
INVARIANTS
  TypeOK
  ListConsistent
  SnapshotKept
  ScannedListSafe
