SPECIFICATION Spec
CONSTANTS
  u1 = u1
  u2 = u2
  c1 = c1
  c2 = c2
  Users <- TwoUsers
  Collectors <- OneCollector
  Releasing <- TwoUsers
  Staying <- OneCollector
  NONE = NONE
  Mortal <- Nobody
  MaxSlots = 2
  MaxCommits = 3
  MaxReleases = 2
CHECK_DEADLOCK FALSE
INVARIANTS
  ListSafe
