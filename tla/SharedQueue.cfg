\* Any number of deaths at the points the recovery is made for.
CONSTANTS
  Heads = {h1, h2}
  Items = {n1, n2, n3}
  Nil = Nil
  Marks = {"owner", "dummy"}
  CrashPoints <- RepairedPoints
  Purged <- LinksIntact
SPECIFICATION Spec
SYMMETRY Symmetry
INVARIANTS
  QueuesSound
PROPERTIES
  AtomicQueues
