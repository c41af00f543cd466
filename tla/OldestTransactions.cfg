SPECIFICATION Spec
CONSTANTS
  a1 = a1
  a2 = a2
  a3 = a3
  Attachments <- MCAttachments
  Kinds <- MCKinds
  Ends <- MCEnds
  MaxTransactions = 3
  TRA_ACTIVE_CLEANUP = 3
CHECK_DEADLOCK FALSE
INVARIANTS
  TypeOK
  GarbageSafeOnceStarted
  OldestDecided
