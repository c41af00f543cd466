\* Liveness, with deadlocks between two processes of which one may die.
CONSTANTS
  Owners = {o1, o2}
  Locks = {l1, l2}
  RequestLevels <- Exclusive
  WaitModes <- OneTimed
  Cancellable = {}
  Transient = {}
  MaxReposts <- NoReposts
  MaxOwnCount = 1
  MaxWaits = 1
  Crashable <- OneMayDie
  lrq_ast_routine <- MCRequests
  Processes <- ClassicProcesses
  own_process <- ClassicProcess
  UseBlockingThread = TRUE
  NoOwner = NoOwner
  Repost = Repost
  Requests <- MCRequests
  lrq_owner <- MCOwner
  lrq_lock <- MCLock
SPECIFICATION FairSpec
INVARIANTS
  DeadlockWillBeScanned
PROPERTIES
  WaitsEnd
