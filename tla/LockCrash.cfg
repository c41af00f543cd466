\* Three processes ask for one lock; waits end with a grant, a timeout, a cancellation or
\* a deadlock, and processes die.
CONSTANTS
  Owners = {o1, o2, o3}
  Locks = {l1}
  RequestLevels <- SharedExclusive
  WaitModes <- AnyWait
  Cancellable <- MCOwners
  Transient = {}
  MaxReposts <- NoReposts
  MaxOwnCount = 1
  MaxWaits = 1
  Crashable <- ClassicProcesses
  lrq_ast_routine = {}
  Processes <- ClassicProcesses
  own_process <- ClassicProcess
  UseBlockingThread = TRUE
  NoOwner = NoOwner
  Repost = Repost
  Requests <- MCRequests
  lrq_owner <- MCOwner
  lrq_lock <- MCLock
SPECIFICATION Spec
SYMMETRY Symmetry
INVARIANTS
  TypeOK
  GrantedCompatible
  LockCountsAgree
  LockTableInv
  FirstPendingBlocked
  validate_lock
PROPERTIES
  ImplementsService
