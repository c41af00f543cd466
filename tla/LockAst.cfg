\* ASTs run by local threads and by the blocking threads of two processes, of which one dies;
\* its owner comes and goes, is used twice and reposts its ASTs.
CONSTANTS
  Owners = {o1, o2, o3}
  Locks = {l1}
  RequestLevels <- MixedLevels
  WaitModes <- AllWait
  Cancellable = {}
  Transient <- MCAlone
  MaxReposts <- OneRepost
  MaxOwnCount = 2
  MaxWaits = 1
  Crashable <- AloneMayDie
  lrq_ast_routine <- MixedAst
  Processes <- TwoProcesses
  own_process <- MixedProcess
  UseBlockingThread = TRUE
  NoOwner = NoOwner
  Repost = Repost
  Requests <- MCRequests
  lrq_owner <- MCOwner
  lrq_lock <- MCLock
SPECIFICATION Spec
INVARIANTS
  validate_owner
  NoAstAfterPurge
  NoLostBlock
  SignalServed
