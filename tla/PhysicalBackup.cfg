\* p1 makes backups and may die, both modify pages.
CONSTANTS
  p1 = p1
  p2 = p2
  hdrPage = hdrPage
  dataPage = dataPage
  None = None
  Processes <- TwoProcesses
  Operators <- OneOperator
  Writers <- OnePageEach
  Mortal = {p1}
  Pages <- TwoPages
  HeaderPage <- hdrPage
  MaxVersions <- DataTwice
  MaxDeaths = 1
SPECIFICATION Spec
CHECK_DEADLOCK FALSE
INVARIANTS
  TypeOK
  DiskCurrent
  ReadsLatest
  StateKnown
  AllocComplete
  StepsDown
