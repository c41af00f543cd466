SPECIFICATION Spec
CONSTANTS
  a1 = a1
  a2 = a2
  a3 = a3
  Attachments <- MCAttachments
  NONE = NONE
  MaxTransactions = 3
  CN_MAX_NUMBER = 2
  Operations <- TwoWaiters
PROPERTIES
  LimboKept
