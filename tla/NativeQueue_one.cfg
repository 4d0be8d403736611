SPECIFICATION MCSpec
CONSTANTS
  m1 = m1
  m2 = m2
  a1 = a1
  a2 = a2
  f1 = f1
  None = None
  Messages <- OneMessage
  Accounts <- OneAccount
  Foreign <- OneItem
  MaxFaults = 2
  FolMaxTurns = 2
  MaxFolHints = 1
  MaxFolFaults = 1
INVARIANT ReceiptsAreTrue
PROPERTIES SubmittedAtMostOnce NoReopenNoSkip FolPromise ResultsArrive
CHECK_DEADLOCK FALSE
