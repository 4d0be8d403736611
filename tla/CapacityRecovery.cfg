SPECIFICATION FairSpec
CONSTANTS
  MaxTurns = 4
  MaxAttempts = 3
  Limit = 2
  MaxFaults = 1
INVARIANT ResumesAreBounded
PROPERTIES DoubtBlocks CancelHolds WaitingMovesOn
CHECK_DEADLOCK FALSE
