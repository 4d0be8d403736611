SPECIFICATION MCSpec
CONSTANTS
  m1 = m1
  m2 = m2
  Messages <- MCMessages
  Legacy = {m2}
  MaxFaults = 3
  p1 = p1
  p2 = p2
  p3 = p3
  Starters <- MCStarters
  NoFile = NoFile
  MaxCrashes = 2
  MaxRuns = 2
  MaxInstalls = 1
  MaxNpmFaults = 2
  r1 = r1
  r2 = r2
  w1 = w1
  Releases <- MCReleases
  Work = {w1}
  Update = Update
  NoOwner = NoOwner
  MaxPids = 4
  MaxGateFaults = 2
  SysOps <- MCSysOps
  NoSysOp = 0
  MaxSysFaults = 2
  Ops <- MCOps
  Calls <- MCCalls
  Inputs <- MCInputs
  Resources <- MCResources
  NoOp = NoOp
  NoInput = NoInput
  o1 = o1
  c1 = c1
  c2 = c2
  i1 = i1
  i2 = i2
  t1 = t1
INVARIANTS NativeOnce JournalIsSound OneResultOwner LockSafe LockRecovers NpmPlanHolds GateCutsNothing GateSettles SysDutyKept SysInputApart
PROPERTIES AcceptedIsFinal TurnIsRecognised RepeatedInput NpmVerifiedByOwnChild NpmEndsServing GateHolds SysRestoreEnds
CHECK_DEADLOCK FALSE
