SPECIFICATION Spec
CONSTANTS
  m1 = m1
  m2 = m2
  a1 = a1
  a2 = a2
  f1 = f1
  None = None
  Messages <- OneMessage
  Accounts <- OneAccount
  Foreign <- OneItem
  MaxFaults = 1
INVARIANT UnconfirmedByHandoff

CHECK_DEADLOCK FALSE
