SPECIFICATION SysSpec
CONSTANTS
  SysOps = {1, 2}
  NoSysOp = 0
  MaxSysFaults = 2
INVARIANT SysClearedWhenActive
CHECK_DEADLOCK FALSE
