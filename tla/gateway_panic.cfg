SPECIFICATION Spec
CONSTANTS
  MaxConn = 3
  MaxSession = 2
  MaxSeq = 2
  Silence = 3
  CanStop = FALSE
  NULL = NULL
INVARIANT NeverPanics
CHECK_DEADLOCK FALSE
