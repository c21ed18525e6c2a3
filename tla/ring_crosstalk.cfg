SPECIFICATION Spec
CONSTANTS
  Size = 3
  Button = {echo, b1, b2}
  echo = echo
  b1 = b1
  b2 = b2
  Echo = echo
  Plain = {}
  MaxRestart = 0
  NULL = NULL
INVARIANT NoCrosstalk
CHECK_DEADLOCK FALSE
