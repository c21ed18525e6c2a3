SPECIFICATION Spec
CONSTANTS
  Size = 3
  Button = {echo, b1, b2, b3, b4}
  echo = echo
  b1 = b1
  b2 = b2
  b3 = b3
  b4 = b4
  Echo = echo
  Plain = {p1}
  p1 = p1
  MaxRestart = 1
  NULL = NULL
INVARIANT KeepsNewest
INVARIANT OwnHandlerBeforeWrap
INVARIANT NeverPanicsBeforeRestart
CHECK_DEADLOCK FALSE
