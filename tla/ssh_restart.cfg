SPECIFICATION Spec
CONSTANTS
  r1 = r1
  r2 = r2
  i1 = i1
  i2 = i2
  c1 = c1
  c2 = c2
  Restarter = Restarter
  NULL = NULL
  Req = {r1}
  Id = {i1}
  IdOf <- OneId
  Conn = {c1, c2}
  Config <- ToListed
  FirstConfig <- Default
  Clicker <- TwoClickers
  Max = 1
  MaxClicks = 1
  MaxApply = 1
  MaxAttempts = 2
  LossySend = FALSE
INVARIANT SweptLeavesNoneOpen
INVARIANT OpenIsListed
PROPERTY DecisionFollowsConfig
SYMMETRY ConnSymmetry
CHECK_DEADLOCK FALSE
