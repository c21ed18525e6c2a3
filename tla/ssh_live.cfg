SPECIFICATION FairSpec
CONSTANTS
  r1 = r1
  r2 = r2
  i1 = i1
  i2 = i2
  c1 = c1
  Restarter = Restarter
  NULL = NULL
  Req = {r1}
  Id = {i1}
  IdOf <- OneId
  Conn = {c1}
  Config <- ToOff
  FirstConfig <- Default
  Clicker <- OneClicker
  Max = 1
  MaxClicks = 1
  MaxApply = 1
  MaxAttempts = 1
  LossySend = TRUE
PROPERTY EveryRequestSettles
PROPERTY RestartCompletes
PROPERTY KeepsPromise
CHECK_DEADLOCK FALSE
