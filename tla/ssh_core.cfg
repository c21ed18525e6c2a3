SPECIFICATION Spec
CONSTANTS
  r1 = r1
  r2 = r2
  i1 = i1
  i2 = i2
  c1 = c1
  Restarter = Restarter
  NULL = NULL
  Req = {r1, r2}
  Id = {i1, i2}
  IdOf <- TwoIds
  Conn = {c1}
  Config <- OneConfig
  FirstConfig <- Default
  Clicker <- OneClicker
  Max = 1
  MaxClicks = 2
  MaxApply = 0
  MaxAttempts = 1
  LossySend = FALSE
INVARIANT TypeOK
INVARIANT AnsweredOnceByAClick
INVARIANT NoMessageLeft
INVARIANT CounterExact
INVARIANT CapacityUntilRestart
CHECK_DEADLOCK FALSE
