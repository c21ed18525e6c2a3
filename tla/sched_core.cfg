SPECIFICATION FairSpec
CONSTANTS
  hourly = hourly
  nightly = nightly
  a = a
  Shared = Shared
  NULL = NULL
  Job = {hourly, nightly}
  Id = {a}
  IdOf <- Ids
  Cron = {nightly}
  Due <- Matching
  MaxMinute = 2
  MaxLoop = 2
  MaxStart = 2
  Bits = 7
  ExprOf <- Expressions
  MomentOf <- Moments
  Sample <- Fields
INVARIANT EveryJobIsServed
INVARIANT OneRunnerEach
INVARIANT OncePerMinute
INVARIANT CronMeansDocs
PROPERTY CancelEndsLoop
PROPERTY StopEndsLoops
CHECK_DEADLOCK FALSE
