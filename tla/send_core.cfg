SPECIFICATION FairSpec
CONSTANTS
  a = a
  b = b
  NULL = NULL
  Caller = {a, b}
  MaxAttempts = 2
  Buffer = 5
  Grant = {6, 8}
  Limit = 5
  Before = {2, 3}
  MaxSend = 2
INVARIANT NeverSendsExpired
INVARIANT AnswerIsTrue
INVARIANT ReplyNumbersDiffer
PROPERTY EverySendEnds
CHECK_DEADLOCK FALSE
