SPECIFICATION FairSpec
CONSTANTS
  MaxConn = 3
  MaxSession = 2
  MaxSeq = 2
  Silence = 2
  CanStop = TRUE
  NULL = NULL
INVARIANT TypeOK
INVARIANT NoConnectionLeft
INVARIANT OneHeartbeat
INVARIANT EachEventOnce
PROPERTY NeverResumesRefused
PROPERTY LeavesSilentPeer
PROPERTY RedialsAfterLoss
CHECK_DEADLOCK FALSE
