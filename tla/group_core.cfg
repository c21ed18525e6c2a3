SPECIFICATION Spec
CONSTANTS
  g1 = g1
  g2 = g2
  m1 = m1
  x = x
  k1 = k1
  k2 = k2
  old = old
  new = new
  NULL = NULL
  Failed = Failed
  Goroutine = {g1, g2}
  Path = {old, new}
  DefaultPath = old
  Configured = new
  Entry = {"guard", "key", "enabled"}
  Value = {TRUE, FALSE, k1, k2}
  FirstDisk <- Disks
  MaxOpens = 3
  Token = {m1, x}
  Member = {m1}
  Other = x
  PluginId = {"GroupGuard", "other"}
  Method = {"GET", "HEAD"}
  PushKey = {k1, k2}
  MaxRuns = 3
  MaxRestart = 1
INVARIANT HandledOnce
INVARIANT NobodyEntersUnverified
INVARIANT MutedHasWayOut
INVARIANT PushIsAllowed
SYMMETRY GoroutineSymmetry
CHECK_DEADLOCK FALSE
