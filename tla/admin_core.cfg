SPECIFICATION Spec
CONSTANTS
  e1 = e1
  e2 = e2
  a1 = a1
  p = p
  q = q
  s1 = s1
  s2 = s2
  u = u
  g = g
  NULL = NULL
  Blank = Blank
  Req = {e1, e2, a1}
  Plugin = {p, q}
  PageOf <- Pages
  Plain = {"off", "on"}
  Zero = "off"
  Secret = {s1, s2}
  Accepted <- NeedsSecret
  Refused <- NotTheSecond
  Path <- Commands
  Person = {u, g}
  AccessInput <- Forms
  MaxPut = 3
  MaxStart = 2
  Text <- Texts
  At = "@"
  OwnerOf <- Owners
  RoleOf <- Roles
  GroupOnly <- Groups
  Sent <- Messages
  MaxMessage = 1
INVARIANT SavedIsInEffect
INVARIANT StartsAgain
INVARIANT RunsWhatWasJudged
PROPERTY SecretSurvivesBlank
PROPERTY StartsFollowThePanel
CHECK_DEADLOCK FALSE
