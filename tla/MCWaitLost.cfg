SPECIFICATION FairSpec
CONSTANTS
  NoTask = NoTask
  AnyChild = AnyChild
  i = i
  p = p
  c1 = c1
  c2 = c2
  Task = {i, p, c1}
  Init1 = i
  SubReaper = {}
  Catch = {}
  PDeath = {}
  MayExit = {c1}
  Asks <- Hanging
  WAKE_MAX = 2
PROPERTY ExitSeen
CHECK_DEADLOCK FALSE
