SPECIFICATION FairSpec
CONSTANTS
  NoTask = NoTask
  AnyChild = AnyChild
  i = i
  p = p
  c1 = c1
  c2 = c2
  Task = {i, p, c1, c2}
  Init1 = i
  SubReaper = {p}
  Catch = {p}
  PDeath = {c2}
  MayExit = {c1, c2}
  Asks <- Mixed
  WAKE_MAX = 1
 
INVARIANT FreedDead
CHECK_DEADLOCK FALSE
PROPERTY ExitSeenCaught
PROPERTY OrphanReaped
