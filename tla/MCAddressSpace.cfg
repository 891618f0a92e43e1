SPECIFICATION Spec
CONSTANTS
  t1 = t1
  t2 = t2
  c1 = c1
  m1 = m1
  m2 = m2
  NoTask = NoTask
  NoMm = NoMm
  Task = {t1, t2, c1}
  Child = {c1}
  Mm = {m1, m2}
  Mm1 = m1
  Page = {1, 2}
  NFrame = 3
  Value = {0, 1}
  Zero = 0
  File = 1
  Starts <- Processes
VIEW View
INVARIANT RefExact
INVARIANT ReachesOwn
PROPERTY HasPrivateMemory
CHECK_DEADLOCK FALSE
