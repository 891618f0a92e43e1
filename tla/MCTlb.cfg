SPECIFICATION Spec
CONSTANTS
  NoTask = NoTask
  Kernel = Kernel
  t1 = t1
  t2 = t2
  t3 = t3
  t4 = t4
  m1 = m1
  m2 = m2
  c1 = c1
  c2 = c2
  c3 = c3
  Cpu = {c1, c2, c3}
  Task = {t1, t2, t3, t4}
  Mm = {m1, m2}
  mm <- MmOf
  Changer = {t1, t2, t3}
  Spin = {t2}
  Migrate = {}
 
 
INVARIANT RequestKept
PROPERTY FlushReturns
