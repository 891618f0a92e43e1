SPECIFICATION CondSpec
CONSTANTS
  t1 = t1
  t2 = t2
  t3 = t3
  none = none
  m = m
  c = c
  Task = {t1, t2, t3}
  NoTask = none
  Addr <- Words
  M = m
  C = c
  FUTEX_WAITERS_MAX = 3
  MayInt = {t1}
  MayTimeout = {t2}
  Recursive = TRUE
  MaxCount = 2
  MayTry = {t3}
  MayTimedLock = {t3}
  MaxSeq = 2
  MayCondWait = {t1, t2}
  Wakes = 3
INVARIANT NoStranded
INVARIANT CondExclusion
INVARIANT CondKept
