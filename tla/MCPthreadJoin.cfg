SPECIFICATION Spec
CONSTANTS
  o1 = o1
  o2 = o2
  t1 = t1
  t2 = t2
  none = none
  Task = {o1, o2, t1, t2}
  Owner = {o1, o2}
  Thread = {t1, t2}
  NoTask = none
  Addr <- Words
  Done <- DoneWord
  Tid <- TidWord
  FUTEX_WAITERS_MAX = 2
  MayInt = {o1}
  MayTimeout = {}
CHECK_DEADLOCK FALSE
INVARIANT NoUseAfterFree
INVARIANT ZombieKept
PROPERTY JoinReturns
