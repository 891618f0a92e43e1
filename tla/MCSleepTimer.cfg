SPECIFICATION Spec
CONSTANTS
  t1 = t1
  t2 = t2
  none = none
  Task = {t1, t2}
  NoTask = none
  MaySignal = {t2}
  MayPreempt = {t2}
  MaxSleep = 2
  Lengths <- SleepLen
  NOHZ_MIN = 2
  NOHZ_MAX = 2
  WAKE_MAX = 1
INVARIANT DeadlineKept
INVARIANT TickInTime
