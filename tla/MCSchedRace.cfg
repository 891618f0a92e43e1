SPECIFICATION Spec
CONSTANTS
  t1 = t1
  t2 = t2
  Task = {t1, t2}
  NCpu = 2
  Idle = Idle
  MaxPrio = 1
  prio <- TwoPrio
  aff <- T2Pinned
  Orphan = {}
  NoInt = {t2}
  Locked = FALSE
  MayKill = {t1}
  MayExit = {}
  Window = FALSE
INVARIANTS OneCpu  KillNotLost
