SPECIFICATION Spec
CONSTANTS
  t1 = t1
  t2 = t2
  Task = {t1, t2}
  NCpu = 2
  Idle = Idle
  MaxPrio = 0
  prio <- FlatPrio
  aff <- AnyCpu
  Orphan = {t1}
  NoInt = {}
  Locked = TRUE
  MayKill = {}
  MayExit = {t1, t2}
  Window = TRUE
INVARIANTS TypeOK KickNotLost RunnableQueued FreedOffCpu OrphanFreed
PROPERTIES KeepsPromise
