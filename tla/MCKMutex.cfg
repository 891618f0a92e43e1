SPECIFICATION FairSpec
CONSTANTS
  Task = {t1, t2, t3}
  NoTask = NoTask
INVARIANTS
  MutualExclusion
  HeldByMeCorrect
  HandoffReaches
PROPERTIES
  ImplementsFairLock
  WaiterServed
