SPECIFICATION FairSpec
CONSTANTS
  NoTask = NoTask
  NoFile = NoFile
  p1 = p1
  p2 = p2
  w1 = w1
  f1 = f1
  f2 = f2
  File = {f1, f2}
  Task = {p1, p2, w1}
  Poller = {p1, p2}
  Waker = {w1}
  Want <- Wanted
  Feeds <- Fed
  NoQueue = {f2}
  Finite = {p1}
  MaySignal = {p1}
  WAITQ_POLLERS = 1
  POLLWAIT_SLOTS = 1
INVARIANT TypeOK
INVARIANT NoLostPoll
INVARIANT Registered
PROPERTY PollReturns
