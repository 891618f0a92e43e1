CONSTANTS
    r1 = r1  w1 = w1  w2 = w2  NoTask = NoTask
    Task = {r1, w1, w2}  Reader = {r1}  Writer = {w1, w2}
    NonBlock = {}
    PIPE_BUFSZ = 3  PIPE_ATOMIC = 2  PIPE_WAITERS = 1
    ReadLen = {2}  WriteLen <- Lens
    MaySignal = {w1}
SPECIFICATION FairSpec
INVARIANT NoLostWake
PROPERTY InOrder
CHECK_DEADLOCK FALSE
PROPERTY EndSeen
