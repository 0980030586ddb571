SPECIFICATION ChatSpec
CONSTANTS
    r1 = r1  r2 = r2  r3 = r3
    Requests = {r1, r2, r3}
    Mixes <- MCMixes
    QueueMax = 1
    MaxStops = 1
CHECK_DEADLOCK FALSE
INVARIANT NothingForgotten
INVARIANT NoIdleQueue
INVARIANT NoStrayProcess
PROPERTY EveryRequestSettles
