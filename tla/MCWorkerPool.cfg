\* Five calls, two workers, a queue of two.
CONSTANTS
    c1 = c1
    c2 = c2
    c3 = c3
    c4 = c4
    c5 = c5
    w1 = w1
    w2 = w2
    NoTask = NoTask
    QueueSize = 2
    Callers <- FiveCallers
    PoolWorkers <- TwoWorkers
SPECIFICATION PoolFairSpec
INVARIANTS AcceptedOnce Drained
PROPERTIES BlockedReturns ShutdownReturns
\* Every caller calls once and the pool may be shut down.
CHECK_DEADLOCK FALSE
