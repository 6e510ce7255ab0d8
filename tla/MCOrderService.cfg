CONSTANTS
    o1 = o1
    r1 = r1
    r2 = r2
    w1 = w1
    w2 = w2
    NoOrder = NoOrder
    Orders <- MCOrders
    Requests <- MCRequests
    Workers <- MCWorkers
    MaxCopies = 2
    MaxDeliveries = 2
    MaxRedelivered = 1
    MaxBatch = 2
SPECIFICATION FairSpec
INVARIANTS OrderEventTogether ToldDurable
           HandledOnce SkipExplained
PROPERTY OrderAnnounced
CHECK_DEADLOCK FALSE
