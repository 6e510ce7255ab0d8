\* Two pods, two messages, one fault.
CONSTANTS
    p1 = p1
    p2 = p2
    a = a
    b = b
    NoPod = NoPod
    Pods <- TwoPods
    Workers = 2
    BufferPerWorker = 1
    Size = 2
    MaxOffset = 2
    KeyOf <- Keys
    Shard <- Hash
    MaxFaults = 1
SPECIFICATION FairSpec
PROPERTIES Consumed ShutdownEnds
\* With every message handled and no fault left, the pods wait.
CHECK_DEADLOCK FALSE
