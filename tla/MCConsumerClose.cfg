\* One pod that is shut down.
CONSTANTS
    p1 = p1
    p2 = p2
    a = a
    b = b
    NoPod = NoPod
    Pods <- OnePod
    Workers = 2
    BufferPerWorker = 1
    Size = 2
    MaxOffset = 2
    KeyOf <- Keys
    Shard <- Hash
    MaxFaults = 1
SPECIFICATION Spec
INVARIANT CloseDrainsBatches
CHECK_DEADLOCK FALSE
