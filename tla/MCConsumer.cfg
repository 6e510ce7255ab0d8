\* Two pods with two workers each, three messages, one fault.
CONSTANTS
    p1 = p1
    p2 = p2
    a = a
    b = b
    NoPod = NoPod
    Pods <- TwoPods
    Workers = 2
    BufferPerWorker = 1
    Size = 2
    MaxOffset = 3
    KeyOf <- Keys
    Shard <- Hash
    MaxFaults = 1
SPECIFICATION Spec
INVARIANTS TypeOK CommittedAccounted OrderedPerKey CloseDrains
\* With every message handled and no fault left, the pods wait.
CHECK_DEADLOCK FALSE
