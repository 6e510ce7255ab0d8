\* One pod: three rows, two attempts per round, two rounds per row.
CONSTANTS
    r1 = r1
    r2 = r2
    Relays <- OneRelay
    MaxEntries = 3
    DefaultMaxRetries = 2
    BatchSize = 2
    PublishRetries = 1
    MaxFaults = 2
    MaxResets = 1
SPECIFICATION Spec
INVARIANTS DuplicatesExplained FailedExplained
PROPERTY PublishedIsFinal
\* With every row settled and no fault left, the relay polls in vain.
CHECK_DEADLOCK FALSE
