\* Two pods poll the same table with no lock, one row per poll.
CONSTANTS
    r1 = r1
    r2 = r2
    Relays <- TwoRelays
    MaxEntries = 2
    DefaultMaxRetries = 2
    BatchSize = 1
    PublishRetries = 0
    MaxFaults = 1
    MaxResets = 0
SPECIFICATION FairSpec
INVARIANTS PublishedDelivered
PROPERTIES ImplementsChannel Settles
\* With every row settled and no fault left, the relays poll in vain.
CHECK_DEADLOCK FALSE
