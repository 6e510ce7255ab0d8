\* Three clients; TTL one longer than the slowest reply and the longest work.
CONSTANTS
    c1 = c1
    c2 = c2
    c3 = c3
    NoOne = NoOne
    Clients <- ThreeClients
    TTL = 5
    RetryTimeout = 3
    MaxLag = 2
    HoldLimit = 2
SPECIFICATION FairSpec
INVARIANTS MutualExclusion
PROPERTIES OnlyOwnerReleases KeyFreed
