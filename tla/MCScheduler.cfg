\* Jobs that respect their context: the slack covers lag and grace.
CONSTANTS
    p1 = p1
    p2 = p2
    e1 = e1
    e2 = e2
    e3 = e3
    NoOne = NoOne
    Pods <- TwoPods
    Execs <- ThreeExecs
    PodOf <- OnPods
    Timeout = 2
    Slack = 3
    MaxLag = 1
    JobGrace = 1
SPECIFICATION FairSpec
INVARIANTS OneInstance StartDrains NoLockLeft
PROPERTY StartEnds
\* Pods may all have stopped or died.
CHECK_DEADLOCK FALSE
