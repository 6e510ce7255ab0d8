\* Three calls, one retry, a breaker that trips at the first failure and lets
\* two calls in, tokens that live shorter and longer than the buffer.
CONSTANTS
    c1 = c1
    c2 = c2
    c3 = c3
    NoCall = NoCall
    Calls <- ThreeCalls
    MaxRetries = 1
    FailureThreshold = 1
    MaxRequests = 2
    ExpiryBuffer = 1
    Lifetimes = {1, 3}
    MaxTime = 2
    MaxPeriods = 1
SPECIFICATION FairSpec
INVARIANTS NoNeedlessFetch HalfOpenAccounted
PROPERTY CallsEnd
\* When all calls have ended only time is left.
CHECK_DEADLOCK FALSE
