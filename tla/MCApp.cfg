CONSTANTS
    r1 = r1
    r2 = r2
    u1 = u1
    name = name
    role = role
    old = old
    new = new
    NoUser = NoUser
    NoValue = NoValue
    NoToken = NoToken
    Requests <- MCRequests
    Settings <- MCSettings
    Tokens <- MCTokens
    Users <- MCUsers
    Fields <- MCFields
    Values <- MCValues
    Default = old
    Bodies <- MCBodies
    Configs <- MCConfigs
    MaxTasks = 1
    MaxMsgs = 1
    MaxStreams = 1
SPECIFICATION MCFairSpec
INVARIANTS ToldTrue OnlyAskedValues NoUseAfterClose
           CleanExit
PROPERTY SignalEnds
CHECK_DEADLOCK FALSE
