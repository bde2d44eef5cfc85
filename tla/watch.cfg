SPECIFICATION WatchersFairSpec
CONSTANTS
    Root = Root
    StopState = StopState
    a = a
    b = b
    t1 = t1
    t2 = t2
    NoToken = NoToken
    Missing = Missing
    PendingStop = PendingStop
    NoStop = NoStop
    Ips = {a, b}
    Tokens = {t1, t2}
    Values <- MCValues
    Guests <- MCGuests
    MaxAttempts = 2
    MayCancel = TRUE
    MaxVersion <- MCMaxVersion
    MaxFaults = 2
    MaxRemovals = 1
    MaxScriptFaults = 2
INVARIANTS WholeScripts
PROPERTIES DescriptorActedOn StopRunsScripts CancelEndsWatch
CHECK_DEADLOCK FALSE
