SPECIFICATION Spec
CONSTANTS
    e1 = e1
    e2 = e2
    w1 = w1
    w2 = w2
    f1 = f1
    p1 = p1
    p2 = p2
    Watchers = {w1, w2}
    Events = {e1, e2}
    Owner <- MCOwner
    Callers = {"main", "cb", "client"}
    Allowed <- SafetyUse
    Fns = {f1}
    Ptrs = {p1}
    CanCancel = TRUE
    NoEvent = NoEvent
    NoCaller = NoCaller
INVARIANTS SingleLaunch NoEarlyReturn RemovedIsAborted
CHECK_DEADLOCK FALSE
