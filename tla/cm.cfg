SPECIFICATION CommandFairSpec
CONSTANTS
    Conns = {c1, c2}
    Cmds = {x}
    Callers = {p1}
    MaxCalls = 2
INVARIANTS HandlerIsRegistered
PROPERTIES ClientsAreAnswered ClosedLoopEnds
CHECK_DEADLOCK FALSE
