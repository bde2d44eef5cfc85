SPECIFICATION FairSpec
CONSTANTS
    o1 = o1
    o2 = o2
    Ops = {o1, o2}
    Outcomes <- MCOutcomes
    Capacity = 1
    MaxAttempts = 2
    MaxStream = 1
    MaxFaults = 2
PROPERTIES PreBeforePost RerunOnlyWhenEvicted RequestsAnswered
CHECK_DEADLOCK FALSE
