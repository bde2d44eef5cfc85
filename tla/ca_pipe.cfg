SPECIFICATION CAFairSpec
CONSTANTS
    Sshd = {s1, s2}
    CanCancel = TRUE
    PipeExists = FALSE
    HasRestorecon = TRUE
    Capacity = 2
    MaxFailures = 1
INVARIANTS OneWriter
PROPERTIES SshdIsServed CancelEndsRun
CHECK_DEADLOCK FALSE
