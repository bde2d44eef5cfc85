SPECIFICATION FairSpec
CONSTANTS
    Times = {s1, s2, s3, s4, s5, s6}
    NoTime = NoTime
    MaxGen = 2
    MaxFaults = 2
    MaxManual = 1
INVARIANTS OldIsRemoved
PROPERTIES SwapsWhole CredentialsGetFresh
