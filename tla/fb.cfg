SPECIFICATION Spec
CONSTANTS
    NoId = NoId
    Ids = {i1, i2, i3}
    KeyTypes = {rsa, ed25519}
    FirstFiles = {NoId, i1}
    FirstLegacy = {NoId, i1}
    MaxClones = 2
    MaxFaults = 1
    MaxCrashes = 3
INVARIANTS OwnHostKeys PublishedKeyIsUsed
CHECK_DEADLOCK FALSE
