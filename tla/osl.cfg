SPECIFICATION Spec
CONSTANTS
    MdFlags <- MCFlags
    UserLines = {"a", "b"}
    InitialFiles <- MCFiles
    CertAuthentication = TRUE
    MaxChanges = 1
    MaxEdits = 1
    MaxFaults = 1
    MaxCrashes = 1
INVARIANTS UserLinesKept ConfigFollowsMetadata
CHECK_DEADLOCK FALSE
