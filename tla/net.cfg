SPECIFICATION Spec
CONSTANTS
    n0 = n0
    n1 = n1
    n2 = n2
    v1 = v1
    v2 = v2
    None = None
    NoFile = NoFile
    Primary = n0
    Nics = {n0, n1, n2}
    Absent = {n2}
    Vlans = {v1, v2}
    Parent <- OnSecondary
    UserIfaces = {u}
    Deprecated = {n1}
    Metadata <- MCMetadata
    Configs <- MCConfigs
    Managers = {"networkd", "netplan", "dhclient", "wicked", "NetworkManager"}
    MaxChanges = 2
    MaxFaults = 1
INVARIANTS InactiveIsRolledBack AppliedIsLoaded LeasesHeld VlanLinksMatch
PROPERTIES AppliedIsOnDisk DescriptorApplied
CHECK_DEADLOCK FALSE
