SPECIFICATION ManagersFairSpec
CONSTANTS
    u1 = u1
    u2 = u2
    u3 = u3
    k1 = k1
    k2 = k2
    Malformed = Malformed
    Users = {u1, u2, u3}
    Keys = {k1, k2}
    Descriptors <- AllDescriptors
    LocalUsers = {u1, u3}
    NoLogin = {u3}
    DeprovisionRemove = {TRUE, FALSE}
    Faults = {"create", "group", "write", "remove", "commit", "read", "crash"}
    MaxChanges = 2
    MaxFaults = 1
    w1 = w1
    w2 = w2
    c1 = c1
    c2 = c2
    own = own
    p1 = p1
    WinUsers = {w1, w2}
    WinIps = {c1, c2, own}
    OwnIps = {own}
    Ports = {p1}
    DefaultPort = DefaultPort
    BadPort = BadPort
    NoPort = NoPort
    MaxConns = 2
    Parts <- MCParts
    NoPart <- MCNoPart
    MaxWinChanges = 2
    MaxRestarts = 1
    MaxWinFaults = 2
INVARIANTS CacheMatchesDisk KeysTracked NothingTwice
PROPERTIES KeysGranted KeysRevoked 
