SPECIFICATION FairSpec
CONSTANTS
    Keys = {k1, k2}
    Users = {u1, u2}
    Admins = {a1}
    Closer = closer
    LoadsMayFail = FALSE
    MaxDirectUnloads = 0
    MaxDirectLoads = 1
    k1 = k1
    k2 = k2
    u1 = u1
    u2 = u2
    a1 = a1
    closer = closer
INVARIANTS
    DrainsComplete
    CleanupSparesPromised
PROPERTIES
    WaitsEnd
