SPECIFICATION OpsFairSpec
CONSTANTS
    Keys = {k1}
    Users = {u1}
    Admins = {o1, o2}
    Ops = {o1, o2}
    Callers = {c1}
    IdemKeys = {i1}
    Closer = closer
    LoadsMayFail = FALSE
    MaxDirectUnloads = 0
    MaxDirectLoads = 0
    NoKey = NoKey
    NoOp = NoOp
    MayAbandon = TRUE
    k1 = k1
    u1 = u1
    o1 = o1
    o2 = o2
    c1 = c1
    i1 = i1
    closer = closer
INVARIANTS
    OpsSound
PROPERTIES
    TerminalIsFinal
    CancelRestoresReady
    ImplementsResidency
    OperationsEnd
