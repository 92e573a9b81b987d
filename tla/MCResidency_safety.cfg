SPECIFICATION Spec
CONSTANTS
    Keys = {k1}
    Users = {u1, u2, u3}
    Admins = {a1, a2}
    Closer = closer
    LoadsMayFail = TRUE
    MaxDirectUnloads = 1
    MaxDirectLoads = 1
    k1 = k1
    u1 = u1
    u2 = u2
    u3 = u3
    a1 = a1
    a2 = a2
    closer = closer
SYMMETRY Symmetry
INVARIANTS
    OneTransition
    LeaseProtected
    CountsTrue
    DrainNotStranded
PROPERTIES
    NoNewUseWhileLeaving
