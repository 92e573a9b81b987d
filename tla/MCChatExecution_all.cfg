SPECIFICATION FairSpec
CONSTANTS
    r1 = r1
    r2 = r2
    r3 = r3
    Requests = {r1, r2, r3}
    Kinds <- MCKinds
    MaxSlots = 2
    MaxBatch = 2
    MaxDeltas = 1
    Aggressive = TRUE
INVARIANTS
    HeldByWork
    VerdictsAgree
PROPERTIES
    VerdictStands
    EveryStreamEnds
CHECK_DEADLOCK FALSE
