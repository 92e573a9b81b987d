SPECIFICATION FairSpec
CONSTANTS
    r1 = r1
    r2 = r2
    r3 = r3
    kRank = kRank
    kOne = kOne
    kTwo = kTwo
    None = None
    Requests = {r1, r2, r3}
    Keys = {kRank, kOne, kTwo}
    Inputs <- MCInputs
    Asks <- MCAsks
    MaxSlots = 2
    Policy = "aggressive_unload"
INVARIANTS
    ClaimHasWorker
    HeldByExecution
    CancelStaysInFlight
PROPERTIES
    ImplementsSingleFlight
    EveryRequestEnds
CHECK_DEADLOCK FALSE
