SPECIFICATION FairSpec
CONSTANTS
    r1 = r1
    r2 = r2
    r3 = r3
    m1 = m1
    Requests = {r1, r2, r3}
    Models = {m1}
    ModelOf <- MCModelOf
    Prompt <- MCPrompt
    MaxTokens <- MCMaxTokens
    LaneOf <- MCLaneOf
    PageSize = 2
    MaxPages = 4
    Kinds <- MCKinds
    Temperatures = {1, 2}
    TemperatureIn <- MCTemperatureIn
    Gens = {1, 2}
    MaxBatch = 2
    MaxLoads = 2
    None = None
INVARIANTS
    KVBooks
    ReservedWhileDecoding
PROPERTIES
    EveryRequestEnds
CHECK_DEADLOCK FALSE
