SPECIFICATION BusSpec
CONSTANTS
    Clients = {c1}
    Topics = {tokens, lifecycle}
    BufferSizes = {0, 2}
    MaxEvents = 5
    MaxEpochs = 2
    MaxHandoff = 1
    c1 = c1
    tokens = tokens
    lifecycle = lifecycle
SYMMETRY Symmetry
INVARIANTS
    NothingSilentlyLost
    InOrderOnce
