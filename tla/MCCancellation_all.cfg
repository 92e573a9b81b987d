SPECIFICATION FairSpec
CONSTANTS
    Handles = {h1, h2}
    Requests = {r1, r2}
    Credentials = {c1, c2}
    None = None
    MaxTracked = 1
    h1 = h1
    h2 = h2
    r1 = r1
    r2 = r2
    c1 = c1
    c2 = c2
INVARIANTS
    OneMeaning
    OwnerOnly
PROPERTIES
    IntentHonoured
    WaiterWakes
