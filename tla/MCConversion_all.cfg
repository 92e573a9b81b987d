SPECIFICATION FairSpec
CONSTANTS
    c1 = c1
    c2 = c2
    c3 = c3
    None = None
    Clients = {c1, c2, c3}
    Requests <- MCRequests
    MaxWorkers = 2
    MaxUpsets = 1
INVARIANTS
    WholeUnlessOverlap
    RetryStartsNothing
PROPERTIES
    JobsEnd
CHECK_DEADLOCK FALSE
