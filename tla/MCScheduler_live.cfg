SPECIFICATION FairSpec
CONSTANTS
  r1 = r1
  r2 = r2
  r3 = r3
  r4 = r4
  Requests = {r1, r2, r3}
  MaxConcurrent = 2
  QueueLimit = 2
  DecodePriorityEnabled = TRUE
  PrefillIsolationEnabled = TRUE
  PrefillIsolationMax = 1
  DecodeReserve = 1
  MaxAbandoned = 1
PROPERTIES EventuallyServed
