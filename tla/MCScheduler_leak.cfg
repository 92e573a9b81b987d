SPECIFICATION Spec
CONSTANTS
  r1 = r1
  r2 = r2
  r3 = r3
  r4 = r4
  Requests = {r1, r2, r3}
  MaxConcurrent = 1
  QueueLimit = 2
  DecodePriorityEnabled = FALSE
  PrefillIsolationEnabled = FALSE
  PrefillIsolationMax = 1
  DecodeReserve = 1
  MaxAbandoned = 1
INVARIANTS NoSlotForStoppedWork
