\* A cap of two restarts and of one for an absent plugin, two orders, one trouble.
SPECIFICATION ALFairSpec
CONSTANTS
  MaxAttempts = 2
  AbsentAttempts = 1
  MaxOrders = 2
  MaxTroubles = 1
INVARIANTS RestartsBounded NoGhost
PROPERTY ServedOrReported
CHECK_DEADLOCK FALSE
