\* A stop while an automatic start is under way: the agent comes back.
SPECIFICATION ALSpec
CONSTANTS
  MaxAttempts = 2
  AbsentAttempts = 1
  MaxOrders = 2
  MaxTroubles = 1
INVARIANT StoppedStaysStopped
CHECK_DEADLOCK FALSE
