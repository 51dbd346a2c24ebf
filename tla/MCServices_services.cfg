SPECIFICATION MCSpec
CONSTANTS
  Request = {"r1", "r2"}
  ByMain = {"r1"}
  MaxDelay = 1
  SweepEvery = 2
  MaxOutages = 1
  Task = {"t1", "t2"}
  MaxConcurrent = 1
  MaxFaults = 3
  Pid = {"p1", "p2", "p3"}
  MaxAttempts = 2
  MaxCrashes = 1
  MaxMisses = 1
INVARIANTS SomebodyKnows WorkIsCounted OneOwner
PROPERTIES NoStaleApproval EveryRequestEnds ResultKept TaskEnds StartupsEnd
CHECK_DEADLOCK FALSE
