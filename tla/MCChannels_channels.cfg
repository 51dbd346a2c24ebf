\* Every order of grants and elapsed budgets in a lane; two updates through outages, faults and crashes.
SPECIFICATION MCSpec
CONSTANTS
  s1 = s1
  s2 = s2
  s3 = s3
  s4 = s4
  h1 = h1
  Sender = {s1, s2, s3, s4}
  Healer = {h1}
  MaxUpdate = 2
  DownDebounce = 2
  MaxEvents = 3
INVARIANTS SoleOwner NothingForgotten HandedOffOnce
PROPERTIES KeepsLane DeliveryRuns EveryUpdateArrives
