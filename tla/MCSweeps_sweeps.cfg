\* A broadcast that drains, and a filling session under the guard, the net, the flush and the gate.
SPECIFICATION MCSpec
CONSTANTS
  Task <- MCBroadcast
  Agents <- MCFleet
  Main = "main"
  MaxTime = 3
  Late = 0
  CatchUpCap = 4
  ColdStart = 1
  PersistEvery = 2
  Grace = 1
  MaxEvents = 1
  Settings <- MCSettings
  Edits <- MCEdits
  Heavy = 1
  Act = 1
  Hard = 2
  Saturated = 3
  MaxTroubles = 1
CHECK_DEADLOCK FALSE
PROPERTIES RowsDrain HonestResume NobodyStaysFull
