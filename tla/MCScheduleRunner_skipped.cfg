SPECIFICATION Spec
CONSTANTS
  Task <- MCTwice
  Agents <- MCAgents
  Main = "main"
  MaxTime = 5
  Late = 0
  CatchUpCap = 4
  ColdStart = 1
  PersistEvery = 2
  Grace = 1
  MaxEvents = 0
INVARIANT RunsOrNamed
CHECK_DEADLOCK FALSE
