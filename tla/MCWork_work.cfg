\* A briefing, a heartbeat and a command under crashes; two cards in two lanes; two ideas and two cards.
SPECIFICATION MCSpec
CONSTANTS
  Task <- MCTask
  Agents <- MCAgents
  Main = "main"
  MaxTime = 3
  Late = 0
  CatchUpCap = 4
  ColdStart = 1
  PersistEvery = 2
  Grace = 1
  MaxEvents = 2
  c1 = c1
  c2 = c2
  dev = dev
  mail = mail
  a1 = a1
  Card = {c1, c2}
  Lane = {dev, mail}
  Agent = {a1}
  Snapshot <- MCSnapshot
  MaxLimit = 1
  MaxCuts = 1
  MaxRequests = 3
  Idea = {"i1", "i2"}
  BoardCard = {"k1", "k2"}
INVARIANTS NothingVanishes NoDoubleFire ObligationsWatched WokenOnce PromotedHasCard
PROPERTY WipHolds
CHECK_DEADLOCK FALSE
