\* Three rows to one peer, every handler, a restart: the bridge against the operator, and its progress.
SPECIFICATION FairBridge
CONSTANTS
  p = p
  Peer = {p}
  MAX_FEDERATED_PER_TICK = 2
  ABANDON_WINDOW <- Windows
  BACKOFF_BASE = 1
  BACKOFF_MAX = 2
  Oversize <- BothSizes
  MaxPosts = 3
  LastPost = 0
  MaxPuts = 1
  MaxEdits = 2
  MaxRestarts = 1
  MaxTroubles = 2
  MaxClock = 2
CHECK_DEADLOCK FALSE
INVARIANTS
  ToldOnce
  NoOrphans
  OneMissPerTick
PROPERTIES
  CloserWins
  Settles
