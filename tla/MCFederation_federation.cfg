\* Lost, late and repeated POSTs, restarts, evictions, and a sender that loses its store and is paired again.
SPECIFICATION Spec
CONSTANTS
  p = p
  Peer = {p}
  MAX_FEDERATED_PER_TICK = 1
  ABANDON_WINDOW <- Windows
  BACKOFF_BASE = 1
  BACKOFF_MAX = 2
  Oversize <- Small
  MaxPosts = 1
  LastPost = 0
  MaxPuts = 0
  MaxEdits = 2
  MaxRestarts = 1
  MaxTroubles = 2
  MaxClock = 2
  DEDUP_CAP = 1
  QuietRemoval = TRUE
  MaxInboxEdits = 2
  MaxInboxRestarts = 1
  MaxInboxTroubles = 3
  MaxStrangers = 1
  ReAdd = TRUE
  MaxResets = 1
CHECK_DEADLOCK FALSE
INVARIANTS
  DeliveredIsThere
  OneCopyPerEra
