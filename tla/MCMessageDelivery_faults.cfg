\* One row for one sub-agent, and every fault in every gap.
SPECIFICATION Spec
CONSTANTS
  Sub = {s1}
  Main = main
  Outsider = {}
  Unframable = {}
  Poison = {}
  System = system
  Poster = {main}
  Addressee = {s1}
  MAX_MESSAGES_PER_TICK = 2
  MAX_INJECT_FAILURES = 2
  INBOX_DRAIN_CAP = 1
  RECONNECT_BATCH_THRESHOLD = 1
  BATCH_AGE = 0
  ABANDON_WINDOW = 0
  STUCK_ESCALATE = 0
  BUSY_STUCK_ESCALATE = 1
  MaxPosts = 1
  MaxPuts = 1
  MaxFlips = 1
  MaxCrashes = 1
  MaxFaults = 2
  MaxClock = 1
  Responsive = {}
  Tracked = {1}
INVARIANTS
  NoSilentLoss
  NoDuplicateDelivery
  AccountedOnce
  ReportFollows
