\* Rows for a responsive sub-agent, for the main agent and for a name without a session
\* settle, one row in the slice of a tick.
SPECIFICATION FairSpec
CONSTANTS
  Sub = {s1}
  Main = main
  Outsider = {owner}
  Unframable = {}
  Poison = {}
  System = system
  Poster = {main}
  Addressee = {s1, main, owner}
  MAX_MESSAGES_PER_TICK = 1
  MAX_INJECT_FAILURES = 2
  INBOX_DRAIN_CAP = 1
  RECONNECT_BATCH_THRESHOLD = 1
  BATCH_AGE = 0
  ABANDON_WINDOW = 0
  STUCK_ESCALATE = 0
  BUSY_STUCK_ESCALATE = 1
  MaxPosts = 2
  MaxPuts = 0
  MaxFlips = 1
  MaxCrashes = 0
  MaxFaults = 1
  MaxClock = 1
  Responsive = {s1}
  Tracked = {1, 2, 3}
PROPERTIES
  EveryRowSettles
