\* Two rows for a sub-agent that goes away and comes back, or for the main agent, one sender unframable.
SPECIFICATION Spec
CONSTANTS
  Sub = {s1}
  Main = main
  Outsider = {}
  Unframable = {noname}
  Poison = {}
  System = system
  Poster = {s1, noname}
  Addressee = {s1, main}
  MAX_MESSAGES_PER_TICK = 2
  MAX_INJECT_FAILURES = 2
  INBOX_DRAIN_CAP = 1
  RECONNECT_BATCH_THRESHOLD = 1
  BATCH_AGE = 0
  ABANDON_WINDOW = 0
  STUCK_ESCALATE = 0
  BUSY_STUCK_ESCALATE = 1
  MaxPosts = 2
  MaxPuts = 0
  MaxFlips = 1
  MaxCrashes = 1
  MaxFaults = 1
  MaxClock = 1
  Responsive = {}
  Tracked = {1}
INVARIANTS
  NoFalseAlarm
PROPERTIES
  KeepsPromise
