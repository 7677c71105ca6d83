CONSTANTS
  Calls = 4
  Newer = {2}
  c1 = c1
  c2 = c2
  m1 = m1
  m2 = m2
  m3 = m3
  m4 = m4
  Callers = {c1, c2}
  Said <- Four
  Urgent = {m1, m3}
  NoMessage = NoMessage
  AtMost = 2
  Room = 2
  Page = 1
  Sayings = 2
  Tools = {1, 2}
  Marks = {"a", "b", "c"}
  Tries = 3
  InAWindow = 2
  Window = 2
  MaxTime = 2
  a1 = a1
  a2 = a2
  w1 = w1
  w2 = w2
  Agents = {a1, a2}
  Works = {w1, w2}
  HopLimit = 3
  Held = 2
  Peers = {1}
  Nobody = Nobody
  Phases = {"working", "finished"}
  NoPhase = NoPhase
  Rosters = 1
  Watchers = {t1}
  Lives = 2
  Turns = 2
SPECIFICATION Talks
INVARIANTS
  OwnAnswer
  Delivered
  CapKept
  StopsInTime
  RightlyTold
PROPERTIES
  Exchanges
  UrgentStays
  CatchesUp
CHECK_DEADLOCK FALSE
