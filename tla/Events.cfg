CONSTANTS
  t1 = t1
  t2 = t2
  Threads <- TwoThreads
  Each = 2
  Slots = 2
  Last = 4
  Reports = 2
SPECIFICATION FairSpec
INVARIANTS
  AllReckoned
PROPERTIES
  NothingAfter
  ShutdownEnds
CHECK_DEADLOCK FALSE
