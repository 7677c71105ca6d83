CONSTANTS
  MaxAttempts = 4
  Pieces = 1
  Reports = {1, 2}
  Budgets = {1, 2, 3, 4}
  Minimum = 2
  Automatic = TRUE
  w1 = w1
  w2 = w2
  p1 = p1
  p2 = p2
  Workers <- TwoWorkers
  Providers <- TwoProviders
  Rotates <- OneRotates
  Nobody = nobody
  Last = 3
  Bytes = {"data", "event", "bom", "note", "bad", "x"}
  LineLimit = 3
  EventLimit = 2
  TotalLimit = 5
  Longest = 6
  Chunk = 2
  Tries = 2
  Columns = {"input", "cache_read"}
  Figures = {0, 1}
  Prompts = {0, 1, 2, 3}
  Unknown = unknown
  Processes = {1, 2}
  Fetched = {"package"}
  Contents = {1, 2}
  Words = {1, 2}
  Unfit = {2}
  Lists = {1, 2}
  Most = 2
  Frames = 3
  Said = 4
SPECIFICATION Runs
INVARIANTS
  LeftWith
  AsDeclared
  CutsDoNotMatter
PROPERTIES
  StaysSignedIn
  Ends
CHECK_DEADLOCK FALSE
