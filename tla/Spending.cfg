CONSTANTS
  a1 = a1
  a2 = a2
  a3 = a3
  i1 = i1
  i2 = i2
  Asks <- ThreeAsks
  Costs = {0, 3}
  NoInode = none
  Nobody = nobody
  Cap = 4
  Full = 8
  Inodes <- TwoInodes
  Ids <- FourNames
  Runs <- ThreeRuns
  MaxDepth = 3
  MaxChildren = 3
  Others <- ThreeOthers
  Talk = "instance"
  Tools <- TwoTools
  Says <- ThreeReports
  PageLines = 2
  PageBytes = 6
  MaxLives = 2
  lead = lead
  other = other
  beside = beside
  Writer = Writer
  NoRun = NoRun
  NoReport = NoReport
  Old = Old
SYMMETRY Symmetry
SPECIFICATION Books
INVARIANTS
  Accounted
  OneAtATime
  ReportIsTheirs
PROPERTY RefusedAtCap
CHECK_DEADLOCK FALSE
