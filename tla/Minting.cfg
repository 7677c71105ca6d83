CONSTANTS
  Ids = {x1, x2, x3, x4}
  Nobody = Nobody
  Runs = {}
  NoRun = NoRun
  MaxDepth = 3
  MaxChildren = 2
  Mints = {m1, m2, m3}
  Unheld = {m3}
  Roots = {x1, x2}
  NoMint = NoMint
SPECIFICATION FairSpec
INVARIANTS
  OneComing
  NeverOvercounted
PROPERTY KeyArrives
CHECK_DEADLOCK FALSE
