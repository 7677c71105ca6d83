CONSTANTS
  s1 = s1
  s2 = s2
  s3 = s3
  Ids = {s1, s2, s3}
  Nobody = Nobody
  Runs = {}
  NoRun = NoRun
  MaxDepth = 3
  MaxChildren = 2
  Asks <- Mutual
  NoAsk = NoAsk
  Mortals = {}
  AskedAtOnce = 1
SPECIFICATION Spec
INVARIANT NotBoth
CHECK_DEADLOCK FALSE
