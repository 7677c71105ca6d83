CONSTANTS
  s1 = s1
  s2 = s2
  s3 = s3
  Ids = {s1, s2, s3}
  Nobody = Nobody
  Runs = {}
  NoRun = NoRun
  MaxDepth = 3
  MaxChildren = 2
  Asks <- MutualAndOther
  NoAsk = NoAsk
  Mortals = {s1, s2}
  AskedAtOnce = 1
  Names = {1, 2, 3, 4}
  Keys = {r1, r2, r3}
  Deep = 3
  Wide = 2
  Grafts <- Anybody
  TheRun = r
  Doomed = {3}
  x1 = x1
  x2 = x2
  x3 = x3
  NoKey = NoKey
  Tall = 4
  Starters <- OneAfterAnother
  Ender = 1
  Ended = 2
  Secrets = {2}
  Callers = {x1, x2, x3}
  Talk = "instance"
  Asked <- CallsOfOne
  Shifts = 1
  AtOnce = 2
  Lives <- TwoPass
  p1 = p1
  p2 = p2
  Pollers = {p1, p2}
  Answers = 2
  Askings = 2
  Records <- ThreeRoles
  Plain <- MainRole
  Nowhere <- NoRole
  Connections = {1, 2}
  Room = 2
  Tellings = 2
  Holders = 2
SPECIFICATION Stands
SYMMETRY Alike
INVARIANTS
  Consent
  NoSwap
  StopKey
  AllShown
  GraftFits
  GoneIsGone
  OnlyItsOwn
  GatesAgree
  TaskStands
CHECK_DEADLOCK FALSE
