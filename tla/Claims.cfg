CONSTANTS
  Sessions = {a, b}
  Tools = {t1, t2}
  Listers = {l1}
  Mortals = {a, b}
  Returning = {a}
  Yielding = {b}
  NoOne = NoOne
SPECIFICATION FairSpec
INVARIANTS
  OneHolder
  RecordBehind
PROPERTY DeadYield
CHECK_DEADLOCK FALSE
