CONSTANTS
  Sessions = {a, b, d}
  Tools = {t1, t2}
  Listers = {}
  Mortals = {d}
  Returning = {}
  Yielding = {}
  NoOne = NoOne
SPECIFICATION Spec
INVARIANT NeverTwice
CHECK_DEADLOCK FALSE
