CONSTANTS
  Sessions = {p1, p2}
  Sweepers = {s1}
  Inodes = {i1, i2, i3, i4}
  NoInode = NoInode
  NoSession = NoSession
SPECIFICATION Spec
SYMMETRY Symmetry
INVARIANTS
  OneLease
  StandsAsLaunched
PROPERTY NameIsOwned
CHECK_DEADLOCK FALSE
