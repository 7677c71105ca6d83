CONSTANTS
  Sessions = {p1}
  Sweepers = {s1, s2}
  Inodes = {i1, i2, i3}
  NoInode = NoInode
  NoSession = NoSession
SPECIFICATION FairSpec
PROPERTIES
  LiveSocketStands
  CorpseGoes
CHECK_DEADLOCK FALSE
