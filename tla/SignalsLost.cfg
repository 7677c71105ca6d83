CONSTANTS
  Ids = {1}
  Nobody = Nobody
  Phases = {"working", "finished"}
  NoPhase = NoPhase
  Room = 1
  Tools = {}
  Lives = 1
  Turns = 2
SPECIFICATION Spec
INVARIANT Vanished
CHECK_DEADLOCK FALSE
