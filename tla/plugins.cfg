SPECIFICATION Spec
CONSTANTS
  MaxSpawns = 3
  MaxInfo = 2
  MaxMoves = 1
INVARIANTS TypeOK OneChild Watched NothingOutlives InfoReaches ChildrenDepart
PROPERTIES InfoInOrder RespawnEnds OrphansLeave
CHECK_DEADLOCK FALSE
