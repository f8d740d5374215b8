SPECIFICATION LayersSpec
CONSTANTS
  MaxOpens = 5
  MaxMoves = 2
INVARIANTS Restored TopIsLive LockHeld
CHECK_DEADLOCK FALSE
PROPERTIES BackLeadsOut BackGetsCloser
