SPECIFICATION Spec
CONSTANTS
  PeerLists <- OnePeer
  Jitters = {0, 3}
  MaxOffset <- MCRange
  MaxJitter <- MCRange
  Remappings <- MCRemappings
INVARIANT MeasuresAreGraded
CHECK_DEADLOCK FALSE
