CONSTANTS
  k1 = k1
  k2 = k2
  k3 = k3
  k4 = k4
  k5 = k5
  Chunk <- MCChunk
  Desc = {}
  Bitmap = {}
  Faults <- MCFaults
  MAX_RPCS_IN_FLIGHT = 2
  MaxConns = 2
SPECIFICATION Spec
INVARIANTS WaitersHaveAWaker RaisedLimit
PROPERTIES EveryRequestAnswered
CHECK_DEADLOCK FALSE
