CONSTANTS
  k1 = k1
  k2 = k2
  k3 = k3
  k4 = k4
  d1 = d1
  b1 = b1
  Chunk <- MCChunk
  Desc <- MCDesc
  Bitmap <- MCBitmap
  Faults <- MCFaults
  MAX_RPCS_IN_FLIGHT = 2
  MaxConns = 3
SPECIFICATION Spec
SYMMETRY Interchangeable
INVARIANTS TypeOK ExactlyOnce RefcountAccounted
CHECK_DEADLOCK FALSE
