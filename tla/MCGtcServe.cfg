SPECIFICATION FairSpec
CONSTANTS
  a = a
  b = b
  p = p
  h = h
  c1 = c1
  r1 = r1
  r2 = r2
  Node = {a, b, p, h}
  Chunk = {c1}
  Fetch = {r1, r2}
  ChunkLen <- MCChunkLen
  Routes <- MCRoutes
  Wants <- MCWants
  SEND_SIZE = 2
  Lists <- MCLists
  MaxDescs = 2
  Bitmaps <- MCBitmaps
  BYTE = 2
  MaxBits = 4
  Scenarios <- MCScenarios
  MaxFaults = 2
INVARIANTS
  DeliveredGenuine
  CacheWhole
  NoFaultNoError
  PagesWhole
PROPERTIES
  EveryRequestAnswered
CHECK_DEADLOCK FALSE
