CONSTANTS
  f1 = f1
  f2 = f2
  a = a
  b = b
  Flow <- MCFlow
  Record = {a, b}
  Chunk = {a, b}
  RecLen <- MCRecLen
  Marker = 1
  HeaderLen = 2
  Stream <- MCStream
  StartSeq <- MCStartSeq
  SeqSpace = 64
  Segments <- MCSegments
  MaxRepeats = 1
SPECIFICATION Spec
INVARIANTS TypeOK SentGenuine BytesInPlace EveryChunkSent
CHECK_DEADLOCK FALSE
