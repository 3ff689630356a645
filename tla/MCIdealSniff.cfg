CONSTANTS
  f1 = f1
  f2 = f2
  chA = chA
  chB = chB
  chC = chC
  other = other
  Flow <- MCFlow
  Chunk <- MCChunk
  Heads <- MCHeads
  RecLen <- MCRecLen
  Marker = 1
  HeaderLen = 2
  Segments <- MCSegments
  MaxRepeats = 1
  InputFile <- MCInputFile
  CommandLine <- MCCommandLine
SPECIFICATION Spec
INVARIANTS
  OfflineSentRight
  EveryChunkDone
  AnalysisComplete
CHECK_DEADLOCK FALSE
