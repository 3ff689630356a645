SPECIFICATION FairSpec
CONSTANTS
  r1 = r1
  r2 = r2
  PutFd = {r1, r2}
  FileLen <- MCFileLen
  MaxXfers = 1
  MaxPieces = 2
  MaxErrors = 3
INVARIANTS
  CommitComplete
  AnsweredOnce
PROPERTIES
  PutAnswered
CHECK_DEADLOCK FALSE
