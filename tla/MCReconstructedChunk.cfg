CONSTANTS
  f1 = f1
  f2 = f2
  Flow <- MCFlow
  Content <- MCContent
  Foreign = "x"
  StartSeq <- MCStartSeq
  SeqSpace = 32
  MaxPayload = 6
  MaxTapped = 18
SPECIFICATION Spec
INVARIANTS TypeOK BlocksSeparated BytesInPlace SentWhole SentOnce BytesAccounted
PROPERTIES ImplementsAssembly
CHECK_DEADLOCK FALSE
