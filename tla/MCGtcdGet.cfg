CONSTANTS
  x1 = x1
  x2 = x2
  a = a
  b = b
  c = c
  Xfer <- MCXfer
  Id <- MCId
  Size <- MCSize
  Descs <- MCDescs
  Mode <- MCMode
  SEND_SIZE = 4
  Errors = TRUE
  MaxOverheard = 1
SPECIFICATION Spec
INVARIANTS RepliesInPlace EndMeansAll RefsAccounted MarkedIsStored
CHECK_DEADLOCK FALSE
