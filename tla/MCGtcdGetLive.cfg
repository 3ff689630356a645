CONSTANTS
  x1 = x1
  x2 = x2
  x3 = x3
  a = a
  b = b
  Xfer <- MCXfer
  Id <- MCId
  Size <- MCSize
  Descs <- MCDescs
  Mode <- MCMode
  SEND_SIZE = 2
  Errors = FALSE
  MaxOverheard = 1
SPECIFICATION Spec
PROPERTIES EveryTransferEnds
CHECK_DEADLOCK FALSE
