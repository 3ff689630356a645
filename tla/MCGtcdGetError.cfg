CONSTANTS
  x1 = x1
  a = a
  b = b
  Xfer <- MCXfer
  Id <- MCId
  Size <- MCSize
  Descs <- MCDescs
  Mode <- MCSequential
  SEND_SIZE = 2
  Errors = TRUE
  MaxOverheard = 0
SPECIFICATION Spec
PROPERTIES ErrorPassedBack
CHECK_DEADLOCK FALSE
