CONSTANTS
  BUFFLEN = 5
  MAXFRAME = 2
  MAXSLIP = 3
  NicPages = 4
  FifoLen = 3
  RBUFSIZ = 12
  TBUFSIZ = 3
  Setups <- Twins
SPECIFICATION Spec
INVARIANTS FramesWhole
CHECK_DEADLOCK FALSE
