CONSTANTS
  BUFFLEN = 5
  MAXFRAME = 2
  MAXSLIP = 3
  NicPages = 4
  FifoLen = 3
  RBUFSIZ = 4
  TBUFSIZ = 3
  Setups <- AllSetups
SPECIFICATION LoopSpec
INVARIANTS FramesWhole SentAsGot NicInStep
PROPERTIES Delivered
CHECK_DEADLOCK FALSE
