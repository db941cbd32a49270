CONSTANTS
  MaxData = 1
  RxWin = 3
  TcpRetries = 0
  NSOCKS = 1
  IsnStep = 100
  Plans <- Lively
SPECIFICATION LoopSpec
PROPERTIES SocketsFreed StreamProgress
CHECK_DEADLOCK FALSE
