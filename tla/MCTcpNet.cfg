CONSTANTS
  MaxData = 1
  RxWin = 3
  TcpRetries = 0
  NSOCKS = 1
  IsnStep = 100
  Plans <- Safe
SPECIFICATION Spec
INVARIANTS StreamIntegrity AckedWasReceived OrderlyClose ConnectionsAgree
CHECK_DEADLOCK FALSE
