CONSTANTS
  TcpTries = 1
  Files <- Rom
  LeaseMin = 2
  LeaseMax = 8
  Cases <- AllCases
  Lease = 4
  Messages = 1
  RingSize = 3
SPECIFICATION Spec
INVARIANTS DialogueInOrder SuccessMeansStored PageFits AddressLeased TimeServerFound
CHECK_DEADLOCK FALSE
