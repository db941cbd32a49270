CONSTANTS
  Window = 2
  DataLen = 2
  Retries = 1
  Plans <- AllPlans
SPECIFICATION LoopSpec
INVARIANTS StreamIntegrity PointersAgree OpenerAckedWasReceived
PROPERTIES WaitsEnd
CHECK_DEADLOCK FALSE
