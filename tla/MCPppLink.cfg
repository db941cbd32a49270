CONSTANTS
  MaxReqs = 3
  MaxTerms = 1
  Builds <- AnyBuild
  Callers <- Choosies
  HostReqs = 2
  MaxCalls = 2
  MaxTrouble = 1
SPECIFICATION LiveSpec
PROPERTIES LinkComesUp
CHECK_DEADLOCK FALSE
