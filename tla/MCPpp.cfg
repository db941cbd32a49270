CONSTANTS
  MaxReqs = 3
  MaxTerms = 1
  Builds <- AnyBuild
  Callers <- AllCallers
  HostReqs = 3
  MaxCalls = 2
  MaxTrouble = 2
SPECIFICATION Spec
INVARIANTS AddressesAgreed TriesSuffice
CHECK_DEADLOCK FALSE
