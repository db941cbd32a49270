SPECIFICATION Spec
CONSTANTS
    NFRAMES = 3
    NFRAGS = 2
    FRAGTRIES = 2
    MAXTRIES = 2
    MaxPings = 3
    Cases <- MCCases
INVARIANTS
    RightStation
    SumsAgree
    PingCounts
    WaitingIsAsked
    TriesSuffice
CHECK_DEADLOCK FALSE
