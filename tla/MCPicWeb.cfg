SPECIFICATION FairSpec
CONSTANTS
    Frames <- MCFrames
    Size <- MCSize
    Escaped <- MCEscaped
    Pings <- MCPings
    Dials <- MCDials
    IPHDR_LEN = 2
    TCPHDR_LEN = 1
    RXBUFFLEN = 5
    Plans <- AllPlans
    CONCOUNTS = 4
INVARIANT AnswersWhole
PROPERTIES
    RequestWhole
    RxSpec
    Served
CHECK_DEADLOCK FALSE
