SPECIFICATION FairSpec
CONSTANTS
    Conns = {c1, c2}
    MaxConnections = 1
    MaxPipelined = 2
    MaxRequests = 2
CHECK_DEADLOCK FALSE
INVARIANTS GoneIsGone AnswersFollowRequests
PROPERTIES ReceivingEnds
