SPECIFICATION FairSpec
CONSTANTS
    a1 = a1
    a2 = a2
    a3 = a3
    a4 = a4
    s1 = s1
    s2 = s2
    AsyncCallers = {a1, a2, a3, a4}
    SyncCallers = {s1, s2}
    McpCallers = {a1, a2, a3}
    Meetings <- MeetingsValue
    MaxBuild = 1
CHECK_DEADLOCK FALSE
INVARIANTS NoTurnPastADirtySurface OneProbeAtATime
PROPERTIES EveryWaiterIsAnswered
