SPECIFICATION FairSpec
CONSTANTS
    HeartbeatInterval = 1
    StallTimeout = 2
    IdleTimeout = 2
    MaxDuration = 3
    MaxToolCalls = 1
    LostGroups = {lost_group}
    MaxFrames = 1
PROPERTIES
    EveryRunEnds
    WaitingClientIsAnswered
