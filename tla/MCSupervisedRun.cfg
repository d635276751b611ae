SPECIFICATION Spec
CONSTANTS
    HeartbeatInterval = 1
    StallTimeout = 2
    IdleTimeout = 2
    MaxDuration = 4
    MaxToolCalls = 1
    LostGroups = {lost_group}
    MaxFrames = 2
INVARIANTS
    TypeOK
    NoFrameLost
    IdleOnlyWhileStepOwed
    OneOutcomePastTheMaximum
    CutStreamIsReported
PROPERTIES
    QuietWhileClosing
    FramesInOrder
    KeepsContract
