CONSTANTS
    t1 = t1
    t2 = t2
    q1 = q1
    q2 = q2
    Turns <- MCTurns
    Callers <- MCCallers
    PoolLimit = 1
SPECIFICATION FairSpec
INVARIANTS
    PlaceNeverFreeBesideALiveGroup
    NumberNeverUsedAfterReap
    HeldPlaceHasAName
PROPERTIES
    AttemptEnds
    EndIsPublished
CHECK_DEADLOCK FALSE
