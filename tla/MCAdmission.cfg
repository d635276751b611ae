SPECIFICATION FairSpec
CONSTANTS
    Runs = {r1, r2, r3}
    Places = 1
    GroupsPerRun = 2
INVARIANTS
    InUseHoldsPlace
    UseIsBounded
PROPERTIES
    EveryPlaceIsFreed
