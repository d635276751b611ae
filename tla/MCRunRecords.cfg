SPECIFICATION Spec
CONSTANTS
    Runs = {r1, r2}
    Owners = {alice, bob}
    Retention = 2
    MaxEnded = 1
    MaxClock = 3
SYMMETRY RecordSymmetry
INVARIANTS
    IndexMatchesStore
PROPERTIES
    AnswersAreTrue
