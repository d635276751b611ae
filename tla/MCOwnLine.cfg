SPECIFICATION TurnSpec
CONSTANTS
    Responses <- MCResponses
    Batches <- MCBatches
    Sessions = {s1, s2}
    NoSession = none
    MaxToolRounds = 2
INVARIANTS CallStandsOnItsOwnLine
