SPECIFICATION FairSpec
CONSTANTS
    now = now
    before = before
    home = home
    Jobs = {now, before}
    Earlier = {before}
    TurnHome = home
    Capacity = 1
    LinesPerRun = 2
    MaxProcesses = 2
    MaxImages = 1
    Callers = {c1, c2}
    Kinds <- MCKinds
    MaxGeneration = 1
CHECK_DEADLOCK FALSE
INVARIANTS HomeAndSlotFollowTheChild OneOutcome NoLineLost ClearedAnswerNeverServed
PROPERTIES EveryoneIsAnswered
