CONSTANTS
    Worker = {w1, w2}
    NoWorker = NoWorker
    Beat = {"active", "renewed", "reconciled"}
    Key = {k1}
    NoKey = NoKey
    ForeignKey = {}
    MaxEvents = 40
    NStages = 2
    MaxAttempts = 1
    LeaseDuration = 2
    BeatInterval = 1
    StableNames = FALSE
    MaxTime = 3
    MaxToken = 3
    MaxFaults = 1
SPECIFICATION PromptSpec
INVARIANT StageInsideOperation
PROPERTY OperationEnds
