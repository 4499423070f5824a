CONSTANTS
    Worker = {w1, w2}
    NoWorker = NoWorker
    Beat = {"active", "renewed", "reconciled"}
    Key = {k1}
    NoKey = NoKey
    ForeignKey = {}
    MaxEvents = 40
    NStages = 2
    MaxAttempts = 1
    LeaseDuration = 2
    BeatInterval = 1
    StableNames = FALSE
    MaxTime = 2
    MaxToken = 2
    MaxFaults = 1
SPECIFICATION Spec
INVARIANT RecoveryCanBlock
