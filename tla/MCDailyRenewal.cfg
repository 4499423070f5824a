CONSTANTS
    Worker = {w1, w2}
    NoWorker = NoWorker
    Beat = {"active", "renewed", "reconciled"}
    Key = {k1}
    NoKey = NoKey
    ForeignKey = {}
    MaxEvents = 40
    NStages = 1
    MaxAttempts = 1
    LeaseDuration = 3
    BeatInterval = 1
    StableNames = FALSE
    MaxTime = 3
    MaxToken = 1
    MaxFaults = 0
SPECIFICATION Spec
INVARIANT RenewalKeepsOwner
