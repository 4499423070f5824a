CONSTANTS
    Worker = {w1, w2}
    NoWorker = NoWorker
    Beat = {"active", "renewed", "reconciled"}
    Key = {k1, k2}
    NoKey = NoKey
    ForeignKey = {k2}
    MaxEvents = 40
    NStages = 2
    MaxAttempts = 2
    LeaseDuration = 2
    BeatInterval = 1
    StableNames = TRUE
    MaxTime = 2
    MaxToken = 2
    MaxFaults = 1
SYMMETRY WorkerSymmetry
SPECIFICATION Spec
INVARIANTS
    TypeOK
    ClosedByStarter
    NothingAfterTerminal
    FailureAccountsForStages
    FencedHistory
PROPERTIES
    LeasesHandedOver
    ImplementsSequential
