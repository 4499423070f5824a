CONSTANTS
    Worker = {w1, w2}
    NoWorker = NoWorker
    Channel = {email}
    NoRow = NoRow
    Lease = 2
    RetryDelay = 1
    MaxAttempts = 2
    BaseDelay = 1
    MaxFaults = 1
SPECIFICATION Spec
INVARIANTS
    DeliveryTypeOK
    ClaimIsExclusive
    CompletedOnceInTurn
    CompletedIsAnnounced
    SentWasDelivered
    AttemptsAreOnRecord
    RepeatsNeedOverlap
PROPERTIES
    PendingIsSettled
    CycleCompletes
