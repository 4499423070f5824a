CONSTANTS
    Record = {r1}
    Price = {low, high}
    NoPrice = NoPrice
    Lease = 1
    RetryDelay = 1
    Cooldown = 1
    ScanInterval = 1
    MaxSlots = 2
    MaxFaults = 1
SPECIFICATION Spec
INVARIANTS
    OperatorTypeOK
PROPERTIES
    AcknowledgedWasReviewed
    HandOverIsComplete
    FailedReviewsAreRetried
    RecordsAreReviewed
    MovesAreReviewed
    LatestSlotCompletes
