SPECIFICATION Spec
CONSTANTS
    Worker = {w1, w2}
    Construction = {c1}
    Order = {o1}
    Nav = {2, 3}
    InitialNav = 2
    Mode = "automatic"
    LeaseDuration = 1
    ApprovalTTL = 1
    RetryDelay = 1
    CommandLine = TRUE
    MaxTime = 1
    MaxGrants = 2
    MaxAttempts = 2
    MaxMarks = 0
    MaxHuman = 0
    MaxFaults = 1
INVARIANTS PaperTypeOK LiveGrantOwnsRow OrdersFilledOnce BatchesArePublished
    AttemptsChain ReportsFollowExecution
CHECK_DEADLOCK FALSE
SYMMETRY Interchangeable
