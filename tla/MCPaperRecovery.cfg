SPECIFICATION Spec
CONSTANTS
    Worker = {w1}
    Construction = {c1, c2}
    Order = {o1}
    Nav = {2}
    InitialNav = 2
    Mode = "automatic"
    LeaseDuration = 1
    ApprovalTTL = 1
    RetryDelay = 0
    CommandLine = FALSE
    MaxTime = 1
    MaxGrants = 3
    MaxAttempts = 2
    MaxMarks = 1
    MaxHuman = 1
    MaxFaults = 1
INVARIANT AttemptsAreApproved
PROPERTY ImplementsLedger
CHECK_DEADLOCK FALSE
SYMMETRY SameConstructions
