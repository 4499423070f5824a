SPECIFICATION Spec
CONSTANTS
    Worker = {w1, w2}
    Construction = {c1}
    Order = {o1}
    Nav = {2}
    InitialNav = 2
    Mode = "automatic"
    LeaseDuration = 1
    ApprovalTTL = 3
    RetryDelay = 1
    CommandLine = FALSE
    MaxTime = 2
    MaxGrants = 3
    MaxAttempts = 2
    MaxMarks = 0
    MaxHuman = 0
    MaxFaults = 0
PROPERTY NoFillDropped
CHECK_DEADLOCK FALSE
