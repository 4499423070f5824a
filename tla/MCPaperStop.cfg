SPECIFICATION Spec
CONSTANTS
    Worker = {w1}
    Construction = {c1}
    Order = {o1}
    Nav = {2}
    InitialNav = 2
    Mode = "automatic"
    LeaseDuration = 1
    ApprovalTTL = 1
    RetryDelay = 1
    CommandLine = FALSE
    MaxTime = 0
    MaxGrants = 2
    MaxAttempts = 2
    MaxMarks = 0
    MaxHuman = 1
    MaxFaults = 0
PROPERTY StopIsFinal
CHECK_DEADLOCK FALSE
