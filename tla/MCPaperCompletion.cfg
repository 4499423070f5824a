SPECIFICATION FairSpec
CONSTANTS
    Worker = {w1}
    Construction = {c1}
    Order = {o1}
    Nav = {2}
    InitialNav = 2
    Mode = "automatic"
    LeaseDuration = 1
    ApprovalTTL = 1
    RetryDelay = 1
    CommandLine = TRUE
    MaxTime = 0
    MaxGrants = 1
    MaxAttempts = 2
    MaxMarks = 0
    MaxHuman = 0
    MaxFaults = 1
PROPERTY FillsAreRecorded
CHECK_DEADLOCK FALSE
