CONSTANTS
    a = a
    b = b
    c = c
    p = p
    q = q
    Node = {a, b, c}
    Provider = {p, q}
    NoNode = NoNode
    Groups <- MCGroups
    Needs <- MCNeeds
    Rank <- MCRank
    Capacity <- MCCapacity
    WorkerLimit = 2
    MaxFaults = 1
SPECIFICATION Spec
INVARIANTS
    CertificationTypeOK
    CertifiedIsQualified
    LanesWithinBudget
PROPERTIES
    QualifiedIsKept
    BlockedOnlyByFailure
    RunEnds
CHECK_DEADLOCK FALSE
