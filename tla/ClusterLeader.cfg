SPECIFICATION FairSpec
CONSTANTS
    Nodes = {1, 2, 3, 4}
    SsWorks = {1, 3}
    HubKeyFirst = {3, 4}
    StaleAfter = 2
    MaxLost = 1
    MaxStarts = 3
INVARIANTS
    DoubleLeadIsTransient
PROPERTIES
    NoSecondLeaderAtLast
    OldestLeadsAtLast
