SPECIFICATION FairSpec
CONSTANTS
    Specs = {1, 2}
    Trigger <- SameMinute
    MinuteTicks = 4
    Timeout = 1
    MaxGen = 2
    MaxTime = 14
    MaxTorn = 1
INVARIANTS
    DueIsAttempted
PROPERTIES
    OncePerGeneration
    OldSchedulersStop
