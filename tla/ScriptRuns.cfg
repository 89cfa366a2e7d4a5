SPECIFICATION FairSpec
CONSTANTS
    Execs = {1, 2}
    Timed = {1}
    Programs <- Scripts
    OutCap = 1
    InCap = 1
    Window = 1
    MaxTime = 2
    MaxKills = 1
CHECK_DEADLOCK FALSE
INVARIANTS
    SuccessMeansAllDone
    DeadlockNeedsFullPipe
    KeysKept
    GuardFailsOnlyBlind
PROPERTIES
    ExecutionsEnd
