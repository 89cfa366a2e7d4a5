SPECIFICATION Spec
CONSTANTS
    Asks = {p1, p2}
    Prompts = {"table"}
    Structured = {"table"}
    Plans <- Answers
    Ttl = 1
    MaxEntries = 1
    MaxTime = 2
    MaxCrashes = 1
SYMMETRY AskSymmetry
INVARIANTS
    FlaggedRunsOnlyFromCache
    ConditionalNeverRepeats
    FailureReported
    DamageNeedsMishap
