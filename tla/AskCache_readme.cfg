SPECIFICATION Spec
CONSTANTS
    Asks = {p1}
    Prompts = {"lights"}
    Structured = {}
    Plans <- Answers
    Ttl = 2
    MaxEntries = 1
    MaxTime = 1
    MaxCrashes = 0
INVARIANTS
    DestructiveBlocked
