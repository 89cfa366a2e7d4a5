SPECIFICATION Spec
CONSTANTS
    p1 = p1
    p2 = p2
    Procs <- TwoProcs
    Fields = {"dukaone"}
    Hubs = {h1, h2}
    Jobs <- AllAndTwo
    MaxCommands = 2
    MaxKills = 1
    MaxRebuilds = 1
SYMMETRY Symmetry
INVARIANTS
    DamageNeedsMishap
    TokensKept
    SettingsKept
    AloneKeepsSettings
    HubsComplete
CHECK_DEADLOCK FALSE
