SPECIFICATION FairSpec
CONSTANTS
    p1 = p1
    p2 = p2
    d1 = d1
    d2 = d2
    a1 = a1
    a2 = a2
    a3 = a3
    Procs = {p1, p2}
    Devices = {d1, d2}
    Addresses = {a1, a2, a3}
    Attr = {"speed", "isOn"}
    Jobs <- Two
    Homes <- Places
    Deadline = 1
    RetryAfter = 0
    MaxCommands = 2
    MaxLost = 1
INVARIANTS
    ReadingIsCurrent
    LastSettingWins
PROPERTIES
    CacheDropsForCause
    PortIsFreed
CHECK_DEADLOCK FALSE
