SPECIFICATION ClockSpec
CONSTANTS
    Sites <- WesternSites
    First = 0
    Last <- LastMinute
INVARIANTS
    SunEveryDate
