SPECIFICATION ClockSpec
CONSTANTS
    Sites <- EasySites
    First = 0
    Last <- LastMinute
INVARIANTS
    TimeEveryDate
    OneKeyPerDate
    SunEveryDate
