SPECIFICATION FairSpec
CONSTANTS
    Specs = {1, 2}
    Goroutines <- Slots
    Debounce = 2
    MaxTime = 2
    MaxEdits = 1
INVARIANTS
    TypeOK
    AtMostOneRun
    InFlightOwned
    MapRaceNeedsReload
PROPERTIES
    ImplementsTrigger
    RunsEnd
    NoticedChangeActs
