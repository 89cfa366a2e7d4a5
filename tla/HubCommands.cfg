CONSTANTS
    MaxCommands = 2
    MaxTrouble = 2
    AutoProcs <- MCAutoProcs
    Form <- MCForm
    AutoJobs <- MCAutoJobs
    SoundProcs <- MCSoundProcs
    Kind <- MCKind
    ByName <- MCByName
    Names <- MCNames
    Houses <- MCHouses
    SoundJobs <- MCSoundJobs
SPECIFICATION Spec
INVARIANTS
    SpecsKept
    AppliedHasScene
    RepeatNeedsCachedFailure
    AmbiguousPlaysOnlyBlind
    SuccessSounded
    StraySceneNeedsCause
CHECK_DEADLOCK FALSE
