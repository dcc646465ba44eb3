\* Nothing is done with the trees that are only finalized.
SPECIFICATION Spec
CHECK_DEADLOCK FALSE
CONSTANTS
    Trees <- MCTrees
    Uses <- MCUses
    Inputs <- MCInputs
    HandFiles <- MCHandFiles
    MaxValues = 2
    MaxCrashes = 1
INVARIANTS
    CacheCoherent
    EvaluationTerminates
    NothingLost
    VisibilityFromParents
    ChoiceExclusive
    AssignableTakesEffect
    RoundTrip
    LoadReplaces
    SyncTouches
PROPERTIES
    SaveSafe
    ImplementsFiles
