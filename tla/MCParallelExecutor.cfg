SPECIFICATION FairSpec
CONSTANTS
    a = a
    b = b
    c = c
    d = d
    NoOutcome = NoOutcome
    Task <- MCTask
    MaxWorkers = 2
    RunCodes <- MCRunCodes
    CancelKinds <- MCCancelKinds
    Plans <- MCPlans
INVARIANTS
    TypeOK
    DependenciesSucceeded
    WorkerBound
    OneResultEach
    NothingLeftBehind
    SendNeverBlocks
    LayerBarrier
PROPERTIES
    ImplementsDag
    EveryTaskDecided
