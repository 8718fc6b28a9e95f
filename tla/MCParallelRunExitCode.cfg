SPECIFICATION Spec
CONSTANTS
    a = a
    b = b
    c = c
    unknown = unknown
    Empty = Empty
    NoOutcome = NoOutcome
    Task <- MCTask
    Names <- MCNames
    Files <- MCFiles
    OwnCodes <- MCOwnCodes
    FailCodes = {1}
    RunCodes <- MCRunCodes
    MaxSignals = 2
    WorkersSetting = 2
INVARIANTS
    ExitCodeNamesCause
