CONSTANTS
    interim = interim
    final = final
    NoMessage = NoMessage
    Scripts <- MCScripts
    ExitCodes = {0, 2}
    CtxEnds = {"timeout", "cancelled"}
SPECIFICATION FairSpec
INVARIANTS
    NothingLeftRunning
    StoppedOnlyForCause
    SuccessIsGenuine
    FailureHasCause
PROPERTIES
    ImplementsTaskRun
    ContextEndsRun
    CompletionEndsRun
