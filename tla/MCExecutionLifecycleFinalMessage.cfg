CONSTANTS
    interim = interim
    final = final
    NoMessage = NoMessage
    Scripts <- MCScripts
    ExitCodes = {0, 2}
    CtxEnds = {}
SPECIFICATION Spec
INVARIANTS
    FinalMessageReported
