CONSTANTS
    interim = interim
    final = final
    NoMessage = NoMessage
    Scripts <- MCScripts
    ExitCodes = {0, 2}
    CtxEnds = {"timeout", "cancelled"}
SPECIFICATION Spec
INVARIANTS
    KilledOnlyAfterTerm
