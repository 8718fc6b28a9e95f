SPECIFICATION Spec
CONSTANTS
    SpecialTexts <- MCSpecialTexts
    Texts <- MCTexts
    Newline = "n"
    LineLimit = 4
    TailLimit = 3
    OwnCodes <- MCOwnCodes
    FailCodes = {127}
    CtxEnds = {"timeout", "cancelled"}
    NoCode = NoCode
    Inputs <- MCInputs
    MaxSignals = 1
INVARIANTS
    CommandCarriesTask
    LinesLogged
    TailExact
    ExitMeansRun
