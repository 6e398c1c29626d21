SPECIFICATION EngineSpec
CONSTANTS
    Rule <- MessageRule
    Letters = 19
    Shift = 21
    Space = 21
    Colon = 20
    Digit = 41
    MaxParams = 4
    MaxHosts = 2
    MaxSteps = 20000
    MaxDepth = 64
    Given <- MCGrammars
    Grammars <- EngineGrammars
    Start = "message"
    Program <- StartProgram
    Lines <- EngineLines
    Reuse <- MCReuse
    UnrollLimit = 64
    Generations = 1024
    Files <- MCFiles
    Samples <- MCSamples
    FewSteps = 30
INVARIANTS
    DecidesItsProgram
    ReadsTheLanguage
    MatchersAgree
    ParamsAsSplit
    HandlersReadWhatIsSent
    RefusedForCause
    ReadyTerminates
    BuildsWhatIsWritten
PROPERTY LanguagesGrow
CHECK_DEADLOCK FALSE
