SPECIFICATION Spec
CONSTANTS
    Rule <- MessageRule
    Letters = 19
    Shift = 21
    Space = 21
    Colon = 20
    Digit = 41
    MaxParams = 4
    MaxHosts = 2
    MaxSteps = 2000
    MaxDepth = 64
    Grammars <- MessageOnly
    Start = "message"
    Program <- StartProgram
    Lines <- MCLines
    Reuse <- MCReuse
    UnrollLimit = 64
    Generations = 1024
CHECK_DEADLOCK FALSE
INVARIANT PrefixIsSkipped
