SPECIFICATION Spec
CONSTANTS
    MaxLen = 5
    MaxParams = 2
    ModeStrs <- MCModeStrs
    Params <- MCParams
    ValidKey = {"BO", "05"}
    Member <- MCMember
    LimitOf <- MCLimitOf
    Render <- MCRender
    Size <- MCSize
    Nobody = "nobody"
    Empty = ""
    Starts <- MCStarts
    HeadSize = 2
    Budget = 12
INVARIANTS
    NobodyStarves
    NoParameterVanishes
    LinesFit
    LinesTellTheModes
CHECK_DEADLOCK FALSE
