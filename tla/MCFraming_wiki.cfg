SPECIFICATION Spec
CONSTANTS
    Octet = {"x", "cr", "lf", "nul"}
    CR = "cr"
    LF = "lf"
    NUL = "nul"
    MaxLine = 3
    MaxStream = 7
INVARIANT OneMessagePerLine
CHECK_DEADLOCK FALSE
