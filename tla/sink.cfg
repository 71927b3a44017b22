SPECIFICATION Spec
CONSTANTS
    Callers = {c1}
    Displays <- AllDisplays
    Swapped <- Two
    Outputs <- SomeOutputs
    NoDisplay = NoDisplay
    Ops = {"edid", "bytes", "hdr", "settings", "matrix"}
    MaxCalls = 1
    MaxMoves = 1
INVARIANTS
    TypeOK
    TvHdrIsDeclared
    EdidIsOfADisplay
    NativeIsDeclared
    OutputIsReported
