SPECIFICATION Spec
CONSTANTS
    Callers = {c1, c2}
    Calls <- EveryCall
    Sinks <- AllSinks
    Encoders = 2
    HdmiEncoder = 1
    Replies = {"response", "no response", "no console"}
    OpenFails = TRUE
    MaxCalls = 2
    MaxMoves = 3
INVARIANTS
    SetIsShown
    NamedIsShown
    ListIsOffered
    TvMatchesSink
SYMMETRY Symmetry
