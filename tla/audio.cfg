SPECIFICATION Spec
CONSTANTS
    Callers = {c1, c2}
    Calls <- Client
    MaxValue = 11
    FailingSets = {"surround", "virtualizer", "mi", "drc", "graphicEq",
                   "leveller", "le", "bass", "delay", "delayOffset", "stereo", "atmos",
                   "raw", "codec"}
    Faulty = {"load", "init_check"}
    MaxCalls = 3
INVARIANTS
    TypeOK
    ReportedIsApplied
    LevellerIsApplied
    EncodingAgrees
    InterfacesReleased
