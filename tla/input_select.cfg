SPECIFICATION Spec
CONSTANTS
    H1 = H1
    A1 = A1
    NoSource = NoSource
    Nobody = Nobody
    TvThread = TvThread
    Hdmi = {H1}
    Av = {A1}
    SelectableAv = {A1}
    Callers = {c1}
    Switchers = {t1, t2}
    Calls <- BothInputs
    Discipline = {"initFirst", "initOnce"}
    Faulty = {"StartTv"}
    MaxCalls = 5
    MaxEvents = 2
SYMMETRY SwitcherSymmetry
INVARIANTS
    TypeOK
    OneSourceStarted
    RunningIsSelected
    StatusBlocksAllocated
    ActivePortIsSelected
PROPERTY
    ImplementsSelector
