SPECIFICATION Spec
CONSTANTS
    Nobody = Nobody
    Callers = {c1, c2}
    Refreshers = {r1, r2}
    Notifiers = {}
    Calls <- OnAndOff
    Conflicts <- OneManager
    Tidy = TRUE
    Faulty = {"initOpen", "notifyThread", "refreshThread", "refreshOpen", "udev"}
    Modes <- ThreeModes
    PollLimit = 1
    MaxCalls = 5
    MaxInits = 2
    MaxEvents = 2
INVARIANTS
    TypeOK
    OneRefreshThread
    NoNullCall
    ToldAuthenticatedIsCurrent
PROPERTIES
    SilentAfterTerm
    ImplementsReadiness
SYMMETRY Symmetry
CHECK_DEADLOCK FALSE
