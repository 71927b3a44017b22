SPECIFICATION Spec
CONSTANTS
    Nobody = Nobody
    Callers = {c1}
    Refreshers = {r1}
    Notifiers = {n1}
    Calls <- Listener
    Conflicts <- OneManager
    Tidy = TRUE
    Faulty = {}
    Modes <- ThreeModes
    PollLimit = 1
    MaxCalls = 3
    MaxInits = 1
    MaxEvents = 1
PROPERTY SilentAfterTerm
