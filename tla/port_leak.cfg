SPECIFICATION FairSpec
CONSTANTS
    Nobody = Nobody
    Callers = {c1}
    Refreshers = {r1}
    Notifiers = {n1}
    Calls <- Listener
    Conflicts <- OneSwitch
    Tidy = FALSE
    Faulty = {"initOpen"}
    Modes <- ThreeModes
    PollLimit = 1
    MaxCalls = 2
    MaxInits = 1
    MaxEvents = 0
PROPERTY CallsReturn
CHECK_DEADLOCK FALSE
