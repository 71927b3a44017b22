SPECIFICATION FairSpec
CONSTANTS
    Nobody = Nobody
    Callers = {c1, c2}
    Refreshers = {r1}
    Notifiers = {}
    Calls <- Listener
    Conflicts <- OneManager
    Tidy = TRUE
    Faulty = {"notifyThread", "refreshOpen"}
    Modes <- ThreeModes
    PollLimit = 1
    MaxCalls = 3
    MaxInits = 1
    MaxEvents = 2
PROPERTIES
    CallsReturn
    LossIsTold
