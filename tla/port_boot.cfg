SPECIFICATION Spec
CONSTANTS
    Nobody = Nobody
    Callers = {c1, c2}
    Refreshers = {r1}
    Notifiers = {n1}
    Calls <- Switching
    Conflicts <- OneSwitch
    Tidy = TRUE
    Faulty = {"refreshThread", "westeros", "noAnswer"}
    Modes <- ThreeModes
    PollLimit = 1
    MaxCalls = 3
    MaxInits = 1
    MaxEvents = 2
INVARIANTS
    EnabledIsDisplayed
    ToldAuthenticatedIsCurrent
SYMMETRY Symmetry
