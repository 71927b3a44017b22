SPECIFICATION FairSpec
CONSTANTS
    H1 = H1
    A1 = A1
    NoSource = NoSource
    Nobody = Nobody
    TvThread = TvThread
    Hdmi = {H1}
    Av = {}
    SelectableAv = {}
    Callers = {c1, c2}
    Switchers = {t1, t2}
    Calls <- HdmiEverything
    Discipline = {}
    Faulty = {"GetInstance", "pthread_create", "openHdmiInfo", "StopTv", "StartTv"}
    MaxCalls = 3
    MaxEvents = 1
PROPERTIES
    RequestsServed
    CallsReturn
    EventsHandled
