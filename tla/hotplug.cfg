SPECIFICATION FairSpec
CONSTANTS
    Hotplugs = {h1, h2}
    NoThread = NoThread
    Faulty = {"thread", "udev", "audio"}
    MaxInits = 2
    MaxEvents = 3
    MaxPortInits = 1
INVARIANTS
    TypeOK
    EventsAlternate
    ToldIsPlugged
    AudioIsTold
    TermIsSilent
PROPERTIES
    TermReturns
    EventsHandled
