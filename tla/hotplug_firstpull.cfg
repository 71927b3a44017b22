SPECIFICATION Spec
CONSTANTS
    Hotplugs = {h1}
    NoThread = NoThread
    Faulty = {}
    MaxInits = 1
    MaxEvents = 2
    MaxPortInits = 0
INVARIANT UnpluggedIsTold
