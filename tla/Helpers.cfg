SPECIFICATION FairSpec
CONSTANTS
    Callers = {open}
    Stoppers = {quit}
    MaxStarts = 2
    PortTries = 2
    MaxRestarts = 1
    MaxVersion = 2
    MaxFailures = 1
    MaxEvents = 2
INVARIANTS
    TypeOK
    ChildIsWatched
    RecordIsTrue
    SwapsAlone
    InstalledStays
PROPERTIES
    StopIsOver
CHECK_DEADLOCK FALSE
