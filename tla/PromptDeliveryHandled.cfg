SPECIFICATION Spec
CONSTANTS
    MaxMessages = 1
    MaxAttempts = 2
    MaxInbox = 1
    MaxGen = 1
    MaxQueue = 1
    MaxCancels = 0
    MaxCrashes = 0
    Refused = {}
    Fates = {}
    MayPause = FALSE
    LateReports = FALSE
PROPERTIES HandledIsDone
CHECK_DEADLOCK FALSE
