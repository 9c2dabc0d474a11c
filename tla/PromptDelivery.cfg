SPECIFICATION Spec
CONSTANTS
    MaxMessages = 2
    MaxAttempts = 2
    MaxInbox = 1
    MaxGen = 2
    MaxQueue = 2
    MaxCancels = 1
    MaxCrashes = 1
    Refused = {2}
    Fates = {"terminal", "gone"}
    MayPause = TRUE
    LateReports = FALSE
INVARIANTS TypeOK PromptIsCounted WaitingHasTurnsLeft HandedIsHeld
PROPERTIES AcceptedIsKept FinishedStays
CHECK_DEADLOCK FALSE
