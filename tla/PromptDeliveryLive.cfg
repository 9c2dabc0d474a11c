SPECIFICATION FairSpec
CONSTANTS
    MaxMessages = 2
    MaxAttempts = 2
    MaxInbox = 2
    MaxGen = 2
    MaxQueue = 1
    MaxCancels = 0
    MaxCrashes = 0
    Refused = {}
    Fates = {}
    MayPause = FALSE
    LateReports = FALSE
PROPERTIES MailIsSettled
CHECK_DEADLOCK FALSE
