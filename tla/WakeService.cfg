SPECIFICATION FairSpec
CONSTANTS
    claude = claude
    None = None
    Panes = {claude}
    TextPanes = {claude}
    MaxMail = 1
    MaxEvents = 2
    ProjectHour = 2
    StreakMax = 2
INVARIANTS TypeOK LineIsAlone  LimitsAreKept
 
CHECK_DEADLOCK FALSE
