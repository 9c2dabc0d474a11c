SPECIFICATION FairSpec
CONSTANTS
    m1 = m1
    p1 = p1
    p2 = p2
    s1 = s1
    c1 = c1
    c2 = c2
    None = None
    Prompts = {m1}
    Mail = {m1}
    System = {}
    Tagged = {m1}
    OwnerMayEnd = TRUE
    MaxQueue = 2
    OutboxSize = 1
    Cancellers = {c1}
PROPERTIES
    CloseSettlesEverything ExitIsNoticed
CHECK_DEADLOCK FALSE
