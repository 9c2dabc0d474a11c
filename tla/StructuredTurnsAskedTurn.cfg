SPECIFICATION Spec
CONSTANTS
    m1 = m1
    p1 = p1
    p2 = p2
    s1 = s1
    c1 = c1
    c2 = c2
    None = None
    Prompts = {m1, p1}
    Mail = {m1}
    System = {}
    Tagged = {m1, p1}
    OwnerMayEnd = FALSE
    MaxQueue = 2
    OutboxSize = 2
    Cancellers = {c1}
INVARIANT AskedTurnIsEnded
CHECK_DEADLOCK FALSE
