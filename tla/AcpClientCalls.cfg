SPECIFICATION FairSpec
CONSTANTS
    load = load
    prompt = prompt
    r1 = r1
    r2 = r2
    k1 = k1
    s1 = s1
    s2 = s2
    None = None
    SessionOf <- MCSessionOf
    Calls = {load, prompt}
    Loads = {load}
    Requests = {}
    Cancellers = {}
    UpdatedSessions = {s1, s2}
    OutboxSize = 2
    AbandonedKept = 1
    MaxAgentRequests = 2
    MaxStream = 2
    LinesMayBeTooLong = TRUE
INVARIANTS TypeOK OneReplyPerCall ReplayIsMarked
PROPERTIES CallsEndWithTheAgent
CHECK_DEADLOCK FALSE
