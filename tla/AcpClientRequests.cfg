SPECIFICATION FairSpec
CONSTANTS
    load = load
    prompt = prompt
    r1 = r1
    r2 = r2
    k1 = k1
    s1 = s1
    s2 = s2
    None = None
    SessionOf <- MCSessionOf
    Calls = {}
    Loads = {}
    Requests = {r1, r2}
    Cancellers = {k1}
    UpdatedSessions = {}
    OutboxSize = 1
    AbandonedKept = 1
    MaxAgentRequests = 2
    MaxStream = 1
    LinesMayBeTooLong = FALSE
INVARIANTS AnsweredOnce CancelComesAfterAnswers
PROPERTIES CloseEndsEverything
CHECK_DEADLOCK FALSE
