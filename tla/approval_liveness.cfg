SPECIFICATION FairSpec
CONSTANTS
    c1 = c1
    c2 = c2
    i1 = i1
    i2 = i2
    s1 = s1
    s2 = s2
    ctrl = ctrl
    notify = notify
    NoCall = NoCall
    NoId = NoId
    Call = {c1, c2}
    Id = {i1}
    Session = {s1, s2}
    Client = {ctrl, notify}
    RoundTrip = {ctrl}
    IdOf <- SameId
    SessionOf <- TwoSessions
    Verdicts <- AskOrAuto
    Derivable = {c1}
    Fallback = "deny"
    QueueCap = 2
    MaxDecisions = 1
    MaxEvents = 0
PROPERTIES
    EveryCallIsAnswered
    EveryApprovalIsCleared
    ImplementsApprovalSpec
