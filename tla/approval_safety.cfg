SPECIFICATION Spec
CONSTANTS
    c1 = c1
    c2 = c2
    i1 = i1
    i2 = i2
    s1 = s1
    s2 = s2
    ctrl = ctrl
    notify = notify
    NoCall = NoCall
    NoId = NoId
    Call = {c1, c2}
    Id = {i1, i2}
    Session = {s1}
    Client = {ctrl, notify}
    RoundTrip = {ctrl}
    IdOf <- UniqueIds
    SessionOf <- OneSession
    Verdicts <- AskOrAuto
    Derivable = {c2}
    Fallback = "passthrough"
    QueueCap = 3
    MaxDecisions = 1
    MaxEvents = 1
INVARIANTS
    NoLeakedApproval
    NoStrandedHandler
    WaitingIsBacked
    HeartbeatIsFresh
    AppliedIsDeliveredOrLapsed
