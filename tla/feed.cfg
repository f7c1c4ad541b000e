SPECIFICATION FairSpec
CONSTANTS
    Client = {c1}
    Device = {d1}
    Capacity = 1
    MaxChanges = 1
    MaxHeartbeats = 2
    MaxCommands = 2
    MaxConnects = 2
INVARIANTS
    DrainedShowsAnnounced
    OnlyInterruptedCommandsAreLost
PROPERTIES
    CatchesUp
CHECK_DEADLOCK FALSE
