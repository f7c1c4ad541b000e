CONSTANTS
    Device = {d1, d2}
    Disabled = {d2}
    Unreadable = {d1}
    Capacity = 1
    MaxChanges = 4
SPECIFICATION FairSpec
INVARIANTS OneLiveSession MapFollowsBluez
PROPERTIES CancelledEnds ServedInTheEnd
CHECK_DEADLOCK FALSE
