CONSTANTS
    Device = {d1, d2}
    Disabled = {d2}
    Unreadable = {}
    Capacity = 2
    MaxChanges = 3
SPECIFICATION Spec
INVARIANTS EveryPairedDeviceIsServed
CHECK_DEADLOCK FALSE
