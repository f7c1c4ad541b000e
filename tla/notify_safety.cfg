SPECIFICATION Spec
CONSTANTS
    Session = {s1, s2}
    Tool = {t1, t2}
    Id = {i1, i2, i3}
    NoTool = NoTool
    NoId = NoId
    NoNote = NoNote
    Done = Done
    Capacity = 2
    MaxDones = 1
    MaxFaults = 1
    MaxRestarts = 1
SYMMETRY Symmetry
INVARIANTS SlotsAgree ClicksStayInSession
PROPERTIES NoRepostAfterAnswer HeartbeatClosesOnlyResolved
