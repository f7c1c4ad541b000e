SPECIFICATION FairSpec
CONSTANTS
    Session = {s1}
    Tool = {t1, t2}
    Id = {i1, i2, i3}
    NoTool = NoTool
    NoId = NoId
    NoNote = NoNote
    Done = Done
    Capacity = 1
    MaxDones = 1
    MaxFaults = 1
    MaxRestarts = 0
PROPERTIES ResolvedIsCleared PromptIsOffered
