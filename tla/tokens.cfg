SPECIFICATION Spec
CONSTANTS
    File = {f1, f2}
    QueueCap = 2
    MaxDay = 2
    MaxPieces = 4
    MaxReplacements = 1
    MaxFaults = 1
    MaxStops = 1
SYMMETRY Symmetry
CHECK_DEADLOCK FALSE
INVARIANTS OnlySplitLinesAreMissed UnreadIsNoticed CountersAgree TodayIsOfItsDate CleanIsSaved
PROPERTIES TotalDropsOnlyAtMidnight
