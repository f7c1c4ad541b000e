SPECIFICATION FairSpec
CONSTANTS
    Session = {s1, s2}
    MaxStops = 2
    MaxEvents = 4
    MaxLines = 2
INVARIANTS
    NoticeMeansIdle
    NoticeCountsItsLines
PROPERTIES
    IdleIsAnnounced
CHECK_DEADLOCK FALSE
