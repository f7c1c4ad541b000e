CONSTANTS
    r1 = r1
    r2 = r2
    p1 = p1
    p2 = p2
    h1 = h1
    h2 = h2
    c1 = c1
    c2 = c2
    Root = {r1, r2}
    RefusedRoot = {r2}
    Pattern = {p1, p2}
    HookEvent = {h1, h2}
    Cli = {c1, c2}
    LegacyLog <- MCLegacyLog
    MaxAlways = 1
    MaxCommands = 2
    MaxTroubles = 1
SPECIFICATION Spec
SYMMETRY CliSymmetry
CHECK_DEADLOCK FALSE
INVARIANTS NoPartialSettings AdditionsAreUndoable FindIsLastLive
PROPERTIES SavesKeepTheRest
