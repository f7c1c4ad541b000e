-------------------------- MODULE MCSettingsFiles --------------------------
\* Small instance of SettingsFiles for TLC; the logs hold one row of each target.
EXTENDS SettingsFiles, TLC

CONSTANTS r1, r2, p1, p2, h1, h2, c1, c2

Added0(p, id, target) == [op |-> "added", pattern |-> p, id |-> id, target |-> target]
MCLegacyLog ==
    {<<Added0(p1, 0, User)>>, <<Added0(p1, 1, r1), Added0(p2, 0, "unknown")>>,
     <<Added0(p1, 0, r2)>>}

CliSymmetry == Permutations({c1, c2})
=============================================================================
