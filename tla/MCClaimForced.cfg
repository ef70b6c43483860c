SPECIFICATION Spec
CONSTANTS
    Resumers = {}
    Supervisors = {}
    Clicks = {d1, d2}
    Children = {k1, k2}
    Ghost = Ghost
    NoClaim = NoClaim
    Forced = TRUE
    MaxSpawns = 2
    MaxCrashes = 0
INVARIANT NeverDoubleRun
CHECK_DEADLOCK FALSE
