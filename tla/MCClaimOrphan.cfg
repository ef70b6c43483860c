SPECIFICATION Spec
CONSTANTS
    Resumers = {}
    Supervisors = {}
    Clicks = {d1}
    Children = {k1}
    Ghost = Ghost
    NoClaim = NoClaim
    Forced = FALSE
    MaxSpawns = 2
    MaxCrashes = 1
INVARIANT ClickNeverBlocksJob
CHECK_DEADLOCK FALSE
