SPECIFICATION Spec
CONSTANTS
    Resumers = {r1, r2}
    Supervisors = {}
    Clicks = {}
    Children = {}
    Ghost = Ghost
    NoClaim = NoClaim
    Forced = FALSE
    MaxSpawns = 2
    MaxCrashes = 0
INVARIANT LiveClaimIsKept
CHECK_DEADLOCK FALSE
