SPECIFICATION Spec
CONSTANTS
    Resumers = {r1}
    Supervisors = {s1}
    Clicks = {d1}
    Children = {k1}
    Ghost = Ghost
    NoClaim = NoClaim
    Forced = FALSE
    MaxSpawns = 2
    MaxCrashes = 1
INVARIANT NeverDoubleRun
INVARIANT LeaseNamesWorker
INVARIANT ClaimHasCustodian
CHECK_DEADLOCK FALSE
