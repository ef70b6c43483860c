SPECIFICATION AudioSpec
CONSTANTS
    NoRun = NoRun
    Chunks = {c1, c2}
    Children = {launch, retry}
    Direct = {shell}
    Retries = {retry}
    CheckpointInterval = 2
    Concurrency = 2
    MaxRestarts = 1
CHECK_DEADLOCK FALSE
INVARIANTS OneOwner LiveRunOnRecord QuietManifestIsExact NothingPaidAgain
