SPECIFICATION FairAudioSpec
CONSTANTS
    NoRun = NoRun
    Chunks = {c1, c2}
    Children = {launch}
    Direct = {}
    Retries = {}
    CheckpointInterval = 2
    Concurrency = 2
    MaxRestarts = 0
CHECK_DEADLOCK FALSE
PROPERTY EndedRunIsSettled
