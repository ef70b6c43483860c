SPECIFICATION FairAudioSpec
CONSTANTS
    NoRun = NoRun
    Chunks = {c1, c2}
    Children = {launch, retry}
    Direct = {}
    Retries = {retry}
    CheckpointInterval = 2
    Concurrency = 1
    MaxRestarts = 1
CHECK_DEADLOCK FALSE
PROPERTIES CancelEndsRun EndsAreSettled
