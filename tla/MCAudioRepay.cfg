SPECIFICATION AudioSpec
CONSTANTS
    NoRun = NoRun
    Chunks = {c1, c2}
    Children = {launch, retry, again}
    Direct = {}
    Retries = {retry, again}
    CheckpointInterval = 2
    Concurrency = 2
    MaxRestarts = 0
CHECK_DEADLOCK FALSE
\* Two witnesses on one instance: one property at a time.
INVARIANT RetrySparesSuccesses
\* INVARIANT LiveRunIsCancellable
