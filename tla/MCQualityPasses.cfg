SPECIFICATION QualitySpec
CONSTANTS
    ItemCount = 3
    Callers = {1, 2, 3}
    Copied = {3}
    Kinds = {"review", "audit_only", "double_check"}
    ChunkSize = 2
    Concurrency = 2
    Rounds = 2
    MaxPauses = 1
    AutoJson = TRUE
    MaxAttempts = 2
    Mishaps = {"timeout", "busy", "garbled", "bad_request", "refused"}
INVARIANT EveryItemIsSettled
PROPERTY PassEnds
CHECK_DEADLOCK FALSE
