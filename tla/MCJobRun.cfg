SPECIFICATION RunSpec
CONSTANTS
    NoText = NoText
    NoLock = NoLock
    Segments = {1, 2}
    ModelTexts = {m1, m3}
    HumanTexts = {h1}
    Clients = {w}
    Tabs = {}
    Shells = {}
    Impatient = {}
    Locks = {}
    Wants <- Anything
    Worker = w
    Concurrency = 2
    Cached <- OneHit
    SourceCopies = {m3}
    Outcomes = {"succeeded", "failed", "needs_review"}
    Commands = {"pause", "resume", "stop"}
    Fallback = TRUE
    DoubleCheck = TRUE
    Faults = {"preflight", "boundary", "drop", "validation"}
    Meddlers = {}
    MaxCommands = 1
    MaxCrashes = 1
    MaxInterrupts = 1
INVARIANT SuccessIsHonest
INVARIANT PauseHoldsDispatch
INVARIANT AnswersReachStore
INVARIANT NothingPaidTwice
CHECK_DEADLOCK FALSE
