SPECIFICATION RunSpec
CONSTANTS
    NoText = NoText
    NoLock = NoLock
    Segments = {1}
    ModelTexts = {m1}
    HumanTexts = {h1}
    Clients = {w, p1}
    Tabs = {}
    Shells = {p1}
    Impatient = {}
    Locks = {}
    Wants <- Anything
    Worker = w
    Concurrency = 2
    Cached <- NoHits
    SourceCopies = {}
    Outcomes = {"succeeded", "needs_review", "retry_pending"}
    Commands = {}
    Fallback = FALSE
    DoubleCheck = TRUE
    Faults = {}
    Meddlers = {"retry", "flag"}
    MaxCommands = 0
    MaxCrashes = 0
    MaxInterrupts = 0
PROPERTY StepsAreTransactions
CHECK_DEADLOCK FALSE
