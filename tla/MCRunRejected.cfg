SPECIFICATION RunSpec
CONSTANTS
    NoText = NoText
    NoLock = NoLock
    Segments = {1, 2}
    ModelTexts = {m1}
    HumanTexts = {h1}
    Clients = {w}
    Tabs = {}
    Shells = {}
    Impatient = {}
    Locks = {}
    Wants <- Anything
    Worker = w
    Concurrency = 2
    Cached <- NoHits
    SourceCopies = {}
    Outcomes = {"succeeded"}
    Commands = {}
    Fallback = FALSE
    DoubleCheck = FALSE
    Faults = {"preflight"}
    Meddlers = {}
    MaxCommands = 0
    MaxCrashes = 0
    MaxInterrupts = 0
PROPERTY RejectedResumeKeepsStatus
CHECK_DEADLOCK FALSE
