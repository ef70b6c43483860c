SPECIFICATION RunSpec
CONSTANTS
    NoText = NoText
    NoLock = NoLock
    Segments = {1}
    ModelTexts = {m1}
    HumanTexts = {h1}
    Clients = {w, p1}
    Tabs = {}
    Shells = {p1}
    Impatient = {}
    Locks = {}
    Wants <- Anything
    Worker = w
    Concurrency = 2
    Cached <- NoHits
    SourceCopies = {}
    Outcomes = {"succeeded"}
    Commands = {}
    Fallback = FALSE
    DoubleCheck = FALSE
    Faults = {}
    Meddlers = {"flag"}
    MaxCommands = 0
    MaxCrashes = 0
    MaxInterrupts = 0
INVARIANT SuccessIsHonest
CHECK_DEADLOCK FALSE
