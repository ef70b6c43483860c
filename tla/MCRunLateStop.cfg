SPECIFICATION RunSpec
CONSTANTS
    NoText = NoText
    NoLock = NoLock
    Segments = {1, 2}
    ModelTexts = {m1}
    HumanTexts = {h1}
    Clients = {w}
    Tabs = {}
    Shells = {}
    Impatient = {}
    Locks = {}
    Wants <- Anything
    Worker = w
    Concurrency = 2
    Cached <- NoHits
    SourceCopies = {}
    Outcomes = {"succeeded"}
    Commands = {"stop"}
    Fallback = FALSE
    DoubleCheck = FALSE
    Faults = {}
    Meddlers = {}
    MaxCommands = 1
    MaxCrashes = 0
    MaxInterrupts = 0
PROPERTY CompletionIsFinal
CHECK_DEADLOCK FALSE
