SPECIFICATION TendedRunSpec
CONSTANTS
    NoText = NoText
    NoLock = NoLock
    Segments = {1, 2}
    ModelTexts = {m1}
    HumanTexts = {h1}
    Clients = {w}
    Tabs = {}
    Shells = {}
    Impatient = {}
    Locks = {}
    Wants <- Anything
    Worker = w
    Concurrency = 2
    Cached <- NoHits
    SourceCopies = {}
    Outcomes = {"succeeded", "failed"}
    Commands = {"pause", "stop"}
    Fallback = FALSE
    DoubleCheck = FALSE
    Faults = {}
    Meddlers = {}
    MaxCommands = 2
    MaxCrashes = 1
    MaxInterrupts = 1
PROPERTY ResumeCompletesBook
PROPERTY StopEndsRun
PROPERTY StopIsRecorded
CHECK_DEADLOCK FALSE
