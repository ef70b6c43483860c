SPECIFICATION FairRunSpec
CONSTANTS
    NoText = NoText
    NoLock = NoLock
    Segments = {1, 2}
    ModelTexts = {m1}
    HumanTexts = {h1}
    Clients = {w}
    Tabs = {}
    Shells = {}
    Impatient = {}
    Locks = {}
    Wants <- Anything
    Worker = w
    Concurrency = 2
    Cached <- NoHits
    SourceCopies = {}
    Outcomes = {"succeeded"}
    Commands = {"pause", "resume"}
    Fallback = FALSE
    DoubleCheck = FALSE
    Faults = {}
    Meddlers = {}
    MaxCommands = 2
    MaxCrashes = 0
    MaxInterrupts = 0
PROPERTY ResumeContinues
CHECK_DEADLOCK FALSE
