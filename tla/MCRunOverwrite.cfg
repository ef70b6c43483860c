SPECIFICATION RunSpec
CONSTANTS
    NoText = NoText
    NoLock = NoLock
    Segments = {1, 2}
    ModelTexts = {m1}
    HumanTexts = {h1}
    Clients = {w, p1}
    Tabs = {}
    Shells = {p1}
    Impatient = {}
    Locks = {}
    Wants <- Anything
    Worker = w
    Concurrency = 2
    Cached <- NoHits
    SourceCopies = {}
    Outcomes = {"succeeded", "needs_review"}
    Commands = {}
    Fallback = FALSE
    DoubleCheck = FALSE
    Faults = {}
    Meddlers = {}
    MaxCommands = 0
    MaxCrashes = 0
    MaxInterrupts = 0
INVARIANT CorrectionSurvivesRun
CHECK_DEADLOCK FALSE
