SPECIFICATION BatchSpec
CONSTANTS
    ItemCount = 3
    Segments = {1, 2}
    SegOf <- ThreeItems
    SectionOf <- OneChapter
    Modes = {"plain"}
    ModeOf <- OneMode
    Window = 1
    BookScope = FALSE
    Setups <- StoppedOnce
    LatencyCap = 2
    MaxAttempts = 2
    ConnectAttempts = 3
    CompactRetries = 1
    SizingPolicy = FALSE
    Ceiling = 3
    Adaptive = TRUE
    RepairLimit = 1
    MaxRevision = 1
INVARIANT StopKeepsResumable
CHECK_DEADLOCK FALSE
