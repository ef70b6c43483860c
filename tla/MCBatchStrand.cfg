SPECIFICATION BatchSpec
CONSTANTS
    ItemCount = 4
    Segments = {1, 2, 3, 4}
    SegOf <- FourSegments
    SectionOf <- FourInOne
    Modes = {"plain", "marker_safe"}
    ModeOf <- MarkedSecond
    Window = 1
    BookScope = FALSE
    Setups <- StrictTwoSlots
    LatencyCap = 2
    MaxAttempts = 2
    ConnectAttempts = 3
    CompactRetries = 1
    SizingPolicy = FALSE
    Ceiling = 3
    Adaptive = TRUE
    RepairLimit = 1
    MaxRevision = 1
INVARIANT NeverStranded
CHECK_DEADLOCK FALSE
