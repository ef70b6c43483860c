SPECIFICATION FairRateSpec
CONSTANTS
    MinTarget = 1
    MaxTarget = 4
    Initial = 2
    Slots = 3
    WindowSize = 2
    GrowInterval = 2
    RateInterval = 1
    GenericInterval = 2
INVARIANTS PermitsConserved PoolNeverStarves
PROPERTIES ShrinkTakesEffect Recovers
