SPECIFICATION PoolSpec
CONSTANTS
    MinTarget = 1
    MaxTarget = 4
    Initial = 2
PROPERTY WaitersRespectTarget
