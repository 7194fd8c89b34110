SPECIFICATION FairSpec
CONSTANTS
    MAX_PLAYER_NUMBER = 2
    MaxPackets <- MCFewPackets
    MaxTasks = 1
    MaxClosed = 2
INVARIANT EndMatchOnce
PROPERTY EveryMatchEnds
CHECK_DEADLOCK FALSE
