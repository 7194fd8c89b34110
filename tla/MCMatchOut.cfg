SPECIFICATION Spec
CONSTANTS
    MAX_PLAYER_NUMBER = 2
    MaxPackets <- MCPackets
    MaxTasks = 1
    MaxClosed = 1
INVARIANT AllOutEnds
CHECK_DEADLOCK FALSE
