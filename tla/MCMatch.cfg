SPECIFICATION Spec
CONSTANTS
    MAX_PLAYER_NUMBER = 2
    MaxPackets <- MCPackets
    MaxTasks = 1
    MaxClosed = 1
INVARIANTS
    NullOnlyInInit KilledOnce StartsWithEveryone NobodyStays TickStops
CHECK_DEADLOCK FALSE
