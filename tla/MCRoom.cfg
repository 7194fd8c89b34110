SPECIFICATION FairSpec
CONSTANTS
    host = host
    guest = guest
    Sessions = {host, guest}
    MaxRooms = 1
    MAX_PLAYER_NUMBER = 2
    STANDBY_COUNT = 2
    MaxPackets <- Packets
    MaxTasks = 2
    MaxTimers = 3
    None = None
INVARIANTS
    TypeOK
    SeatsCounted
PROPERTIES
    StartsFull
    AllReadyStarts
    EmptyRoomGoes
CHECK_DEADLOCK FALSE
