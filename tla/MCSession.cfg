CONSTANTS
    Threads = {t1, t2}
    Buffers = {b1, b2, b3}
    Nobody = Nobody
    MIN_BUFFER_SIZE = 2
    MAX_BUFFER_SIZE = 6
    Stream <- MCStream
    Beyond <- MCBeyond
SPECIFICATION FairSpec
INVARIANT RoomToReceive
PROPERTIES
    IsSendStream
    EveryBufferLeaves
CHECK_DEADLOCK FALSE
