CONSTANTS
    Threads = {t1}
    Buffers = {b1}
    Nobody = Nobody
    MIN_BUFFER_SIZE = 2
    MAX_BUFFER_SIZE = 6
    Stream <- MCStream
    Beyond <- MCBeyond
SPECIFICATION Spec
INVARIANT UnreadIntact
CHECK_DEADLOCK FALSE
