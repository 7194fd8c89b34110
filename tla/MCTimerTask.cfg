SPECIFICATION FairSpec
CONSTANTS
    Threads <- MCThreads
    Timers = {e1, e2}
    Delays = {1}
    MaxTick = 2
    NoTimer = NoTimer
INVARIANTS
    TypeOK
    OneDistributor
    ExecutingIdExact
    NoTimerForgotten
PROPERTIES
    RemovedStaysQuiet
    NeverEarlyNeverTwice
    DueTimerFires
    RemoveReturns
