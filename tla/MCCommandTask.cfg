SPECIFICATION FairSpec
CONSTANTS
    Threads = {t1, t2, t3}
    Objects = {o1, o2}
    Tasks = {k1, k2, k3}
    NoObject = NoObject
    NoTask = NoTask
INVARIANTS
    TypeOK
    OneExecutor
    OneResponsible
    NoTaskStranded
    CountExact
PROPERTIES
    IsSerialActor
    EveryTaskRuns
