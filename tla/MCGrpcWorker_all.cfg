CONSTANTS
    Callers = {c1}
    Helpers = {}
    Threads = {t1, t2}
    NoThread = NoThread
    Operations <- LifeCycle
    NoObject = NoObject
    MaxCalls = 3
SPECIFICATION FairGrpcSpec
INVARIANTS
    CrashesExplained
    DrainedBeforeGone
PROPERTIES
    EveryRpcIsAnswered
    GrpcStops
