CONSTANTS
    Callers = {c1}
    Helpers = {}
    Threads = {t1}
    NoThread = NoThread
    Operations <- LifeCycle
    MaxSessions = 2
    Fds = {1, 2, 3}
    MaxOthers = 1
SPECIFICATION FairServerSpec
INVARIANTS
    ServerClosesOnce
    HandlersAreOwned
    StoppedServesNobody
PROPERTIES
    ServerStops
