CONSTANTS
    Callers = {c1}
    Helpers = {h1}
    Threads = {t1}
    NoThread = NoThread
    Operations <- LifeCycle
    NoContext = NoContext
    Timed = {TRUE}
    MaxPosted = 2
SPECIFICATION FairHttpSpec
INVARIANTS
    StoppedServesNobody
PROPERTIES
    HttpStops
