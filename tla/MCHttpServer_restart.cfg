CONSTANTS
    Callers = {c1, c2}
    Helpers = {}
    Threads = {t1, t2}
    NoThread = NoThread
    Operations <- StartsAndStops
    NoContext = NoContext
    Timed = {TRUE}
    MaxPosted = 2
SYMMETRY Symmetry
SPECIFICATION HttpSpec
INVARIANTS
    StartTrueMeansAnnounced
    ErrorHandlerSurvives
