CONSTANTS
    Callers = {c1, c2}
    Helpers = {h1}
    Threads = {t1, t2}
    NoThread = NoThread
    Operations <- AllOperations
SYMMETRY Symmetry
SPECIFICATION Spec
INVARIANTS
    NoDetachedThread
    NoLostWakeup
    StopTrueMeansStopped
    StopAndJoinMeansExited
    DerivedOutlivesHooks
PROPERTIES
    StopRequestSticks
    ImplementsContract
