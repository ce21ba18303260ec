CONSTANTS
    Callers = {c1, c2}
    Helpers = {reader, writer}
    Threads = {t1, t2}
    NoThread = NoThread
    Operations <- StopsAndStarts
    Reader = reader
    Writer = writer
    Senders = {}
    Fds = {1}
    MaxOutbound = 0
    Others = TRUE
SYMMETRY Symmetry
SPECIFICATION ClientSpec
INVARIANTS
    ClosesOwnOnce
    RunLeavesNothing
