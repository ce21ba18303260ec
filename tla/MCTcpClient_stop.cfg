CONSTANTS
    Callers = {c1}
    Helpers = {reader, writer}
    Threads = {t1}
    NoThread = NoThread
    Operations <- LifeCycle
    Reader = reader
    Writer = writer
    Senders = {s1}
    Fds = {1}
    MaxOutbound = 1
    Others = TRUE
SPECIFICATION FairClientSpec
INVARIANTS
    WriterIsWoken
PROPERTIES
    ClientStops
