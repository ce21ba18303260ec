CONSTANTS
    Queues = {q1, q2, q3}
    Private = {q3}
    Pollers = {c1, c2}
    Soloist = c1
    MaxPushed = 4
    MaxBulk = 2
SYMMETRY Symmetry
SPECIFICATION Spec
INVARIANTS
    FifoExactlyOnce
    CachedSizeHeals
