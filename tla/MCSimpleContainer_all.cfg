CONSTANTS
    Producers = {p1, p2}
    Consumers = {c1, c2, c3}
    Items = {i1, i2, i3}
    MaxBatch = 3
    Counts = {1, 2}
    Offsets = {0, 1, 2}
SYMMETRY Symmetry
SPECIFICATION ContainerSpec
INVARIANTS
    ExactlyOnce
    SelectionIsRight
    NoSleeperBesideItems
