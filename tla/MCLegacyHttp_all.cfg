CONSTANTS
    Callers = {c1, c2}
    Attempts = {s1, s2}
    NoServer = NoServer
    Changes <- SomeChanges
SPECIFICATION LegacySpec
SYMMETRY Symmetry
INVARIANTS
    LegacyStartIsHonest
    StopsExistingServer
    SettingsInForce
    StopIsDelivered
