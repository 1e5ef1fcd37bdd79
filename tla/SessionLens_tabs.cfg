\* One tab over two connection slots, so that a dead connection's waiter can
\* outlive the tab's interest in it; up to three connections.
CONSTANTS
    Conns = {c1, c2}
    Tabs = {a}
    Turns = {t1}
    Seed = Seed
    NoEnv = NoEnv
    NoConn = NoConn
    NoCursor = NoCursor
    SeedCount = 1
    MaxBuffer = 4
    Cursors = {1}
    MaxEmits = 2
    MaxConnects = 3
SPECIFICATION LensSpec
SYMMETRY Symmetry
INVARIANTS
    SceneCleanUntilRetry
PROPERTIES
    ReplayHealsTab
CHECK_DEADLOCK FALSE
