\* Two tabs, two interleaving turns, room for eviction; liveness is checked in
\* the same run, so there is no symmetry (it is unsound for liveness).
CONSTANTS
    Conns = {c1, c2}
    Turns = {t1, t2}
    Seed = Seed
    NoEnv = NoEnv
    SeedCount = 1
    MaxBuffer = 3
    Cursors = {1}
    MaxEmits = 3
    MaxConnects = 2
SPECIFICATION Spec
INVARIANTS
    TypeOK
    BufferIsTail
    WaitersMatchParked
    StreamInOrder
PROPERTIES
    ReplayCompleteBelowCapacity
    AbortEndsStream
CHECK_DEADLOCK FALSE
