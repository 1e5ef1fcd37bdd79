\* Either client, single-turn and multi-turn sessions, up to three messages.
CONSTANTS
    Modes = {"turn", "multi"}
    MaxAsked = 3
    MaxFrames = 4
SPECIFICATION AgentSpec
INVARIANTS
    TypeOK
    GateHeldWhilePending
    FinishOnceAndLast
    Released
    InProcessKeepsMessages
    InProcessEnds
PROPERTIES
    TurnsSerial
    AbortEnds
    PendingDrains
CHECK_DEADLOCK FALSE
