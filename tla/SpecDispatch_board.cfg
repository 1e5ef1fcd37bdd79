\* Two publishes or restores and two triggers at once over three versions; a
\* full, quiet handle whose versions are all dispatched is a stop.
CONSTANTS
    MaxVersion = 3
    Txns = {t1, t2}
    NoTxn = NoTxn
    Targets = {r1, r2}
    Triggers = {g1, g2}
SPECIFICATION BoardSpec
SYMMETRY Symmetry
INVARIANTS
    VersionsAppend
    OneRunPerVersion
    MirrorMatchesLog
PROPERTY SoleActiveAfter
CHECK_DEADLOCK FALSE
