\* The drain loop's comment against what the query returns.
CONSTANTS
    Ids = {h1, h2}
    Writers = {w1, w2}
    Batch = 3
    MaxTx = 3
    MaxLinks = 1
    Backlog = 0
    Drift = 0
SPECIFICATION Spec
INVARIANT BurstKept
SYMMETRY Symmetry
CHECK_DEADLOCK FALSE
