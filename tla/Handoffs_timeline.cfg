\* Two writers whose transactions overlap, and four transactions, so that a
\* version ended earlier is re-queued while the next one's push is at work. The
\* browser is rendered at any moment, its clock a tick off, its stream broken at
\* any moment; a batch of two is smaller than what two transactions write.
CONSTANTS
    Ids = {h1, h2}
    Writers = {w1, w2}
    Batch = 2
    MaxTx = 4
    MaxLinks = 0
    Backlog = 0
    Drift = 1
SPECIFICATION Spec
INVARIANTS
    ProjectionExact
    OlderIsRevived
    FeedKeeps
SYMMETRY Symmetry
CHECK_DEADLOCK FALSE
