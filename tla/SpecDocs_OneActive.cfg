\* A restore that overlaps a publish or another restore.
CONSTANTS
    MaxVersion = 3
    Txns = {t1, t2}
    NoTxn = NoTxn
SPECIFICATION Spec
SYMMETRY Symmetry
INVARIANT OneActive
CHECK_DEADLOCK FALSE
