\* Two overlapping PATCH requests; a settled market stops.
CONSTANTS
    A = A
    B = B
    e1 = e1
    e2 = e2
    e3 = e3
    Orgs = {A, B}
    Escrows = {e1, e2, e3}
    Buyer <- MCBuyer
    Seller <- MCSeller
    Amount <- MCAmount
    Opening <- MCOpening
    Handlers = {h1, h2}
    NoEscrow = NoEscrow
    NoHandler = NoHandler
SPECIFICATION Spec
INVARIANTS TypeOK PaidIffSettled CreditsNeverLost
PROPERTY LedgerKept
CHECK_DEADLOCK FALSE
