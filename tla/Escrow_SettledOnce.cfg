\* Two settlements that both read the escrow held.
CONSTANTS
    A = A
    B = B
    e1 = e1
    e2 = e2
    e3 = e3
    Orgs = {A, B}
    Escrows = {e1, e2, e3}
    Buyer <- MCBuyer
    Seller <- MCSeller
    Amount <- MCAmount
    Opening <- MCOpening
    Handlers = {h1, h2}
    NoEscrow = NoEscrow
    NoHandler = NoHandler
SPECIFICATION Spec
INVARIANT SettledOnce
CHECK_DEADLOCK FALSE
