SPECIFICATION Spec
CONSTANTS
    Browsers = {b1}
    Kinds = {"event", "delta", "ended"}
    ReplaySize = 2
    MaxEvents = 4
    MaxOpens = 2
CHECK_DEADLOCK FALSE
INVARIANTS DeliveredInOrder ReplayKeepsLast CompletedIsReplayed
PROPERTIES ReplayReaches
