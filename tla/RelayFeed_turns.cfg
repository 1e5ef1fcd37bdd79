SPECIFICATION FeedSpec
CONSTANTS
    Shapes = {"start", "text", "delta", "call", "tool", "alone"}
    MaxPublished = 4
    MaxConnects = 2
    None = None
CHECK_DEADLOCK FALSE
INVARIANT TurnIsWhole
PROPERTIES ShownStays
