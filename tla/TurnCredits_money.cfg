\* One chat turn with a returning reader, and a life run, on two cents.
CONSTANTS
    Opening = 2
    MaxOverdraft = 1
    Turns = {t1}
    Readers = {r1}
    Costs = {0, 2}
    MaxFrames = 2
    Runs = {l1}
    OnCredits = {l1}
    Price = 3
SPECIFICATION CreditsSpec
INVARIANTS
    CreditsBooked
    ChargedIsStored
    EndedNotResumable
    ResumeAnswers
    RowTellsDebit
PROPERTIES
    CancelStops
CHECK_DEADLOCK FALSE
