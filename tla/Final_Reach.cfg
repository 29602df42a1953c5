SPECIFICATION FairSpec
CONSTANTS
    Proc = {p1, p2}
    Floor = 1
    Window = 6
    Period = 2
    MaxOpens = 2
    MaxNotes = 1
    MaxFaults = 2
INVARIANTS MarkIsTrue RedundancyIsPaid
PROPERTY SaleReaches
CHECK_DEADLOCK FALSE
