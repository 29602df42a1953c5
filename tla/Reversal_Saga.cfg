SPECIFICATION FairSpec
CONSTANTS
    Proc = {p1, p2}
    Rev = {r1, r2}
    None = None
    Sold = 2
    Sales <- MCSales
    MaxFaults = 2
INVARIANTS VoidsWhatWasSold NetsOnce BooksAgree PointsOnce
PROPERTIES KeepsLedger AllComplete
CHECK_DEADLOCK FALSE
