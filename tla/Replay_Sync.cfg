SPECIFICATION FairSpec
CONSTANTS
    Req = {q1, q2, q3}
    Nobody = Nobody
    Kinds = {"sale", "other"}
    Faulty = {TRUE, FALSE}
    MaxFaults = 3
INVARIANTS OneSale CalmExecutesOnce
PROPERTIES SyncEnds
CHECK_DEADLOCK FALSE
