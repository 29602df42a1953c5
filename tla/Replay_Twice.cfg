SPECIFICATION Spec
CONSTANTS
    Req = {q1, q2}
    Nobody = Nobody
    Kinds = {"other"}
    Faulty = {TRUE}
    MaxFaults = 2
INVARIANT ExecutedOnce
CHECK_DEADLOCK FALSE
