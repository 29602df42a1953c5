CONSTANTS
    Req = {r1, r2}
    NoReq = NoReq
    Kinds = {"cash", "discount"}
    Totals = {2, 4}
    Amounts = {0}
    Tol = 1
    StartStatus = {"draft"}
    Targets = {}
    Refunds = {}
    CanCrash = FALSE
SPECIFICATION FairSpec
PROPERTY NeverCollectsBeyondWorth
CHECK_DEADLOCK FALSE
