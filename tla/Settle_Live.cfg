CONSTANTS
    Req = {r1, r2}
    NoReq = NoReq
    Kinds = {"cash", "on_account", "complimentary", "legacy", "recheck", "void_order", "delete_draft"}
    Totals = {4}
    Amounts = {0, 2}
    Tol = 1
    StartStatus = {"draft"}
    Targets = {}
    Refunds = {}
    CanCrash = TRUE
SPECIFICATION FairSpec
PROPERTIES CoveredCompletes StartedEnds
CHECK_DEADLOCK FALSE
