CONSTANTS
    Req = {r1, r2, r3}
    NoReq = NoReq
    Kinds = {"on_account", "settle", "complimentary", "cash"}
    Totals = {4}
    Amounts = {0, 2}
    Tol = 1
    StartStatus = {"open"}
    Targets = {}
    Refunds = {2}
    CanCrash = FALSE
SPECIFICATION Spec
SYMMETRY Symmetry
INVARIANTS CompletedIsCovered
CHECK_DEADLOCK FALSE
