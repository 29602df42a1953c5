CONSTANTS
    Req = {r1, r2, r3}
    NoReq = NoReq
    Kinds = {"cash", "legacy", "void_payment", "add", "edit", "set_status", "delete_draft"}
    Totals = {2, 4}
    Amounts = {0}
    Tol = 1
    StartStatus = {"draft", "awaiting_acceptance"}
    Targets = {"open", "cancelled"}
    Refunds = {2}
    CanCrash = TRUE
SPECIFICATION Spec
SYMMETRY Symmetry
INVARIANTS SingleClaim TillWithinPeak
CHECK_DEADLOCK FALSE
