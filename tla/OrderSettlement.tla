-------------------------- MODULE OrderSettlement --------------------------
(***************************************************************************)
(* One POS order while it is paid for: the order row (status, total_amount, *)
(* paid_total), its payment rows, and the requests that read and write      *)
(* them.  Every action is one database statement (or one transaction) of a  *)
(* handler in internal/modules/payments, internal/modules/orders or         *)
(* internal/http/handlers; a request keeps in rq[r] what it read earlier,   *)
(* because the handlers act on those snapshots.                             *)
(*                                                                          *)
(* SELECT ... FOR UPDATE on the order row is the variable lock: while a     *)
(* transaction holds it PostgreSQL blocks every other write of the order    *)
(* row, and every payment insert (its foreign key takes a key-share lock).  *)
(***************************************************************************)
EXTENDS Integers, FiniteSets, Functions

CONSTANTS
    Req,          \* requests in flight on this order; each inserts at most one payment row
    NoReq,        \* "nobody holds the row lock"
    Kinds,        \* the operations the requests may be
    Totals,       \* the values total_amount may take, in units of the 0.01 tolerance
    Amounts,      \* the amounts a client may send; 0 asks for the outstanding balance
    Tol,          \* the 0.01 tolerance of the settlement comparisons
    StartStatus,  \* the statuses an order may be created with
    Targets,      \* the statuses a client may ask UpdateStatus for
    Refunds,      \* the values a completed return of part of the sale may have
    CanCrash      \* whether a request may die between two statements

Tenders   == {"cash", "on_account", "complimentary", "legacy"}
Repricers == {"edit", "discount", "add"}
AllKinds  == Tenders \cup Repricers \cup
             {"settle", "void_payment", "recheck", "set_status", "void_order", "delete_draft"}
Locked    == {"cash", "settle"}

Status == {"draft", "open", "awaiting_acceptance", "pending_payment", "completed",
           "cancelled", "refunded", "voided", "deleted"}
Settleable == {"draft", "open", "pending_payment"}
Closed     == {"completed", "cancelled", "refunded", "voided"}

Method == {"till", "legacy", "complimentary", "on_account"}
Manual == {"till", "legacy"}      \* the rows a manager may void (paymentIsManageable)
MethodOf(k) == IF k \in Locked THEN "till" ELSE k

ASSUME SettlementAssumption ==
    /\ NoReq \notin Req
    /\ IsFiniteSet(Req)
    /\ Kinds \subseteq AllKinds
    /\ Totals \subseteq Nat /\ Amounts \subseteq Nat /\ Tol \in Nat
    /\ StartStatus \subseteq {"draft", "open", "awaiting_acceptance"}
    /\ Targets \subseteq Status \ {"deleted"}
    /\ Refunds \subseteq Nat
    /\ CanCrash \in BOOLEAN

VARIABLES
    status, total, paidTotal, onAccount,   \* the order row (onAccount: metadata.on_account)
    pay,        \* pay[r]: the payment row request r inserted
    sums,       \* what SELECT SUM(amount) over completed rows returns, by tender family
    returned,   \* refund value of the order's completed returns
    lock,       \* the request whose transaction holds the order row
    rq,         \* rq[r]: where request r is, and what it has read
    dispatched, \* history: post-finalize fan-outs started for this order
    reopened,   \* history: times a closed order was put back to a payable status
    peak        \* history: the largest total_amount the order ever had

order == <<status, total, paidTotal, onAccount>>
ghost == <<dispatched, reopened, peak>>
vars  == <<order, pay, sums, returned, lock, rq, ghost>>

NoRow == [st |-> "none", amt |-> 0, meth |-> "till"]
Idle  == [pc |-> "idle", kind |-> "recheck", stat |-> "draft", total |-> 0, amt |-> 0,
          col |-> 0, set |-> 0, ret |-> 0, tgt |-> NoReq]

Collected == sums["till"] + sums["legacy"] + sums["complimentary"]
Settled   == Collected + sums["on_account"]
Unlocked  == lock = NoReq
Lesser(a, b) == IF a <= b THEN a ELSE b
Greater(a, b) == IF a >= b THEN a ELSE b

ValidTransitions ==
    [s \in Status |->
        CASE s = "draft"               -> {"open", "pending_payment", "completed", "cancelled", "voided"}
          [] s = "open"                -> {"pending_payment", "completed", "cancelled", "voided"}
          [] s = "awaiting_acceptance" -> {"open", "cancelled", "voided"}
          [] s = "pending_payment"     -> {"completed", "cancelled", "voided"}
          [] s = "completed"           -> {"refunded"}
          [] OTHER                     -> {}]

Init ==
    /\ status \in StartStatus
    /\ total \in Totals \ {0}
    /\ paidTotal = 0
    /\ onAccount = FALSE
    /\ pay = [r \in Req |-> NoRow]
    /\ sums = [m \in Method |-> 0]
    /\ returned = 0
    /\ lock = NoReq
    /\ rq = [r \in Req |-> Idle]
    /\ dispatched = 0 /\ reopened = 0 /\ peak = total

At(r, l)   == rq[r].pc = l
Goto(r, l) == rq' = [rq EXCEPT ![r].pc = l]

\* A status write, with the history of how often a closed order became payable again.
SetStatus(s) ==
    /\ status' = s
    /\ reopened' = reopened + IF status \in Closed /\ s \in Settleable THEN 1 ELSE 0

----------------------------------------------------------------------------
(* The first statement of every handler: load the order, check its gate,    *)
(* and keep the snapshot.                                                    *)

Begin(r, k, first, amt, tgt) ==
    /\ At(r, "idle")
    /\ k \in Kinds
    /\ status # "deleted"
    /\ rq' = [rq EXCEPT ![r] = [pc |-> first, kind |-> k, stat |-> status, total |-> total,
                                amt |-> amt, col |-> 0, set |-> 0, ret |-> 0, tgt |-> tgt]]
    /\ UNCHANGED <<order, pay, sums, returned, lock, ghost>>

BeginTender(r) ==
    \E k \in Tenders, a \in Amounts :
        /\ status \notin Closed
        /\ Begin(r, k, "read", a, NoReq)

BeginSettle(r) ==
    \E a \in Amounts :
        /\ status = "completed"
        /\ onAccount
        /\ Begin(r, "settle", "read", a, NoReq)

BeginVoidPayment(r) ==
    \E p \in Req :
        /\ pay[p].st = "completed"
        /\ pay[p].meth \in Manual
        /\ Begin(r, "void_payment", "mark", 0, p)

BeginReprice(r) ==
    \E k \in Repricers :
        /\ status \notin Closed
        /\ Begin(r, k, "reprice", 0, NoReq)

BeginSetStatus(r) ==
    /\ ValidTransitions[status] \cap Targets # {}
    /\ Begin(r, "set_status", "set_status", 0, NoReq)

BeginVoidOrder(r) ==
    /\ status \notin {"voided", "completed"}
    /\ Begin(r, "void_order", "void_order", 0, NoReq)

BeginDeleteDraft(r) ==
    /\ status = "draft"
    /\ Begin(r, "delete_draft", "delete", 0, NoReq)

BeginRecheck(r) == Begin(r, "recheck", "reread", 0, NoReq)

----------------------------------------------------------------------------
(* RecomputePaidTotal: sum the completed rows, then store paid_total in a   *)
(* second statement.  It runs before the clamp ("read") and again after     *)
(* every payment mutation ("reread").                                       *)

RecomputeRead(r) ==
    /\ rq[r].pc \in {"read", "reread"}
    /\ rq' = [rq EXCEPT ![r].pc = IF @ = "read" THEN "write" ELSE "rewrite",
                        ![r].col = Collected, ![r].set = Settled]
    /\ UNCHANGED <<order, pay, sums, returned, lock, ghost>>

\* completeOrderIfFullyPaid compares what it summed with the total of its snapshot.
CoversTotal_DoubleCount(q) == q.set + q.amt + Tol >= q.total
CoversTotal_Strict(q)      == q.set > q.total + Tol
CoversTotal(q)             == q.set + Tol >= q.total

AfterRewrite(q) ==
    CASE q.kind = "settle"        -> "done"
      [] q.kind = "void_payment"  -> "reload"
      [] OTHER -> IF CoversTotal(q) THEN "claim" ELSE "done"

RecomputeWrite(r) ==
    /\ rq[r].pc \in {"write", "rewrite"}
    /\ Unlocked
    /\ status # "deleted"
    /\ paidTotal' = rq[r].col
    /\ Goto(r, IF At(r, "write") THEN "clamp" ELSE AfterRewrite(rq[r]))
    /\ UNCHANGED <<status, total, onAccount, pay, sums, returned, lock, ghost>>

\* A missing amount becomes the outstanding balance; a larger one is cut down to it.
Clamped(q, outstanding) ==
    IF q.amt = 0 \/ q.amt > outstanding + Tol THEN outstanding ELSE q.amt

\* A tender refuses a balance of nothing; a settlement also one within the tolerance.
NothingDue(q, balance)             == balance <= IF q.kind = "settle" THEN Tol ELSE 0

Clamp(r) ==
    LET q == rq[r]
        outstanding == q.total - q.col - returned
        next == CASE q.kind = "cash"       -> "returns"
                  [] q.kind = "settle"     -> "lock"
                  [] q.kind = "on_account" -> "book"
                  [] OTHER                 -> "insert"
    IN  /\ At(r, "clamp")
        /\ IF NothingDue(q, outstanding)
             THEN Goto(r, "done")
             ELSE rq' = [rq EXCEPT ![r].pc = next, ![r].ret = returned,
                                   ![r].amt = Clamped(q, outstanding)]
        /\ UNCHANGED <<order, pay, sums, returned, lock, ghost>>

----------------------------------------------------------------------------
(* The locked tenders: cash (CreatePaymentIntent) and credit settlement     *)
(* (SettleCreditPayment).  The locked order row itself is thrown away: the  *)
(* fresh outstanding balance still uses the snapshot's total.               *)

ReadReturns(r) ==
    /\ At(r, "returns")
    /\ rq' = [rq EXCEPT ![r].pc = "lock", ![r].ret = returned]
    /\ UNCHANGED <<order, pay, sums, returned, lock, ghost>>

FreshOutstanding_BeforeLock(q) == q.total - q.col - q.ret
FreshOutstanding(q)            == q.total - Collected - q.ret

LockAfterReject_NoRollback(r) == r
LockAfterReject(r)            == NoReq

LockAndCheck(r) ==
    LET q == rq[r]
        fresh == FreshOutstanding(q)
    IN  /\ At(r, "lock")
        /\ Unlocked
        /\ status # "deleted"
        /\ IF NothingDue(q, fresh)
             THEN Goto(r, "done") /\ lock' = LockAfterReject(r)
             ELSE /\ lock' = r
                  /\ rq' = [rq EXCEPT ![r].pc = "commit",
                                      ![r].amt = IF q.amt > fresh + Tol THEN fresh ELSE q.amt]
        /\ UNCHANGED <<order, pay, sums, returned, ghost>>

AddRow(r) ==
    LET m == MethodOf(rq[r].kind)
    IN  /\ pay' = [pay EXCEPT ![r] = [st |-> "completed", amt |-> rq[r].amt, meth |-> m]]
        /\ sums' = [sums EXCEPT ![m] = @ + rq[r].amt]

CommitLocked(r) ==
    /\ At(r, "commit")
    /\ AddRow(r)
    /\ lock' = NoReq
    /\ Goto(r, "reread")
    /\ UNCHANGED <<order, returned, ghost>>

(* The tenders that take no lock. recordCreditSale posts the debt and stamps *)
(* metadata.on_account before it inserts the row.                            *)

BookCredit(r) ==
    /\ At(r, "book")
    /\ Unlocked
    /\ status # "deleted"
    /\ \/ onAccount' = TRUE /\ Goto(r, "insert")
       \/ UNCHANGED onAccount /\ Goto(r, "done")      \* treasury rejects: credit limit
    /\ UNCHANGED <<status, total, paidTotal, pay, sums, returned, lock, ghost>>

InsertRow(r) ==
    /\ At(r, "insert")
    /\ Unlocked
    /\ status # "deleted"
    /\ AddRow(r)
    /\ Goto(r, "reread")
    /\ UNCHANGED <<order, returned, lock, ghost>>

----------------------------------------------------------------------------
(* completeOrderIfFullyPaid: the conditional UPDATE that claims completion, *)
(* and the one fan-out the winner starts.                                   *)

MayClaim_CheckedInMemory(r) == rq[r].stat \in Settleable
MayClaim(r)                 == status \in Settleable

ClaimCompletion(r) ==
    /\ At(r, "claim")
    /\ Unlocked
    /\ IF MayClaim(r)
         THEN SetStatus("completed") /\ dispatched' = dispatched + 1
         ELSE UNCHANGED <<status, reopened, dispatched>>
    /\ Goto(r, "done")
    /\ UNCHANGED <<total, paidTotal, onAccount, pay, sums, returned, lock, peak>>

----------------------------------------------------------------------------
(* VoidPayment: void the row, recompute, then reload the order and reopen   *)
(* it when its payments no longer cover it.                                 *)

VoidedAmount(p)           == IF pay[p].st = "completed" THEN pay[p].amt ELSE 0

MarkVoided(r) ==
    LET p == rq[r].tgt
    IN  /\ At(r, "mark")
        /\ pay[p].st # "none"
        /\ pay' = [pay EXCEPT ![p].st = "voided"]
        /\ sums' = [sums EXCEPT ![pay[p].meth] = @ - VoidedAmount(p)]
        /\ Goto(r, "reread")
        /\ UNCHANGED <<order, returned, lock, ghost>>

ReloadForReopen(r) ==
    /\ At(r, "reload")
    /\ Goto(r, IF status = "completed" /\ rq[r].set + Tol < total THEN "reopen" ELSE "done")
    /\ UNCHANGED <<order, pay, sums, returned, lock, ghost>>

Reopen(r) ==
    /\ At(r, "reopen")
    /\ Unlocked
    /\ status # "deleted"
    /\ SetStatus("pending_payment")
    /\ Goto(r, "done")
    /\ UNCHANGED <<total, paidTotal, onAccount, pay, sums, returned, lock, dispatched, peak>>

----------------------------------------------------------------------------
(* The operations that change what the order is worth.  VoidOrderLine and   *)
(* EditOrderLine ("edit") run RecheckCompletion afterwards; a discount      *)
(* (SetOrderDiscount) and added lines (AddOrderLines) do not.               *)

Reprice(r) ==
    LET k == rq[r].kind
        mayOpen == k = "add" /\ rq[r].stat \in {"pending_payment", "draft"}
        mustOpen == k = "add" /\ rq[r].stat = "pending_payment"
    IN  /\ At(r, "reprice")
        /\ Unlocked
        /\ status # "deleted"
        /\ \E t \in Totals :
              /\ IF k = "add" THEN t > rq[r].total ELSE t # rq[r].total
              /\ total' = t
              /\ peak' = Greater(peak, t)
        /\ \/ mayOpen /\ SetStatus("open")
           \/ ~mustOpen /\ UNCHANGED <<status, reopened>>
        /\ Goto(r, IF k = "edit" THEN "recheck" ELSE "done")
        /\ UNCHANGED <<paidTotal, onAccount, pay, sums, returned, lock, dispatched>>

\* The line or the discount asked for is not acceptable and nothing is written.
RefuseReprice(r) ==
    /\ At(r, "reprice")
    /\ Goto(r, "done")
    /\ UNCHANGED <<order, pay, sums, returned, lock, ghost>>

\* RecheckCompletion loads the order afresh and runs completeOrderIfFullyPaid on it.
RecheckAfterReprice(r) ==
    /\ At(r, "recheck")
    /\ rq' = [rq EXCEPT ![r].pc = "reread", ![r].stat = status, ![r].total = total]
    /\ UNCHANGED <<order, pay, sums, returned, lock, ghost>>

----------------------------------------------------------------------------
(* Status writes outside the payment path.  Each checks the status it read  *)
(* and then writes unconditionally.                                         *)

UpdateStatus(r) ==
    /\ At(r, "set_status")
    /\ Unlocked
    /\ status # "deleted"
    /\ \E s \in ValidTransitions[rq[r].stat] \cap Targets : SetStatus(s)
    /\ Goto(r, "done")
    /\ UNCHANGED <<total, paidTotal, onAccount, pay, sums, returned, lock, dispatched, peak>>

VoidOrder(r) ==
    /\ At(r, "void_order")
    /\ Unlocked
    /\ status # "deleted"
    /\ SetStatus("voided")
    /\ Goto(r, "done")
    /\ UNCHANGED <<total, paidTotal, onAccount, pay, sums, returned, lock, dispatched, peak>>

\* hardDeleteDraft: the payment rows and the order in one transaction.
HardDeleteDraft(r) ==
    /\ At(r, "delete")
    /\ Unlocked
    /\ status # "deleted"
    /\ SetStatus("deleted")
    /\ pay' = [p \in Req |-> NoRow]
    /\ sums' = [m \in Method |-> 0]
    /\ Goto(r, "done")
    /\ UNCHANGED <<total, paidTotal, onAccount, returned, lock, dispatched, peak>>

\* ReleaseHeldOrder: one conditional UPDATE.
ReleaseHeldOrder ==
    /\ status = "awaiting_acceptance"
    /\ Unlocked
    /\ SetStatus("open")
    /\ UNCHANGED <<total, paidTotal, onAccount, pay, sums, returned, lock, rq, dispatched, peak>>

\* A return of part of the sale completes (returns.CompleteReturn). It locks the
\* return, not the order, and asks nothing of the order's status.
CompleteReturn ==
    /\ status # "deleted"
    /\ returned = 0                       \* bound: one completed return
    /\ \E a \in Refunds : a <= total /\ returned' = a
    /\ UNCHANGED <<order, pay, sums, lock, rq, ghost>>

\* The order was deleted under a request: its next statement fails and it ends.
OrderGone(r) ==
    /\ status = "deleted"
    /\ rq[r].pc \notin {"idle", "done", "dead"}
    /\ Goto(r, "done")
    /\ UNCHANGED <<order, pay, sums, returned, lock, ghost>>

\* A request dies between two statements; its open transaction rolls back.
Crash(r) ==
    /\ CanCrash
    /\ rq[r].pc \notin {"idle", "done", "dead"}
    /\ lock' = IF lock = r THEN NoReq ELSE lock
    /\ Goto(r, "dead")
    /\ UNCHANGED <<order, pay, sums, returned, ghost>>

----------------------------------------------------------------------------
Begins(r) ==
    \/ BeginTender(r) \/ BeginSettle(r) \/ BeginVoidPayment(r) \/ BeginReprice(r)
    \/ BeginSetStatus(r) \/ BeginVoidOrder(r) \/ BeginDeleteDraft(r) \/ BeginRecheck(r)

Continue(r) ==
    \/ RecomputeRead(r) \/ RecomputeWrite(r) \/ Clamp(r) \/ ReadReturns(r)
    \/ LockAndCheck(r) \/ CommitLocked(r) \/ BookCredit(r) \/ InsertRow(r)
    \/ ClaimCompletion(r) \/ MarkVoided(r) \/ ReloadForReopen(r) \/ Reopen(r)
    \/ Reprice(r) \/ RefuseReprice(r) \/ RecheckAfterReprice(r)
    \/ UpdateStatus(r) \/ VoidOrder(r) \/ HardDeleteDraft(r) \/ OrderGone(r)

Next ==
    \/ \E r \in Req : Begins(r) \/ Continue(r) \/ Crash(r)
    \/ ReleaseHeldOrder
    \/ CompleteReturn

Spec == Init /\ [][Next]_vars

\* A handler that has started keeps running: the Go scheduler runs its goroutine
\* and the database answers.  Clients owe nothing.
Handlers == \A r \in Req : WF_vars(Continue(r))
FairSpec == Spec /\ Handlers

----------------------------------------------------------------------------
(* Properties                                                               *)

Row == [st : {"none", "completed", "voided"}, amt : Nat, meth : Method]
Pcs == {"idle", "read", "write", "clamp", "returns", "lock", "commit", "book", "insert",
        "reread", "rewrite", "claim", "mark", "reload", "reopen", "reprice", "recheck",
        "set_status", "void_order", "delete", "done", "dead"}
Request == [pc : Pcs, kind : AllKinds, stat : Status, total : Nat, amt : Nat,
            col : Int, set : Int, ret : Nat, tgt : Req \cup {NoReq}]

\* Type invariant.
TypeOK ==
    /\ status \in Status
    /\ total \in Nat
    /\ paidTotal \in Int
    /\ onAccount \in BOOLEAN
    /\ pay \in [Req -> Row]
    /\ sums \in [Method -> Int]
    /\ returned \in Nat
    /\ lock \in Req \cup {NoReq}
    /\ rq \in [Req -> Request]
    /\ dispatched \in Nat /\ reopened \in Nat /\ peak \in Nat

\* What each request's row adds to the sum of a tender family.
Taken(m) ==
    [r \in Req |-> IF pay[r].st = "completed" /\ pay[r].meth = m THEN pay[r].amt ELSE 0]

\* The sums the queries return are those of the completed rows: two managers voiding
\* one row take it off once, and a deleted draft leaves nothing to sum.
SumsMatchRows == \A m \in Method : sums[m] = SumFunctionOnSet(Taken(m), Req)

\* However many tills and settlements race, the tenders that lock the order row never
\* take more in total than the order was ever worth, to within the tolerance (the
\* re-check under SELECT ... FOR UPDATE in CreatePaymentIntent and SettleCreditPayment).
TillWithinPeak == sums["till"] <= peak + Tol

\* The fan-out that posts the sale starts at most once per time the order is payable:
\* a second one needs a step that reopened the order in between (the conditional
\* UPDATE of completeOrderIfFullyPaid has one winner).
SingleClaim == dispatched <= reopened + 1

\* An order is completed only on payments that cover it (completeOrderIfFullyPaid).
CompletedIsCovered == status = "completed" => Settled + Tol >= total

\* Once the payments cover the order it does not stay payable (somebody completes it), unless
\* a request dies: nothing takes up a completion whose process is gone.
CoveredCompletes ==
    (status \in Settleable /\ Settled + Tol >= total)
        ~> (status \notin Settleable \/ Settled + Tol < total \/ \E r \in Req : At(r, "dead"))

\* Every request that starts ends or dies, whoever else dies while holding the row: the row lock
\* is given back on every path (service.go:485).
StartedEnds == \A r \in Req : (rq[r].pc # "idle") ~> (rq[r].pc \in {"done", "dead"})

\* The inductive strengthening of SingleClaim: an order that can be paid has used up
\* none of its claims.
ClaimInv ==
    /\ SingleClaim
    /\ status \in Settleable \cup {"awaiting_acceptance"} => dispatched <= reopened

\* What a request's place in its handler says of its kind, its row and its lock.
BeforeRow == {"read", "write", "clamp", "returns", "lock", "commit", "book", "insert"}

KindFits(q) ==
    /\ q.kind \in Kinds \cup {"recheck"}
    /\ q.pc \in BeforeRow => q.kind \in Tenders \cup {"settle"}
    /\ q.pc \in {"returns", "lock", "commit"} => q.kind \in Locked
    /\ q.pc \in {"book", "insert"} => q.kind \notin Locked

RowFits(r) ==
    LET q == rq[r]
    IN  /\ q.pc \in BeforeRow \cup {"idle"} => pay[r] = NoRow
        /\ q.pc = "commit" => lock = r /\ status # "deleted"
        /\ q.pc = "mark" => q.tgt \in Req /\ pay[q.tgt].meth \in Manual
        /\ q.pc = "mark" => pay[q.tgt].st # "none" \/ status = "deleted"

KindsInPlace == \A r \in Req : KindFits(rq[r])
RowsInPlace  == \A r \in Req : RowFits(r)

\* The inductive strengthening of TillWithinPeak: no snapshot is above the peak, and
\* an amount chosen under the lock still fits.
TillInv ==
    /\ TillWithinPeak
    /\ total <= peak
    /\ \A r \in Req :
          /\ rq[r].total <= peak
          /\ rq[r].pc = "commit" => sums["till"] + rq[r].amt <= peak + Tol

\* Nothing takes a row back, changes what the order is worth, or writes "completed"
\* without summing the rows first.
OnlyTendered ==
    /\ Kinds \cap (Repricers \cup {"void_payment"}) = {}
    /\ "completed" \notin Targets

\* What a request compared the total with: its snapshot's total is still the order's,
\* and the rows it summed are still there, so it claims only a covered order.
ReadingsStand ==
    \A r \in Req :
        LET q == rq[r]
        IN  /\ q.pc \notin {"mark", "reprice", "recheck"}
            /\ q.pc # "idle" => q.total = total
            /\ status # "deleted" /\ q.pc \in {"rewrite", "claim"} => q.set <= Settled
            /\ q.pc = "claim" => q.set + Tol >= q.total

\* The inductive strengthening of CompletedIsCovered.
CoverInv == CompletedIsCovered /\ ReadingsStand

Quiet == \A r \in Req : rq[r].pc \in {"idle", "done"}

\* What comments of the code promise and its steps do not keep.

\* "the payment-status filter, the row badge, and completeOrderIfFullyPaid all read one
\* consistent value": with nobody running, paid_total is what was collected.
PaidTotalConsistent == Quiet /\ status # "deleted" => paidTotal = Collected

\* "exactly one dispatch happens per order".
OneDispatchPerOrder == dispatched <= 1

\* "cap it there so a sale can never collect more than the order is worth".
NeverCollectsBeyondWorth ==
    [][Collected' > Collected => Collected' <= total' + Tol]_vars

\* "validTransitions defines allowed status transitions".
TransitionsFollowTable ==
    [][status' # status => status' \in ValidTransitions[status]]_vars

\* "Only draft-status orders are deletable here".
DeletesOnlyDrafts ==
    [][status' = "deleted" /\ status # "deleted" => status = "draft"]_vars

\* "a completed order that is no longer covered reopens to pending_payment".
UncoveredReopens == Quiet => CompletedIsCovered

----------------------------------------------------------------------------
(* One request at a time: a request begins only when no other is running.   *)
(* The till releases held orders and completes returns whenever it likes.   *)

Running(r) == rq[r].pc \notin {"idle", "done", "dead"}

OneAtATime ==
    \A r \in Req : At(r, "idle") /\ rq'[r].pc # "idle" => \A o \in Req : ~Running(o)

SerialSpec == Init /\ [][Next /\ OneAtATime]_vars

\* What the only running request has read is still so, and what it is about to collect
\* fits; at the place where it acts on an order's status, the status allows it.
Reads   == {"write", "clamp", "returns", "lock", "commit", "book", "insert", "rewrite"}
Chosen  == {"returns", "lock", "commit", "book", "insert"}
Compare == {"rewrite", "claim", "reload", "reopen"}

SnapshotHolds(q) ==
    /\ q.pc \notin {"idle", "recheck", "done", "dead"} => q.total = total
    /\ q.pc \in Reads => q.col = Collected
    /\ q.pc \in Compare => q.set = Settled
    /\ q.pc \in Chosen => Collected + q.amt <= total + Tol
    /\ q.pc = "claim" => q.set + Tol >= q.total
    /\ q.pc = "mark" => q.kind = "void_payment"
    /\ q.pc = "delete" => status = "draft"
    /\ q.pc = "reprice" => status \notin Closed

OneRunning == \A r, o \in Req : Running(r) /\ Running(o) => r = o

\* paid_total is what was collected, or somebody is about to count again or died first.
Recounted ==
    \/ paidTotal = Collected
    \/ status = "deleted"
    \/ \E r \in Req : rq[r].pc \in {"reread", "rewrite", "dead"}

SerialInv == OneRunning /\ Recounted /\ \A r \in Req : SnapshotHolds(rq[r])

\* A completed order is covered, or a manager's void is on its way to reopening it or died.
Voiding(q) == q.kind = "void_payment" /\ q.pc \in {"reread", "rewrite", "reload", "reopen"}

ReopensNext ==
    status = "completed" => \/ Settled + Tol >= total
                            \/ \E r \in Req : rq[r].pc = "dead" \/ Voiding(rq[r])
=============================================================================
