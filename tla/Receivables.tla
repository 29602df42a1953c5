----------------------------- MODULE Receivables -----------------------------
(***************************************************************************)
(* One customer who buys on account.  Treasury keeps the authoritative      *)
(* debt; pos-api keeps its own orders and their paid totals, and the two    *)
(* are brought together by three kinds of work: the settlement of a sale    *)
(* at the till (posted to treasury afterwards, retried by a reconciler),    *)
(* the pass that settles the orders down to treasury's figure when a        *)
(* balance event arrives, and a daily audit.  A step is one statement, one  *)
(* transaction or one call of modules/payments/credit_settlement.go,        *)
(* ar_reconcile.go, ar_drift_audit.go, manage.go and their workers.         *)
(***************************************************************************)
EXTENDS Integers, FiniteSets, Functions

CONSTANTS
    Proc,       \* requests and workers under way
    MaxOrder,   \* orders of the customer, oldest first
    Direct,     \* receipts treasury records without pos-api
    Asked,      \* amounts a till or treasury takes
    MaxRow,     \* payment rows (bound)
    MaxTill,    \* of which settlements (bound)
    MaxVoid,    \* of which voided (bound)
    MaxFault,   \* failures, lost answers and crashes (bound)
    Tolerance,  \* arDriftTolerance, the difference the audit calls agreement: 1 where a unit is a shilling
    Scenes      \* what a behaviour may meet, and the totals of its orders

Order == 1..MaxOrder
Row == 1..MaxRow
Hazard == {"till", "direct", "fail", "late", "crash", "void", "overlap", "foreign"}
Audit == <<"ar-drift-audit", 0>>
Event == {"paid", "void"} \X (Order \cup Direct)

ASSUME BoundsAssumption ==
    /\ MaxOrder \in Nat \ {0} /\ MaxRow \in Nat /\ MaxTill \in Nat /\ MaxVoid \in Nat /\ MaxTill <= MaxRow /\ MaxFault \in Nat
    /\ Tolerance \in Nat
    /\ Asked \subseteq Nat \ {0}
ASSUME NamesAssumption == Scenes \subseteq [may : SUBSET Hazard, price : [Order -> Nat]] /\ Direct \cap Order = {} /\ IsFiniteSet(Direct)

VARIABLES
    scene,    \* what this behaviour may meet; price is pos_orders.total_amount
    paid,     \* pos_orders.paid_total
    row,      \* pos_payments
    receipt,  \* the treasury receipt of a settlement row
    direct,   \* treasury's other receipts
    debt,     \* treasury's outstanding_debit
    mail,     \* customer.balance_updated events not acknowledged
    proc,     \* the requests and workers
    faults,
    missed    \* history: missed[o] is what was recorded on o by somebody whose recount then failed
vars == <<scene, paid, row, receipt, direct, debt, mail, proc, faults, missed>>
books == <<paid, row>>
treasury == <<receipt, direct, debt, mail>>

NoRow == [st |-> "none", kind |-> "settle", ord |-> 1, amt |-> 0, ref |-> Audit,
          undone |-> FALSE, synced |-> FALSE, id |-> FALSE]
Idle == [at |-> "idle", row |-> 0, ord |-> 1, amt |-> 0, ref |-> Audit,
         due |-> [o \in Order |-> 0], id |-> FALSE, synced |-> FALSE, then |-> "idle"]
Lesser(a, b) == IF a <= b THEN a ELSE b
\* What a pass puts on an order, of what is left.
ShareOf_WholeDue(due, left) == due
ShareOf(due, left) == Lesser(due, left)

Used == {r \in Row : row[r].st # "none"}
Tills == {r \in Used : row[r].kind = "settle"}
Counted(o) == {r \in Used : row[r].st = "completed" /\ row[r].ord = o}
Amount == [r \in Row |-> row[r].amt]
Worth(R) == SumFunctionOnSet(Amount, R)
\* What RecomputePaidTotal sums.
Collected(o) == Worth(Counted(o))
\* AmountDue, from the stored paid_total.
Due(o) == IF scene.price[o] > paid[o] THEN scene.price[o] - paid[o] ELSE 0
PosOpen == SumFunction([o \in Order |-> Due(o)])
\* The next row.
New(r) == row[r].st = "none" /\ \A x \in 1..(r - 1) : row[x].st # "none"
RoomToReconcile == Cardinality(Used \ Tills) < MaxRow - MaxTill

May(h) == h \in scene.may
Mishap(h) == May(h) /\ faults < MaxFault /\ faults' = faults + 1
Goes(p, new) == proc' = [proc EXCEPT ![p] = new]
Ends(p) == Goes(p, Idle)

TypeOK ==
    /\ scene \in Scenes
    /\ paid \in [Order -> Nat]
    /\ row \in [Row -> [st : {"none", "completed", "voided"}, kind : {"settle", "recon"},
                        ord : Order, amt : Nat, ref : Event \cup {Audit},
                        undone : BOOLEAN, synced : BOOLEAN, id : BOOLEAN]]
    /\ receipt \in [Row -> {"none", "live", "void"}]
    /\ direct \in [Direct -> [st : {"none", "live", "void"}, amt : Nat]]
    /\ debt \in Nat /\ mail \subseteq Event
    /\ proc \in [Proc -> [at : {"idle", "insert", "recount", "call", "mark", "voiding", "unreceipt",
                                "read", "apply", "undo"},
                          row : 0..MaxRow, ord : Order, amt : Nat, ref : Event \cup {Audit},
                          due : [Order -> Nat], id : BOOLEAN, synced : BOOLEAN,
                          then : {"idle", "call", "unreceipt", "apply", "undo"}]]
    /\ faults \in 0..MaxFault
    /\ missed \in [Order -> Nat]

Init ==
    /\ scene \in Scenes
    /\ paid = [o \in Order |-> 0]
    /\ row = [r \in Row |-> NoRow] /\ receipt = [r \in Row |-> "none"]
    /\ direct = [d \in Direct |-> [st |-> "none", amt |-> 0]]
    /\ debt = SumFunction(scene.price) + (IF May("foreign") THEN 1 ELSE 0)
    /\ mail = {}
    /\ proc = [p \in Proc |-> Idle] /\ faults = 0
    /\ missed = [o \in Order |-> 0]

(***************************************************************************)
(* Settling a credit sale at the till.                                      *)
(***************************************************************************)
\* The sum is stored; a store that fails may have taken effect.
Stores(o) == paid' = [paid EXCEPT ![o] = Collected(o)]
StoreFails(o) == Mishap("fail") /\ (Stores(o) \/ UNCHANGED paid)

\* The outstanding balance, from a sum that is stored on the way.
SettleCreditPayment(p, o, ask) ==
    /\ May("till") /\ proc[p] = Idle
    /\ Cardinality(Tills) + Cardinality({q \in Proc : proc[q].at = "insert"}) < MaxTill
    /\ LET outstanding == scene.price[o] - Collected(o) IN
       \/ /\ Stores(o) /\ outstanding > 0
          /\ Goes(p, [Idle EXCEPT !.at = "insert", !.ord = o, !.amt = Lesser(ask, outstanding)])
          /\ UNCHANGED faults
       \/ /\ Stores(o) /\ outstanding <= 0 /\ UNCHANGED <<proc, faults>>
       \/ /\ StoreFails(o) /\ UNCHANGED proc
    /\ UNCHANGED <<scene, row, treasury, missed>>

\* Under the row lock, against the rows as they are now.
FreshOutstanding_AsRead(p) == scene.price[proc[p].ord]
FreshOutstanding(p) == scene.price[proc[p].ord] - Collected(proc[p].ord)
InsertSettlement(p) ==
    /\ proc[p].at = "insert"
    /\ \/ /\ FreshOutstanding(p) <= 0
          /\ Ends(p) /\ UNCHANGED row
       \/ /\ FreshOutstanding(p) > 0
          /\ \E r \in Row :
                /\ New(r)
                /\ row' = [row EXCEPT ![r] = [NoRow EXCEPT !.st = "completed", !.ord = proc[p].ord,
                                                           !.amt = Lesser(proc[p].amt, FreshOutstanding(p))]]
                /\ Goes(p, [proc[p] EXCEPT !.at = "recount", !.row = r, !.then = "call"])
    /\ UNCHANGED <<scene, missed, paid, treasury, faults>>

\* The till, a void and an undoing pass go on whatever comes of the recount; a settling pass goes
\* on to the next order, but with as much left as before when the recount failed.
Share(x) == ShareOf(x.due[x.ord], x.amt)
AfterRecount(x) ==
    IF x.then = "apply" THEN [x EXCEPT !.at = "apply", !.due[x.ord] = 0, !.amt = @ - Share(x)]
                        ELSE [x EXCEPT !.at = x.then]
AfterLostRecount(x) ==
    IF x.then = "apply" THEN [x EXCEPT !.at = "apply", !.due[x.ord] = 0] ELSE [x EXCEPT !.at = x.then]
Recorded(x) == CASE x.then = "call"  -> row[x.row].amt
                 [] x.then = "apply" -> Share(x)
                 [] OTHER            -> 0
RecomputePaidTotal(p) ==
    LET x == proc[p] IN
    /\ x.at = "recount"
    /\ \/ Stores(x.ord) /\ Goes(p, AfterRecount(x)) /\ UNCHANGED <<faults, missed>>
       \/ /\ StoreFails(x.ord) /\ Goes(p, AfterLostRecount(x))
          /\ missed' = [missed EXCEPT ![x.ord] = @ + Recorded(x)]
    /\ UNCHANGED <<scene, row, treasury>>

\* Treasury takes a receipt for what is owed, refuses a larger one, and answers a repeated one
\* with success and no receipt id.
Takes(r) == receipt[r] = "none" /\ row[r].amt <= debt
Post(r) ==
    /\ receipt' = [receipt EXCEPT ![r] = "live"]
    /\ debt' = debt - row[r].amt
    /\ mail' = mail \cup {<<"paid", row[r].ord>>}
    /\ UNCHANGED direct
AfterRefusal_Marked(p) == [proc[p] EXCEPT !.at = "mark"]
AfterRefusal(p) == Idle
RecordARPayment(p) ==
    /\ proc[p].at = "call"
    /\ LET r == proc[p].row IN
       \/ /\ Takes(r) /\ Post(r)
          /\ \/ Goes(p, [proc[p] EXCEPT !.at = "mark", !.id = TRUE]) /\ UNCHANGED faults
             \/ Mishap("late") /\ Ends(p)
       \/ /\ receipt[r] # "none"
          /\ Goes(p, [proc[p] EXCEPT !.at = "mark", !.id = FALSE]) /\ UNCHANGED <<treasury, faults>>
       \/ /\ receipt[r] = "none" /\ row[r].amt > debt
          /\ Goes(p, AfterRefusal(p)) /\ UNCHANGED <<treasury, faults>>
       \/ Mishap("fail") /\ Goes(p, AfterRefusal(p)) /\ UNCHANGED treasury
    /\ UNCHANGED <<scene, missed, books>>

\* The whole payment_data is written, from the copy the caller holds.
KeptId_Dropped(p) == FALSE
KeptId(p) == proc[p].id
MarkSynced(p) ==
    /\ proc[p].at = "mark"
    /\ \/ /\ row' = [row EXCEPT ![proc[p].row].synced = TRUE, ![proc[p].row].id = KeptId(p)]
          /\ UNCHANGED faults
       \/ Mishap("fail") /\ UNCHANGED row
    /\ Ends(p)
    /\ UNCHANGED <<scene, missed, paid, treasury>>

\* The reconciler: rows at least two minutes old, hence none a request is still at.
Unsynced(r) == row[r].st = "completed" /\ row[r].kind = "settle" /\ ~row[r].synced
AtRow(r) == \E q \in Proc : proc[q].row = r
Candidate_OpenSale(r) == Unsynced(r) /\ Due(row[r].ord) > 0
Candidate(r) == Unsynced(r)
RetrySync(p, r) ==
    /\ proc[p] = Idle /\ Candidate(r) /\ ~AtRow(r)
    /\ Goes(p, [Idle EXCEPT !.at = "call", !.row = r, !.ord = row[r].ord])
    /\ UNCHANGED <<scene, missed, books, treasury, faults>>

(***************************************************************************)
(* Voiding a settlement.                                                    *)
(***************************************************************************)
LoadForVoid(p, r) ==
    /\ May("void") /\ proc[p] = Idle
    /\ Cardinality({x \in Row : row[x].st = "voided" \/ \E q \in Proc : proc[q].at = "voiding" /\ proc[q].row = x}) < MaxVoid
    /\ row[r].st = "completed" /\ row[r].kind = "settle"
    /\ May("overlap") \/ ~AtRow(r)
    /\ Goes(p, [Idle EXCEPT !.at = "voiding", !.row = r, !.ord = row[r].ord,
                            !.id = row[r].id, !.synced = row[r].synced])
    /\ UNCHANGED <<scene, missed, books, treasury, faults>>

\* Status and payment_data, the latter as it was loaded.
VoidPayment(p) ==
    /\ proc[p].at = "voiding"
    /\ row' = [row EXCEPT ![proc[p].row].st = "voided",
                          ![proc[p].row].id = proc[p].id, ![proc[p].row].synced = proc[p].synced]
    /\ Goes(p, [proc[p] EXCEPT !.at = "recount", !.then = "unreceipt"])
    /\ UNCHANGED <<scene, missed, paid, treasury, faults>>

\* Reversed in treasury if the loaded row named a receipt; a failure is logged, nobody retries it.
VoidARReceipt(p) ==
    /\ proc[p].at = "unreceipt"
    /\ LET r == proc[p].row IN
       \/ /\ proc[p].id /\ receipt[r] = "live"
          /\ receipt' = [receipt EXCEPT ![r] = "void"]
          /\ debt' = debt + row[r].amt
          /\ mail' = mail \cup {<<"void", row[r].ord>>}
          /\ UNCHANGED <<direct, faults>>
       \/ ~(proc[p].id /\ receipt[r] = "live") /\ UNCHANGED <<treasury, faults>>
       \/ Mishap("fail") /\ UNCHANGED treasury
    /\ Ends(p)
    /\ UNCHANGED <<scene, missed, books>>

(***************************************************************************)
(* Treasury on its own.                                                     *)
(***************************************************************************)
Receive(d, a) ==
    /\ May("direct") /\ direct[d].st = "none" /\ a <= debt
    /\ direct' = [direct EXCEPT ![d] = [st |-> "live", amt |-> a]]
    /\ debt' = debt - a /\ mail' = mail \cup {<<"paid", d>>}
    /\ UNCHANGED <<scene, missed, books, receipt, proc, faults>>

Withdraw(d) ==
    /\ direct[d].st = "live"
    /\ direct' = [direct EXCEPT ![d].st = "void"]
    /\ debt' = debt + direct[d].amt /\ mail' = mail \cup {<<"void", d>>}
    /\ UNCHANGED <<scene, missed, books, receipt, proc, faults>>

(***************************************************************************)
(* The pass that settles the orders down to treasury's figure.              *)
(***************************************************************************)
PassRunning == \E q \in Proc : \/ proc[q].at \in {"read", "apply", "undo"}
                               \/ proc[q].at = "recount" /\ proc[q].then \in {"apply", "undo"}
Alone == May("overlap") \/ ~PassRunning

\* An event is acknowledged whatever comes of it; the figure used is fetched again.
BalanceUpdated(p, e) ==
    /\ proc[p] = Idle /\ e \in mail /\ Alone
    /\ mail' = mail \ {e}
    /\ \/ Goes(p, [Idle EXCEPT !.at = "read", !.ref = e, !.amt = debt]) /\ UNCHANGED faults
       \/ Mishap("fail") /\ UNCHANGED proc
    /\ UNCHANGED <<scene, missed, books, receipt, direct, debt>>

\* Down to the target, or up again for a voided receipt.
ReadOrders(p) ==
    /\ proc[p].at = "read"
    /\ LET target == proc[p].amt IN
       \/ /\ PosOpen > target
          /\ Goes(p, [proc[p] EXCEPT !.at = "apply", !.amt = PosOpen - target, !.due = [o \in Order |-> Due(o)]])
       \/ /\ PosOpen < target /\ proc[p].ref # Audit /\ proc[p].ref[1] = "void"
          /\ Goes(p, [proc[p] EXCEPT !.at = "undo", !.amt = target - PosOpen])
       \/ /\ PosOpen <= target /\ ~(PosOpen < target /\ proc[p].ref # Audit /\ proc[p].ref[1] = "void")
          /\ Ends(p)
    /\ UNCHANGED <<scene, missed, books, treasury, faults>>

Oldest(due, o) == due[o] > 0 /\ \A x \in Order : x < o => due[x] = 0
ApplyReconcileSettlement(p) ==
    /\ proc[p].at = "apply"
    /\ \/ /\ proc[p].amt = 0 \/ \A o \in Order : proc[p].due[o] = 0
          /\ Ends(p) /\ UNCHANGED <<row, faults>>
       \/ /\ proc[p].amt > 0
          /\ \E o \in Order :
                /\ Oldest(proc[p].due, o)
                /\ \/ /\ RoomToReconcile
                      /\ \E r \in Row : LET share == ShareOf(proc[p].due[o], proc[p].amt) IN
                         /\ New(r)
                         /\ row' = [row EXCEPT ![r] = [NoRow EXCEPT !.st = "completed", !.kind = "recon", !.ord = o,
                                                                    !.amt = share, !.ref = proc[p].ref]]
                         /\ Goes(p, [proc[p] EXCEPT !.at = "recount", !.then = "apply", !.ord = o])
                      /\ UNCHANGED faults
                   \/ /\ Mishap("fail") /\ UNCHANGED row
                      /\ Goes(p, [proc[p] EXCEPT !.due[o] = 0])
    /\ UNCHANGED <<scene, missed, paid, treasury>>

\* Only a row this very receipt brought about, and only once.
Undoes_AnyReceipt(p, r) == row[r].st = "completed" /\ row[r].kind = "recon" /\ ~row[r].undone
Undoes(p, r) ==
    /\ row[r].st = "completed" /\ row[r].kind = "recon" /\ ~row[r].undone
    /\ row[r].ref = <<"paid", proc[p].ref[2]>>
UnreconcilePhantom(p) ==
    /\ proc[p].at = "undo"
    /\ \/ /\ proc[p].amt = 0 \/ \A r \in Row : ~Undoes(p, r)
          /\ Ends(p) /\ UNCHANGED row
       \/ /\ proc[p].amt > 0
          /\ \E r \in Row :
                /\ Undoes(p, r)
                /\ LET cut == Lesser(row[r].amt, proc[p].amt) IN
                   /\ row' = [row EXCEPT ![r].amt = @ - cut, ![r].undone = TRUE]
                   /\ Goes(p, [proc[p] EXCEPT !.at = "recount", !.then = "undo", !.ord = row[r].ord, !.amt = @ - cut])
    /\ UNCHANGED <<scene, missed, paid, treasury, faults>>

(***************************************************************************)
(* The daily audit: a customer with something open in pos-api, compared     *)
(* with the figure treasury answers.  What it only flags is left out.       *)
(***************************************************************************)
Drifted_Reversed == debt > PosOpen + Tolerance
Drifted == PosOpen > debt + Tolerance
AuditOne(p) ==
    /\ proc[p] = Idle /\ Alone /\ Drifted
    /\ \/ Goes(p, [Idle EXCEPT !.at = "read", !.amt = debt]) /\ UNCHANGED faults
       \/ Mishap("fail") /\ UNCHANGED proc
    /\ UNCHANGED <<scene, missed, books, treasury>>

\* The process dies; an event it was working on was not acknowledged and comes again.
Crash(p) ==
    /\ proc[p] # Idle /\ Mishap("crash")
    /\ mail' = IF proc[p].ref = Audit THEN mail ELSE mail \cup {proc[p].ref}
    /\ Ends(p)
    /\ UNCHANGED <<scene, missed, books, receipt, direct, debt>>

Serve(p) == \/ InsertSettlement(p) \/ RecomputePaidTotal(p) \/ RecordARPayment(p) \/ MarkSynced(p)
            \/ VoidPayment(p) \/ VoidARReceipt(p)
            \/ ReadOrders(p) \/ ApplyReconcileSettlement(p) \/ UnreconcilePhantom(p)
Till(p) == \/ \E o \in Order, a \in Asked : SettleCreditPayment(p, o, a)
           \/ \E r \in Row : LoadForVoid(p, r)
Worker(p) == \/ \E r \in Row : RetrySync(p, r)
             \/ \E e \in mail : BalanceUpdated(p, e)
             \/ AuditOne(p)
Treasury == \/ \E d \in Direct, a \in Asked : Receive(d, a)
            \/ \E d \in Direct : Withdraw(d)
Next == Treasury \/ \E p \in Proc : Till(p) \/ Serve(p) \/ Worker(p) \/ Crash(p)

Spec == Init /\ [][Next]_vars

(***************************************************************************)
(* Properties.                                                              *)
(***************************************************************************)
\* Settlements taken at the till never add up to more than the sale is worth, whatever requests,
\* passes and voids overlap: the amount is checked again under the row lock (credit_settlement.go:157).
SettlesWithinWorth == \A o \in Order : Worth(Counted(o) \cap Tills) <= scene.price[o]

Sound == scene.may \cap {"crash", "void", "overlap"} = {}
\* While nobody dies, no settlement is voided and one pass runs at a time, what the orders show as
\* settled was received, at the till or by treasury, also when treasury learns of a settlement late,
\* twice or not at all, but for the recounts that failed: the till posts all the same
\* (credit_settlement.go:208) and a pass puts the same money on the next order as well
\* (ar_reconcile.go:213), and each of them settles at most once more what it did not count.
Settled(o) == Lesser(scene.price[o], Collected(o))
Received == Worth({r \in Tills : row[r].st = "completed"}) + SumFunction([d \in Direct |-> direct[d].amt])
SettledWasReceived == Sound => SumFunction([o \in Order |-> Settled(o)]) <= Received + SumFunction(missed)

Voided(x) == \/ \E d \in Direct : d = x /\ direct[d].st = "void"
             \/ \E r \in Row : row[r].ord = x /\ receipt[r] = "void"
\* A payment a pass recorded is taken back only if the receipt it stands for was voided, even when
\* events are repeated and passes overlap (ar_reconcile.go:283-285).
UndoneWasVoided == \A r \in Row : row[r].undone => Voided(row[r].ref[2])

\* The reconciler stops at a row marked synced; treasury then has its receipt, whichever answers
\* were lost (credit_settlement.go:336).
SyncedIsPosted == \A r \in Row : row[r].synced => receipt[r] # "none"

Calm == scene.may \cap {"fail", "late", "crash", "overlap"} = {}
\* Without failures and overlaps, a voided settlement leaves no receipt at treasury (manage.go:234).
VoidedIsReversed ==
    Calm => \A r \in Row : row[r].st = "voided" /\ ~AtRow(r) => receipt[r] # "live"

Fairness ==
    /\ \A p \in Proc : WF_vars(Serve(p))
    /\ \A r \in Row : SF_vars(\E p \in Proc : RetrySync(p, r))
    /\ SF_vars(\E p \in Proc : AuditOne(p))
LiveSpec == Spec /\ Fairness

\* A settlement taken at the till reaches treasury, is voided, or is more than treasury is owed,
\* whatever fails or dies on the way (credit_settlement_reconciler.go:85).
SettlementReaches ==
    \A r \in Row : Unsynced(r) ~> (~Unsynced(r) \/ (receipt[r] = "none" /\ row[r].amt > debt))

\* Orders that show more than treasury is owed, by more than the audit tolerates, come down to
\* within its tolerance, though the event was lost, its pass skipped or its recounts failed: the
\* daily audit makes up for it (ar_drift_audit.go:256).
DriftHeals == PosOpen > debt + Tolerance ~> (PosOpen <= debt + Tolerance \/ ~RoomToReconcile)
=============================================================================
