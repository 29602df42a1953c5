------------------------------ MODULE Reversal ------------------------------
(***************************************************************************)
(* The reversals of one finalized sale (internal/modules/reversals): each   *)
(* runs five steps in order, on the sale itself, its stock, the treasury's  *)
(* books, the KRA credit note and the customer's points, and keeps a ledger *)
(* of them in its row.  A failed step never stops the others; an operator's *)
(* Retry runs whatever is not done.                                         *)
(*                                                                          *)
(* One line of Sold units at one shilling each, paid by at most one         *)
(* on-account row and one cash row; value an Edit Sale added is covered by  *)
(* neither.  The other services may fail, or answer too late.  Where the    *)
(* behaviour is not orderly, requests overlap, else one runs at a time, and *)
(* a reversal starts when the earlier ones are completed.  Where it is not  *)
(* sound, a process may die anywhere, and the database may fail, or lose    *)
(* the answer to a commit.                                                  *)
(***************************************************************************)
EXTENDS Integers, FiniteSets, FiniteSetsExt, Functions

CONSTANTS
    Proc,       \* requests being handled
    Rev,        \* reversals, named by their idempotency keys
    None,
    Sold,       \* units on the line
    Sales,      \* the sales considered, their failures, and whether they are orderly and sound
    MaxFaults   \* bound on failures of one behaviour

ASSUME ReversalAssumption ==
    /\ None \notin Proc \cup Rev
    /\ Sold \in Nat \ {0}
    /\ Sales \subseteq { s \in [paid : [{"on_account", "cash"} -> 0 .. Sold], returned : 0 .. Sold - 1,
                               fiscalized : BOOLEAN, tracked : BOOLEAN,
                               orderly : BOOLEAN, sound : BOOLEAN, failures : 0 .. MaxFaults] :
                        s.paid["on_account"] + s.paid["cash"] <= Sold }
    /\ MaxFaults \in Nat
    /\ IsFiniteSet(Rev)

Row == {"on_account", "cash"}
Step == 1 .. 5
Totals == 1  Inventory == 2  TreasuryGL == 3  EtimsNote == 4  Loyalty == 5
Finished == 6

VARIABLES
    sale,     \* chosen once: paid per row, returned, fiscalized, tracked, orderly, sound, failures
    status,   \* of the order
    line,     \* units voided so far, and the reversal its voided_reason names
    rows,     \* payment rows: amount, and the reversal stamp
    lock,     \* the transaction that holds the line's row lock
    rev,      \* rev[r]: the pos_reversals row
    voids,    \* history: how often r added its units to the line's voided quantity
    stock,    \* inventory: the reversals whose stock is back
    books,    \* treasury: refunds posted for r, by reference and channel
    notes,    \* treasury: reversals with a credit note
    clawed,   \* how often r took loyalty points back
    proc,     \* proc[p]: a request being handled
    faults

vars == <<sale, status, line, rows, lock, rev, voids, stock, books, notes, clawed, proc, faults>>
world == <<status, line, rows, voids, stock, books, notes, clawed>>

Zero       == [w \in Row |-> 0]
Unseen     == [voided |-> 0, by |-> None]
AllPending == [k \in Step |-> "pending"]
NoRow      == [status |-> "none", scope |-> "none", qty |-> 0, steps |-> AllPending]

\* A request with a copy of the ledger that has read nothing else yet.
Handling(at, r, scope, qty, k, steps) ==
    [at |-> at, r |-> r, scope |-> scope, qty |-> qty, k |-> k, steps |-> steps,
     seen |-> Unseen, was |-> Zero, cut |-> Zero]
Idle == Handling("idle", None, "none", 0, Finished, AllPending)

Lesser(a, b) == IF a < b THEN a ELSE b

Init ==
    /\ sale \in Sales
    /\ status = "completed"
    /\ line = Unseen
    /\ rows = [w \in Row |-> [amount |-> sale.paid[w], by |-> None, cut |-> 0]]
    /\ lock = None
    /\ rev = [r \in Rev |-> NoRow]
    /\ voids = [r \in Rev |-> 0] /\ clawed = [r \in Rev |-> 0]
    /\ stock = {} /\ notes = {}
    /\ books = [r \in Rev |-> [ids |-> {}, cash |-> 0, ar |-> 0]]
    /\ proc = [p \in Proc |-> Idle]
    /\ faults = 0

At(p, l)   == proc[p].at = l
Goto(p, l) == proc' = [proc EXCEPT ![p].at = l]
Exists(r)  == rev[r].status # "none"
Fault      == faults < sale.failures /\ faults' = faults + 1
\* A fault of the program or its database.
Mishap     == ~sale.sound /\ Fault

Calm == sale.orderly /\ sale.sound

\* In an orderly behaviour nobody else is at it and every other reversal is completed.
Undisturbed(r) ==
    sale.orderly => /\ \A q \in Proc : At(q, "idle")
                 /\ \A o \in Rev \ {r} : rev[o].status \in {"none", "completed"}

----------------------------------------------------------------------------
(* Execute and Retry                                                        *)

\* What resolveLines sees left of the line.
Remaining_NoReturns == Sold - line.voided
Remaining == Sold - line.voided - sale.returned

\* Execute looks the key up, checks the order and prices the lines; the row comes later.
Execute(p, r, scope, want) ==
    /\ At(p, "idle") /\ Undisturbed(r)
    /\ ~Exists(r)
    /\ status = "completed"
    /\ Remaining > 0
    /\ LET qty == IF scope = "full" THEN Remaining ELSE Lesser(want, Remaining)
       IN proc' = [proc EXCEPT ![p] = Handling("create", r, scope, qty, Finished, AllPending)]
    /\ UNCHANGED <<sale, lock, rev, faults>> /\ UNCHANGED world

\* The first step from k on that is not done: the others return at once.
From_Again(steps, k) == Min({ j \in Step : j >= k } \cup {Finished})
From(steps, k) == Min({ j \in Step : j >= k /\ steps[j] # "done" } \cup {Finished})

RunFrom(p, r, steps, k) ==
    proc' = [proc EXCEPT ![p] = Handling("run", r, "none", 0, From(steps, k), steps)]

\* The unique idempotency key lets one of two equal requests insert its row.
Create(p) ==
    LET r == proc[p].r IN
    /\ At(p, "create")
    /\ IF Exists(r)
       THEN proc' = [proc EXCEPT ![p] = Idle] /\ UNCHANGED rev
       ELSE /\ rev' = [rev EXCEPT ![r] = [status |-> "pending", scope |-> proc[p].scope,
                                              qty |-> proc[p].qty, steps |-> AllPending]]
            /\ RunFrom(p, r, AllPending, 1)
    /\ UNCHANGED <<sale, lock, faults>> /\ UNCHANGED world

Retry_FailedOnly(p, r) ==
    /\ At(p, "idle") /\ Undisturbed(r)
    /\ Exists(r) /\ rev[r].status = "failed"
    /\ RunFrom(p, r, rev[r].steps, 1)
    /\ UNCHANGED <<sale, lock, rev, faults>> /\ UNCHANGED world

Retry(p, r) ==
    /\ At(p, "idle") /\ Undisturbed(r)
    /\ Exists(r) /\ rev[r].status # "completed"
    /\ RunFrom(p, r, rev[r].steps, 1)
    /\ UNCHANGED <<sale, lock, rev, faults>> /\ UNCHANGED world

----------------------------------------------------------------------------
(* The step ledger                                                          *)

At_(p, k) == At(p, "run") /\ proc[p].k = k

\* The step returns: its entry in the local copy, which Persist then writes whole.
Marked(p, ok) ==
    proc' = [proc EXCEPT ![p].at = "persist", ![p].steps[proc[p].k] = IF ok THEN "done" ELSE "failed"]

Persist(p, ok) ==
    LET r == proc[p].r IN
    /\ At(p, "persist")
    /\ IF ok THEN rev' = [rev EXCEPT ![r].steps = proc[p].steps] /\ UNCHANGED faults
             ELSE Mishap /\ UNCHANGED rev
    /\ RunFrom(p, r, proc[p].steps, proc[p].k + 1)
    /\ UNCHANGED <<sale, lock>> /\ UNCHANGED world

Outcome_NoneFailed(steps) ==
    CASE \E k \in Step : steps[k] = "done" -> "completed"
      [] \A k \in Step : steps[k] = "failed" -> "failed"
      [] OTHER -> "pending"

Outcome(steps) ==
    LET failed == { k \in Step : steps[k] = "failed" }
        done   == { k \in Step : steps[k] = "done" }
    IN CASE done = Step -> "completed"
         [] failed = Step -> "failed"
         [] failed # {} /\ failed # Step -> "partial_failure"
         [] OTHER -> "pending"

\* finalizeStatus writes the ledger and the status it gives.
Finalize(p, ok) ==
    LET r == proc[p].r IN
    /\ At_(p, Finished)
    /\ IF ok THEN /\ rev' = [rev EXCEPT ![r].steps = proc[p].steps, ![r].status = Outcome(proc[p].steps)]
                  /\ UNCHANGED faults
             ELSE Mishap /\ UNCHANGED rev
    /\ proc' = [proc EXCEPT ![p] = Idle]
    /\ UNCHANGED <<sale, lock>> /\ UNCHANGED world

\* The process dies; its transaction rolls back.
Crash(p) ==
    /\ ~At(p, "idle")
    /\ Mishap
    /\ proc' = [proc EXCEPT ![p] = Idle]
    /\ lock' = IF lock = p THEN None ELSE lock
    /\ UNCHANGED <<sale, rev>> /\ UNCHANGED world

----------------------------------------------------------------------------
(* Step 1: the sale, in one transaction that locks nothing it reads         *)

ReadLine(p) ==
    /\ At_(p, Totals)
    /\ proc' = [proc EXCEPT ![p].at = "void", ![p].seen = line]
    /\ UNCHANGED <<sale, lock, rev, faults>> /\ UNCHANGED world

\* What netPayments takes off each row: the on-account row first, none of a row this
\* reversal has stamped, and the whole amount again off the others.
Cuts_EachWhole(r) ==
    [w \in Row |-> IF rows[w].by = r THEN 0 ELSE Lesser(rev[r].qty, rows[w].amount)]

Cuts(r) ==
    LET Room(w) == IF rows[w].by = r THEN 0 ELSE rows[w].amount
        credit == Lesser(rev[r].qty, Room("on_account"))
    IN [w \in Row |-> IF w = "on_account" THEN credit ELSE Lesser(rev[r].qty - credit, Room("cash"))]

\* The line's update takes its row lock; a line that names this reversal is left alone.
VoidLine(p) ==
    LET r == proc[p].r IN
    /\ At(p, "void")
    /\ IF proc[p].seen.by = r THEN UNCHANGED lock ELSE lock = None /\ lock' = p
    /\ proc' = [proc EXCEPT ![p].at = "commit",
                            ![p].was = [w \in Row |-> rows[w].amount],
                            ![p].cut = IF rev[r].scope = "full" THEN Zero ELSE Cuts(r)]
    /\ UNCHANGED <<sale, rev, faults>> /\ UNCHANGED world

\* The amounts written are those of the rows as they were read.
Netted(p, w) ==
    IF proc[p].cut[w] = 0 THEN rows[w]
    ELSE [amount |-> proc[p].was[w] - proc[p].cut[w], by |-> proc[p].r, cut |-> proc[p].cut[w]]

Commit(p, o) ==
    LET r == proc[p].r IN
    /\ At(p, "commit")
    /\ IF o = "ok" THEN UNCHANGED faults ELSE Mishap
    /\ IF o = "failed"
       THEN UNCHANGED <<status, line, rows, voids>>
       ELSE /\ IF lock = p
               THEN /\ line' = [voided |-> proc[p].seen.voided + rev[r].qty, by |-> r]
                    /\ voids' = [voids EXCEPT ![r] = @ + 1]
               ELSE UNCHANGED <<line, voids>>
            /\ status' = IF rev[r].scope = "full" THEN "refunded" ELSE status
            /\ rows' = [w \in Row |-> Netted(p, w)]
    /\ lock' = IF lock = p THEN None ELSE lock
    /\ Marked(p, o = "ok")
    /\ UNCHANGED <<sale, rev, stock, books, notes, clawed>>

----------------------------------------------------------------------------
(* Steps 2 to 5: the other services, each idempotent under the reference    *)
(* it is given, and the points.  A call may fail, or succeed too late.      *)

Answer == {"ok", "late", "failed"}
Answered(o) == IF o = "ok" THEN UNCHANGED faults ELSE Fault

\* Nothing to put back counts as done.
ReverseStock(p, o) ==
    /\ At_(p, Inventory)
    /\ Answered(o)
    /\ stock' = IF sale.tracked /\ o # "failed" THEN stock \cup {proc[p].r} ELSE stock
    /\ Marked(p, o = "ok")
    /\ UNCHANGED <<sale, status, line, rows, lock, rev, voids, books, notes, clawed>>

\* cashNettedForReversal: what the stamps of this reversal say was cut off real payments.
CashNetted_AnyStamp(r) == Lesser(rev[r].qty, rows["cash"].cut)
CashNetted(r) == Lesser(rev[r].qty, IF rows["cash"].by = r THEN rows["cash"].cut ELSE 0)

\* One refund under the reversal's own id when one channel takes it all, else one per channel.
SplitGL(p) ==
    LET r == proc[p].r
        cash == CashNetted(r)
    IN
    /\ At_(p, TreasuryGL)
    /\ proc' = [proc EXCEPT ![p].cut = [w \in Row |-> IF w = "cash" THEN cash ELSE rev[r].qty - cash],
                            ![p].at = IF cash > 0 /\ cash < rev[r].qty THEN "post_cash" ELSE "post"]
    /\ UNCHANGED <<sale, lock, rev, faults>> /\ UNCHANGED world

Post(r, id, cash, ar) ==
    books' = IF id \in books[r].ids THEN books
             ELSE [books EXCEPT ![r] = [ids |-> @.ids \cup {id}, cash |-> @.cash + cash, ar |-> @.ar + ar]]

PostWhole(p, o) ==
    /\ At(p, "post")
    /\ Answered(o)
    /\ IF o = "failed" THEN UNCHANGED books
       ELSE Post(proc[p].r, "whole", proc[p].cut["cash"], proc[p].cut["on_account"])
    /\ Marked(p, o = "ok")
    /\ UNCHANGED <<sale, status, line, rows, lock, rev, voids, stock, notes, clawed>>

PostCash(p, o) ==
    /\ At(p, "post_cash")
    /\ Answered(o)
    /\ IF o = "failed" THEN UNCHANGED books ELSE Post(proc[p].r, "cash", proc[p].cut["cash"], 0)
    /\ IF o = "ok" THEN Goto(p, "post_ar") ELSE Marked(p, FALSE)
    /\ UNCHANGED <<sale, status, line, rows, lock, rev, voids, stock, notes, clawed>>

PostAR(p, o) ==
    /\ At(p, "post_ar")
    /\ Answered(o)
    /\ IF o = "failed" THEN UNCHANGED books ELSE Post(proc[p].r, "ar", 0, proc[p].cut["on_account"])
    /\ Marked(p, o = "ok")
    /\ UNCHANGED <<sale, status, line, rows, lock, rev, voids, stock, notes, clawed>>

\* Skipped only when the sale is known not to have reached KRA; an unreadable status raises the note.
RaiseNote(p, o, readable) ==
    LET skip == readable /\ ~sale.fiscalized IN
    /\ At_(p, EtimsNote)
    /\ IF skip THEN o = "ok" /\ UNCHANGED faults ELSE Answered(o)
    /\ notes' = IF ~skip /\ o # "failed" THEN notes \cup {proc[p].r} ELSE notes
    /\ Marked(p, o = "ok")
    /\ UNCHANGED <<sale, status, line, rows, lock, rev, voids, stock, books, clawed>>

\* Nothing here knows the reversal: a second run takes points again.  A partial reversal that
\* left the order no total takes none, and a failed half is logged and counts as done.
ClawBack(p, how) ==
    LET r == proc[p].r
        prorates == rev[r].scope = "full" \/ line.voided < Sold
    IN
    /\ At_(p, Loyalty)
    /\ \/ how = "taken" /\ prorates /\ clawed' = [clawed EXCEPT ![r] = @ + 1] /\ UNCHANGED faults
       \/ how = "skipped" /\ UNCHANGED clawed /\ IF prorates THEN Mishap ELSE UNCHANGED faults
       \/ how = "failed" /\ UNCHANGED clawed /\ Mishap
    /\ Marked(p, how # "failed")
    /\ UNCHANGED <<sale, status, line, rows, lock, rev, voids, stock, books, notes>>

----------------------------------------------------------------------------
Request(p) == \E r \in Rev :
    \/ Execute(p, r, "full", Sold)
    \/ \E want \in 1 .. Sold : Execute(p, r, "partial", want)

Calls(p) ==
    \E o \in Answer :
        \/ Commit(p, o) \/ ReverseStock(p, o)
        \/ PostWhole(p, o) \/ PostCash(p, o) \/ PostAR(p, o)
        \/ \E readable \in BOOLEAN : RaiseNote(p, o, readable)

\* What a request does by itself, all calls of it bounded by time limits.
Handler(p) ==
    \/ Create(p) \/ ReadLine(p) \/ VoidLine(p) \/ SplitGL(p) \/ Calls(p)
    \/ \E ok \in BOOLEAN : Persist(p, ok) \/ Finalize(p, ok)
    \/ \E how \in {"taken", "skipped", "failed"} : ClawBack(p, how)

Next == \E p \in Proc :
    Request(p) \/ (\E r \in Rev : Retry(p, r)) \/ Handler(p) \/ Crash(p)

Spec == Init /\ [][Next]_vars

\* Handlers run on; the operator goes on retrying a reversal that is not completed.
FairSpec ==
    /\ Spec
    /\ \A p \in Proc : WF_vars(Handler(p))
    /\ \A r \in Rev : WF_vars(\E p \in Proc : Retry(p, r))

----------------------------------------------------------------------------
(* Properties                                                               *)

Steps == [Step -> {"pending", "done", "failed"}]

TypeOK ==
    /\ sale \in Sales
    /\ status \in {"completed", "refunded"}
    /\ line \in [voided : Nat, by : Rev \cup {None}]
    /\ rows \in [Row -> [amount : Nat, by : Rev \cup {None}, cut : Nat]]
    /\ lock \in Proc \cup {None}
    /\ rev \in [Rev -> [status : {"none", "pending", "completed", "partial_failure", "failed"},
                        scope : {"none", "full", "partial"}, qty : Nat, steps : Steps]]
    /\ voids \in [Rev -> Nat] /\ clawed \in [Rev -> Nat]
    /\ stock \subseteq Rev /\ notes \subseteq Rev
    /\ books \in [Rev -> [ids : SUBSET {"whole", "cash", "ar"}, cash : Nat, ar : Nat]]
    /\ proc \in [Proc -> [at : {"idle", "create", "run", "void", "commit", "post", "post_cash", "post_ar",
                                "persist"},
                          r : Rev \cup {None}, scope : {"none", "full", "partial"}, qty : Nat,
                          k : 1 .. Finished, steps : Steps,
                          seen : [voided : Nat, by : Rev \cup {None}],
                          was : [Row -> Nat], cut : [Row -> Nat]]]
    /\ faults \in 0 .. MaxFaults

\* The effects the ledger's first four entries stand for, as far as this sale has them.
Owed == {Totals, Inventory, TreasuryGL, EtimsNote}

Has(r, k) ==
    \/ k = Totals /\ voids[r] > 0
    \/ k = Inventory /\ (~sale.tracked \/ r \in stock)
    \/ k = TreasuryGL /\ ("whole" \in books[r].ids \/ {"cash", "ar"} \subseteq books[r].ids)
    \/ k = EtimsNote /\ (~sale.fiscalized \/ r \in notes)

Landed(r) == { k \in Owed : Has(r, k) }

Amount == [r \in Rev |-> rev[r].qty]
Voided == { r \in Rev : voids[r] > 0 }

\* Whatever happens, also with requests overlapping, processes dying and answers lost, a
\* reversal its row reports completed has voided its lines, put the stock back, posted the
\* refund and raised the credit note (runSteps, finalizeStatus).
CompletedMeansDone ==
    \A r \in Rev : rev[r].status = "completed" => Owed \subseteq Landed(r)

\* One reversal at a time never takes more off a line than was sold and not returned, retried
\* or not, and the line counts each reversal's units once.
VoidsWhatWasSold ==
    Calm =>
        /\ line.voided + sale.returned <= Sold
        /\ line.voided = SumFunctionOnSet(Amount, Voided)

\* One reversal at a time, on a process and a database that hold: what the payment rows still hold
\* is what was paid less what the partial reversals took back, and nothing below zero (netPayments).
NetsOnce ==
    Calm =>
        LET paid == sale.paid["on_account"] + sale.paid["cash"]
            back == SumFunctionOnSet(Amount, { r \in Voided : rev[r].scope = "partial" })
        IN rows["on_account"].amount + rows["cash"].amount = Max({0, paid - back})

\* One reversal at a time, on a process and a database that hold: the treasury never posts more for
\* a reversal than its amount, and once all are completed it has posted each in full, as cash what
\* the till gave back.
BooksAgree ==
    Calm =>
        /\ \A r \in Rev : books[r].cash + books[r].ar <= rev[r].qty
        /\ (\A r \in Rev : rev[r].status \in {"none", "completed"}) =>
               /\ \A r \in Rev : books[r].cash + books[r].ar = rev[r].qty
               /\ SumFunction([r \in Rev |-> books[r].cash]) = sale.paid["cash"] - rows["cash"].amount

\* One reversal at a time, on a process and a database that hold, takes its points once, however
\* often it is retried.
PointsOnce == Calm => \A r \in Rev : clawed[r] <= 1

\* One reversal at a time: what its ledger says is done stays done, and completed is final.
DoneStays ==
    [][Calm => \A r \in Rev :
         /\ \A k \in Step : rev[r].steps[k] = "done" => rev'[r].steps[k] = "done"
         /\ rev[r].status = "completed" => rev'[r].status = "completed"]_vars

Ledger == INSTANCE ResumableSteps WITH
    Job <- Rev, Effects <- Owed,
    landed <- [r \in Rev |-> Landed(r)], report <- [r \in Rev |-> rev[r].status]

\* In every behaviour the ledgers keep the promise of resumable steps.
KeepsLedger == Ledger!Spec

\* Retried for as long as it takes, every reversal is completed in the end, whatever failed
\* and however the retries overlapped.
AllComplete == <>[](\A r \in Rev : rev[r].status \in {"none", "completed"})
=============================================================================
