--------------------------- MODULE SaleFinalized ---------------------------
(***************************************************************************)
(* How the completion of one order reaches treasury and inventory: the      *)
(* fan-out goroutine that completion starts, the outbox row it inserts, the *)
(* mark it then leaves in the order's metadata, and the reconciler that     *)
(* publishes again what was lost (internal/modules/payments/service.go and  *)
(* reconciler.go).  The outbox publisher is a library: it delivers a        *)
(* PENDING row and removes it, or gives up and leaves it FAILED.            *)
(*                                                                          *)
(* The order's metadata is one JSON column: whoever changes a key of it     *)
(* reads the whole and writes the whole.  A tick of the clock is the floor  *)
(* of the reconciler's scan; a fan-out or a request is over within it (30   *)
(* seconds), and so is all that goes without a fault.                       *)
(***************************************************************************)
EXTENDS Integers, Sequences

CONSTANTS
    Proc,       \* goroutines, over all replicas
    Floor,      \* age from which the scan takes an order (2 minutes)
    Window,     \* age up to which it does (24 hours)
    Period,     \* the reconciler runs once per period (5 minutes)
    MaxOpens,   \* bound on the completions of the order
    MaxNotes,   \* bound on the other changes of its metadata
    MaxFaults   \* bound on crashes, failing statements, outages and overruns

ASSUME FinalizedAssumption ==
    /\ Floor \in Nat \ {0} /\ Window \in Nat /\ Period \in Nat \ {0}
    /\ MaxOpens \in Nat /\ MaxNotes \in Nat /\ MaxFaults \in Nat

VARIABLES
    status,      \* the order row: "open" (any payable status) or "completed",
    meta,        \*   the keys set in its metadata,
    age,         \*   and the time since its updated_at
    rows,        \* the outbox rows ever inserted for it, in order
    sinceRun,    \* time since the reconciler last claimed a period
    proc,        \* proc[p]: what goroutine p is doing
    delivered,   \* history: deliveries of the event
    completions, notes, faults,
    exhausted,   \* history: rows given up
    clobbered    \* history: marks overwritten by another writer of the metadata

order   == <<status, meta, age>>
history == <<delivered, completions, notes, faults, exhausted, clobbered>>
vars    == <<order, rows, sinceRun, proc, history>>

Idle == [pc |-> "idle", kind |-> "fanout", meta |-> {}]

Init ==
    /\ status = "open" /\ meta = {} /\ age = 0
    /\ rows = << >>
    /\ sinceRun = 0
    /\ proc = [p \in Proc |-> Idle]
    /\ delivered = 0 /\ completions = 0 /\ notes = 0 /\ faults = 0
    /\ exhausted = 0 /\ clobbered = 0

At(p, l)   == proc[p].pc = l
Goto(p, l) == proc' = [proc EXCEPT ![p].pc = l]
Begin(p, k, l, m) == At(p, "idle") /\ proc' = [proc EXCEPT ![p] = [pc |-> l, kind |-> k, meta |-> m]]
End(p)     == proc' = [proc EXCEPT ![p] = Idle]
Fault      == faults < MaxFaults /\ faults' = faults + 1
NoFault    == UNCHANGED faults

----------------------------------------------------------------------------
(* The order                                                                *)

\* completeOrderIfFullyPaid claims the completion and dispatches; the process may die
\* in between.
Complete(p) ==
    /\ status = "open" /\ completions < MaxOpens
    /\ status' = "completed" /\ age' = 0
    /\ completions' = completions + 1
    /\ \/ Begin(p, "fanout", "insert", {}) /\ NoFault
       \/ UNCHANGED proc /\ Fault
    /\ UNCHANGED <<meta, rows, sinceRun, delivered, notes, exhausted, clobbered>>

\* UpdateStatus, and the delivery and lifecycle consumers, complete an order themselves
\* and dispatch nothing.
CompleteOutside ==
    /\ status = "open" /\ completions < MaxOpens
    /\ status' = "completed" /\ age' = 0
    /\ completions' = completions + 1
    /\ UNCHANGED <<meta, rows, sinceRun, proc, delivered, notes, faults, exhausted, clobbered>>

\* VoidPayment reopens an order that is no longer covered.
Reopen ==
    /\ status = "completed"
    /\ status' = "open" /\ age' = 0
    /\ UNCHANGED <<meta, rows, sinceRun, proc, history>>

\* Another operation reads the order to change a key of its metadata (a job update, a
\* credit settlement, a rider update).
BeginNote(p) ==
    /\ notes < MaxNotes
    /\ notes' = notes + 1
    /\ Begin(p, "note", "store", meta)
    /\ UNCHANGED <<order, rows, sinceRun, delivered, completions, faults, exhausted, clobbered>>

----------------------------------------------------------------------------
(* The reconciler                                                           *)

ClaimPeriod(p) ==
    /\ sinceRun = Period
    /\ sinceRun' = 0
    /\ Begin(p, "reconcile", "scan", {})
    /\ UNCHANGED <<order, rows, history>>

Eligible_NoFloor == status = "completed" /\ age <= Window
Eligible == status = "completed" /\ Floor <= age /\ age <= Window

ScanOrders(p) ==
    /\ At(p, "scan")
    /\ IF Eligible
         THEN proc' = [proc EXCEPT ![p].pc = "judge", ![p].meta = meta]
         ELSE End(p)
    /\ UNCHANGED <<order, rows, sinceRun, history>>

FailedRows == {i \in DOMAIN rows : rows[i].st = "FAILED" /\ rows[i].age <= Window}

MustPublish_MissingOnly(p) == "published" \notin proc[p].meta
MustPublish(p)             == FailedRows # {} \/ "published" \notin proc[p].meta

Judge(p) ==
    /\ At(p, "judge")
    /\ IF MustPublish(p) THEN Goto(p, "insert") ELSE End(p)
    /\ UNCHANGED <<order, rows, sinceRun, history>>

----------------------------------------------------------------------------
(* publishSaleFinalized, of the fan-out and of the reconciler               *)

Inserted == Append(rows, [st |-> "PENDING", age |-> 0])

Insert(p) ==
    /\ At(p, "insert")
    /\ rows' = Inserted
    /\ Goto(p, "reload")
    /\ UNCHANGED <<order, sinceRun, history>>

\* The transaction fails, perhaps after it committed: no mark is left.
AfterFailure_Marked == "reload"
AfterFailure        == "idle"

InsertFails(p) ==
    /\ At(p, "insert")
    /\ Fault
    /\ rows' \in {rows, Inserted}
    /\ Goto(p, AfterFailure)
    /\ UNCHANGED <<order, sinceRun, delivered, completions, notes, exhausted, clobbered>>

\* stampSaleFinalizedPublished loads the order anew ...
Reload(p) ==
    /\ At(p, "reload")
    /\ proc' = [proc EXCEPT ![p].pc = "store", ![p].meta = meta]
    /\ UNCHANGED <<order, rows, sinceRun, history>>

\* ... and stores the metadata it read with its own key added, as every writer does.
KeyOf(p)        == IF proc[p].kind = "note" THEN "note" ELSE "published"

Store(p) ==
    /\ At(p, "store")
    /\ meta' = proc[p].meta \cup {KeyOf(p)}
    /\ age' = 0
    /\ clobbered' = clobbered + IF "published" \in meta \ meta' THEN 1 ELSE 0
    /\ End(p)
    /\ UNCHANGED <<status, rows, sinceRun, delivered, completions, notes, faults, exhausted>>

\* The process dies, the 30 seconds are over, or a query fails.
Abandon(p) ==
    /\ ~At(p, "idle")
    /\ Fault
    /\ End(p)
    /\ UNCHANGED <<order, rows, sinceRun, delivered, completions, notes, exhausted, clobbered>>

----------------------------------------------------------------------------
(* The outbox publisher, and time                                           *)

\* A delivered row is removed; a crash before that delivers it again.
Deliver(i) ==
    /\ rows[i].st = "PENDING"
    /\ delivered' = delivered + 1
    /\ \/ rows' = [rows EXCEPT ![i] = [st |-> "gone", age |-> 0]] /\ NoFault
       \/ UNCHANGED rows /\ Fault
    /\ UNCHANGED <<order, sinceRun, proc, completions, notes, exhausted, clobbered>>

\* The broker is away for all the attempts the publisher makes.
Exhaust(i) ==
    /\ rows[i].st = "PENDING"
    /\ Fault
    /\ rows' = [rows EXCEPT ![i].st = "FAILED"]
    /\ exhausted' = exhausted + 1
    /\ UNCHANGED <<order, sinceRun, proc, delivered, completions, notes, clobbered>>

Older(t) == IF t > Window THEN t ELSE t + 1
AgedRow(r) == IF r.st = "gone" THEN r ELSE [r EXCEPT !.age = Older(@)]

\* A run that overruns its tick, a row left waiting and a period without a run are faults.
Overdue ==
    \/ sinceRun = Period
    \/ \E p \in Proc : ~At(p, "idle")
    \/ \E i \in DOMAIN rows : rows[i].st = "PENDING"

Tick ==
    /\ \A p \in Proc : At(p, "idle") \/ proc[p].kind = "reconcile"
    /\ IF Overdue THEN Fault ELSE NoFault
    /\ age' = Older(age)
    /\ rows' = [i \in DOMAIN rows |-> AgedRow(rows[i])]
    /\ sinceRun' = IF sinceRun = Period THEN Period ELSE sinceRun + 1
    /\ UNCHANGED <<status, meta, proc, delivered, completions, notes, exhausted, clobbered>>

----------------------------------------------------------------------------
Work(p) == ScanOrders(p) \/ Judge(p) \/ Insert(p) \/ Reload(p) \/ Store(p)
Send    == \E i \in DOMAIN rows : Deliver(i)

Next ==
    \/ \E p \in Proc :
          \/ Complete(p) \/ BeginNote(p) \/ ClaimPeriod(p)
          \/ Work(p) \/ InsertFails(p) \/ Abandon(p)
    \/ CompleteOutside \/ Reopen
    \/ Send \/ (\E i \in DOMAIN rows : Exhaust(i))
    \/ Tick

Spec == Init /\ [][Next]_vars

\* Goroutines run, the outbox publisher polls, the reconciler's ticker fires and time
\* passes; faults are finitely many.
FairSpec ==
    /\ Spec
    /\ \A p \in Proc : WF_vars(Work(p))
    /\ WF_vars(Send)
    /\ WF_vars(\E p \in Proc : ClaimPeriod(p))
    /\ WF_vars(Tick)

----------------------------------------------------------------------------
(* Properties                                                               *)

Keys == {"published", "note"}
Row == [st : {"PENDING", "FAILED", "gone"}, age : Nat]
Activity == [pc : {"idle", "scan", "judge", "insert", "reload", "store"},
             kind : {"fanout", "reconcile", "note"}, meta : SUBSET Keys]

\* Type invariant.
TypeOK ==
    /\ status \in {"open", "completed"}
    /\ meta \subseteq Keys
    /\ age \in Nat /\ sinceRun \in 0 .. Period
    /\ rows \in Seq(Row)
    /\ proc \in [Proc -> Activity]
    /\ delivered \in Nat /\ completions \in Nat /\ notes \in Nat /\ faults \in Nat
    /\ exhausted \in Nat /\ clobbered \in Nat

\* The mark the reconciler goes by never lies: a marked order's event was delivered, or
\* waits in the outbox, or failed there for the reconciler to see.
MarkIsTrue ==
    "published" \in meta =>
        delivered > 0 \/ \E i \in DOMAIN rows : rows[i].st \in {"PENDING", "FAILED"}

\* The inductive strengthening of MarkIsTrue: nobody holds the mark, or is about to set
\* it, before a row was inserted, and a row only disappears by being delivered.
AboutToMark(p) == proc[p].pc \in {"reload", "store"} /\ proc[p].kind # "note"
MarkInv ==
    /\ \A i \in DOMAIN rows : rows[i].st = "gone" => delivered > 0
    /\ "published" \in meta => rows # << >>
    /\ \A p \in Proc : "published" \in proc[p].meta \/ AboutToMark(p) => rows # << >>

\* As long as no row was given up, an event is inserted once per completion, and once more
\* only for a fault or a mark that another writer of the metadata overwrote: the
\* reconciler never races a fan-out that is still under way.
RedundancyIsPaid ==
    exhausted = 0 => Len(rows) <= completions + faults + clobbered

\* A sale that was completed reaches the other services whatever was lost on the way,
\* unless it is reopened first. (Completed again, it may not: its old mark stays.)
SaleReaches ==
    (status = "completed" /\ completions = 1 /\ delivered = 0)
        ~> (status # "completed" \/ delivered > 0)

\* "this query reliably finds genuine, still-unresolved failures": the reconciler does not
\* go on publishing a marked sale that was delivered after its row had failed.
FailureResolved ==
    [][\A p \in Proc :
          At(p, "judge") /\ proc'[p].pc = "insert" /\ "published" \in proc[p].meta
            => rows[Len(rows)].st # "gone"]_vars

\* "merges onto whatever metadata another concurrent writer already set, instead of
\* clobbering it". It does not hold: a key set between Reload and Store is lost.
NotesKept ==
    faults = 0 /\ (\A p \in Proc : proc[p].kind # "note") /\ notes > 0 => "note" \in meta

\* "closing the crash window between the completion UPDATE and the outbox insert": once
\* everything is quiet, each completion has been published. It does not hold: after a
\* reopening the mark of the first completion hides the lost fan-out of the second.
EveryCompletionPublished ==
    <>[](status = "completed") => <>[](Len(rows) >= completions)
=============================================================================
