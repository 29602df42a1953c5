------------------------- MODULE SaleFinalizedProofs -------------------------
(***************************************************************************)
(* Type correctness of the publication of a sale, that the mark in the      *)
(* order's metadata never lies, and that a sale is published again only for *)
(* a fault or an overwritten mark, for any number of goroutines,            *)
(* completions, faults and metadata writers.                                *)
(***************************************************************************)
EXTENDS SaleFinalized, SequenceTheorems, FiniteSetTheorems, TLAPS

\* A goroutine that moves on, begins or ends is still a goroutine.
LEMMA ActivityMoved ==
    ASSUME NEW s \in Activity, NEW M \in SUBSET Keys,
           NEW l \in {"idle", "scan", "judge", "insert", "reload", "store"}
    PROVE  /\ [s EXCEPT !.pc = l] \in Activity
           /\ [[s EXCEPT !.pc = l] EXCEPT !.meta = M] \in Activity
           /\ Idle \in Activity
BY DEF Activity, Idle

LEMMA ActivitiesMoved ==
    ASSUME proc \in [Proc -> Activity]
    PROVE  /\ Idle \in Activity
           /\ \A p \in Proc : \A M \in SUBSET Keys :
                 \A l \in {"idle", "scan", "judge", "insert", "reload", "store"} :
                    /\ [proc[p] EXCEPT !.pc = l] \in Activity
                    /\ [[proc[p] EXCEPT !.pc = l] EXCEPT !.meta = M] \in Activity
                    /\ \A k \in {"fanout", "reconcile", "note"} :
                          [pc |-> l, kind |-> k, meta |-> M] \in Activity
<1>1. Idle \in Activity
  BY DEF Activity, Idle
<1>2. ASSUME NEW p \in Proc, NEW M \in SUBSET Keys,
             NEW l \in {"idle", "scan", "judge", "insert", "reload", "store"}
      PROVE  /\ [proc[p] EXCEPT !.pc = l] \in Activity
             /\ [[proc[p] EXCEPT !.pc = l] EXCEPT !.meta = M] \in Activity
  BY ActivityMoved
<1>3. ASSUME NEW M \in SUBSET Keys, NEW l \in {"idle", "scan", "judge", "insert", "reload", "store"},
             NEW k \in {"fanout", "reconcile", "note"}
      PROVE  [pc |-> l, kind |-> k, meta |-> M] \in Activity
  BY DEF Activity
<1> QED BY <1>1, <1>2, <1>3

\* Rows stay rows as they are inserted, sent, given up and age.
LEMMA RowsKept ==
    ASSUME NEW R \in Seq(Row)
    PROVE  /\ Append(R, [st |-> "PENDING", age |-> 0]) \in Seq(Row)
           /\ \A i \in DOMAIN R :
                 /\ [R EXCEPT ![i] = [st |-> "gone", age |-> 0]] \in Seq(Row)
                 /\ [R EXCEPT ![i].st = "FAILED"] \in Seq(Row)
           /\ [i \in DOMAIN R |-> AgedRow(R[i])] \in Seq(Row)
<1>1. /\ [st |-> "PENDING", age |-> 0] \in Row
      /\ [st |-> "gone", age |-> 0] \in Row
  BY DEF Row
<1>2. Append(R, [st |-> "PENDING", age |-> 0]) \in Seq(Row)
  BY <1>1
<1>3. ASSUME NEW i \in DOMAIN R
      PROVE  /\ [R EXCEPT ![i] = [st |-> "gone", age |-> 0]] \in Seq(Row)
             /\ [R EXCEPT ![i].st = "FAILED"] \in Seq(Row)
  <2>1. R[i] \in Row
    BY ElementOfSeq, <1>3
  <2> PICK v : v = [R[i] EXCEPT !.st = "FAILED"]
    OBVIOUS
  <2>2. v \in Row
    BY <2>1 DEF Row
  <2>3. \A w \in Row : [R EXCEPT ![i] = w] \in Seq(Row)
    BY <1>3, ExceptSeq
  <2>4. [R EXCEPT ![i].st = "FAILED"] = [R EXCEPT ![i] = v]
    BY <1>3
  <2> QED BY <1>1, <2>2, <2>3, <2>4
<1>4. [i \in DOMAIN R |-> AgedRow(R[i])] \in Seq(Row)
  <2>1. \A i \in 1 .. Len(R) : R[i] \in Row
    BY ElementOfSeq
  <2>2. ASSUME NEW r \in Row PROVE AgedRow(r) \in Row
    <3>1. Older(r.age) \in Nat /\ r \in Row
      BY FinalizedAssumption DEF Older, Row
    <3> QED BY <3>1 DEF AgedRow, Row
  <2>3. [i \in 1 .. Len(R) |-> AgedRow(R[i])] \in [1 .. Len(R) -> Row]
    BY <2>1, <2>2
  <2>4. DOMAIN R = 1 .. Len(R) /\ Len(R) \in Nat
    OBVIOUS
  <2> QED BY <2>3, <2>4, IsASeq
<1> QED BY <1>2, <1>3, <1>4

\* Counters only grow, and ages stop at the window.
LEMMA Counting ==
    ASSUME NEW n \in Nat
    PROVE  /\ n + 1 \in Nat /\ Older(n) \in Nat
           /\ n \in 0 .. Period /\ n # Period => n + 1 \in 0 .. Period
BY FinalizedAssumption DEF Older

\* The order, its rows, the goroutines and the counters are always of their types.
THEOREM TypeCorrect == Spec => []TypeOK
<1>1. Init => TypeOK
  BY FinalizedAssumption DEF Init, TypeOK, Idle, Activity
<1>2. TypeOK /\ [Next]_vars => TypeOK'
  <2> SUFFICES ASSUME TypeOK, [Next]_vars
               PROVE  TypeOK'
    OBVIOUS
  <2> USE DEF TypeOK, order, history, NoFault, Fault, End, Goto, Begin, At
  <2>0. /\ Idle \in Activity
        /\ \A p \in Proc : \A M \in SUBSET Keys :
              \A l \in {"idle", "scan", "judge", "insert", "reload", "store"} :
                 /\ [proc[p] EXCEPT !.pc = l] \in Activity
                 /\ [[proc[p] EXCEPT !.pc = l] EXCEPT !.meta = M] \in Activity
                 /\ \A k \in {"fanout", "reconcile", "note"} :
                       [pc |-> l, kind |-> k, meta |-> M] \in Activity
    BY ActivitiesMoved
  <2>1. ASSUME NEW p \in Proc, Complete(p) PROVE TypeOK'
    <3>1. status' = "completed" /\ age' = 0 /\ completions' = completions + 1
          /\ UNCHANGED <<meta, rows, sinceRun, delivered, notes, exhausted, clobbered>>
      BY <2>1 DEF Complete
    <3>2. proc' \in [Proc -> Activity]
      BY <2>1, <2>0 DEF Complete
    <3>3. faults' \in Nat
      BY <2>1, Counting DEF Complete
    <3> QED BY <3>1, <3>2, <3>3, Counting
  <2>2. CASE CompleteOutside
    BY <2>2, Counting DEF CompleteOutside
  <2>3. CASE Reopen
    BY <2>3 DEF Reopen
  <2>4. ASSUME NEW p \in Proc, BeginNote(p) PROVE TypeOK'
    BY <2>4, <2>0, Counting DEF BeginNote
  <2>5. ASSUME NEW p \in Proc, ClaimPeriod(p) PROVE TypeOK'
    <3>1. 0 \in 0 .. Period
      BY FinalizedAssumption
    <3>2. [pc |-> "scan", kind |-> "reconcile", meta |-> {}] \in Activity
      BY <2>0
    <3> QED BY <2>5, <3>1, <3>2 DEF ClaimPeriod
  <2>6. ASSUME NEW p \in Proc, ScanOrders(p) PROVE TypeOK'
    <3>1. [[proc[p] EXCEPT !.pc = "judge"] EXCEPT !.meta = meta] \in Activity
      BY <2>0
    <3>2. proc' \in [Proc -> Activity]
      <4>1. CASE Eligible
        BY <2>6, <4>1, <3>1 DEF ScanOrders
      <4>2. CASE ~Eligible
        BY <2>6, <4>2, <2>0 DEF ScanOrders
      <4> QED BY <4>1, <4>2
    <3> QED BY <2>6, <3>2 DEF ScanOrders
  <2>7. ASSUME NEW p \in Proc, Judge(p) PROVE TypeOK'
    BY <2>7, <2>0 DEF Judge
  <2>8. ASSUME NEW p \in Proc, Insert(p) PROVE TypeOK'
    BY <2>8, <2>0, RowsKept DEF Insert, Inserted
  <2>9. ASSUME NEW p \in Proc, InsertFails(p) PROVE TypeOK'
    BY <2>9, <2>0, RowsKept, Counting DEF InsertFails, Inserted, AfterFailure
  <2>10. ASSUME NEW p \in Proc, Reload(p) PROVE TypeOK'
    BY <2>10, <2>0 DEF Reload
  <2>11. ASSUME NEW p \in Proc, Store(p) PROVE TypeOK'
    <3>1. proc[p].meta \subseteq Keys /\ KeyOf(p) \in Keys
      BY DEF Activity, KeyOf, Keys
    <3>2. clobbered' \in Nat
      BY <2>11 DEF Store
    <3> QED BY <2>11, <2>0, <3>1, <3>2 DEF Store
  <2>12. ASSUME NEW p \in Proc, Abandon(p) PROVE TypeOK'
    BY <2>12, <2>0, Counting DEF Abandon
  <2>13. ASSUME NEW i \in DOMAIN rows, Deliver(i) PROVE TypeOK'
    BY <2>13, RowsKept, Counting DEF Deliver
  <2>14. ASSUME NEW i \in DOMAIN rows, Exhaust(i) PROVE TypeOK'
    BY <2>14, RowsKept, Counting DEF Exhaust
  <2>15. CASE Tick
    <3>1. rows' \in Seq(Row)
      BY <2>15, RowsKept DEF Tick
    <3>2. age' \in Nat /\ faults' \in Nat
      BY <2>15, Counting DEF Tick
    <3>3. sinceRun' \in 0 .. Period
      BY <2>15, FinalizedAssumption DEF Tick
    <3> QED BY <2>15, <3>1, <3>2, <3>3 DEF Tick
  <2>16. CASE UNCHANGED vars
    BY <2>16 DEF vars
  <2> QED
    BY <2>1, <2>2, <2>3, <2>4, <2>5, <2>6, <2>7, <2>8, <2>9, <2>10, <2>11, <2>12, <2>13,
       <2>14, <2>15, <2>16 DEF Next, Work, Send
<1> QED BY <1>1, <1>2, PTL DEF Spec

----------------------------------------------------------------------------
(* A step that inserts, removes and marks nothing keeps MarkInv.             *)
LEMMA MarkUntouched ==
    ASSUME MarkInv, UNCHANGED <<rows, delivered>>, meta' \subseteq meta,
           \A p \in Proc :
              \/ proc'[p].meta \subseteq meta /\ ~AboutToMark(p)'
              \/ proc'[p] = proc[p]
    PROVE  MarkInv'
<1>1. \A i \in DOMAIN rows' : rows'[i].st = "gone" => delivered' > 0
  BY DEF MarkInv
<1>2. "published" \in meta' => rows' # << >>
  BY DEF MarkInv
<1>3. \A p \in Proc : "published" \in proc'[p].meta \/ AboutToMark(p)' => rows' # << >>
  BY DEF MarkInv, AboutToMark
<1> QED BY <1>1, <1>2, <1>3 DEF MarkInv

\* Once a row was inserted, MarkInv only asks that rows vanish by being delivered.
LEMMA RowsSuffice ==
    ASSUME rows' # << >>, \A i \in DOMAIN rows' : rows'[i].st = "gone" => delivered' > 0
    PROVE  MarkInv'
BY DEF MarkInv

\* Inserting a row keeps the rows there were.
LEMMA RowInserted ==
    ASSUME TypeOK, MarkInv, rows' = Inserted, UNCHANGED delivered
    PROVE  MarkInv'
<1>1. /\ Inserted \in Seq(Row) /\ Len(Inserted) = Len(rows) + 1
      /\ Inserted[Len(rows) + 1].st = "PENDING"
      /\ \A i \in DOMAIN rows : Inserted[i] = rows[i]
      /\ DOMAIN Inserted = DOMAIN rows \cup {Len(rows) + 1}
  BY DEF TypeOK, Inserted, Row
<1>2. rows' # << >>
  BY <1>1 DEF TypeOK
<1>3. \A i \in DOMAIN rows' : rows'[i].st = "gone" => delivered' > 0
  BY <1>1 DEF MarkInv
<1> QED BY <1>2, <1>3, RowsSuffice

\* Whoever marks an order, or carries the mark, follows an inserted row, and rows leave the outbox
\* only by being delivered, however fan-outs, reconcilers, other writers of the metadata, faults
\* and the outbox publisher interleave.
THEOREM MarksFollowRows == Spec => []MarkInv
<1>1. Init => MarkInv
  BY DEF Init, MarkInv, AboutToMark, Idle
<1>2. TypeOK /\ MarkInv /\ [Next]_vars => MarkInv'
  <2> SUFFICES ASSUME TypeOK, MarkInv, [Next]_vars
               PROVE  MarkInv'
    OBVIOUS
  <2> USE DEF order, history, At, AboutToMark
  <2>0. proc \in [Proc -> Activity] /\ rows \in Seq(Row) /\ delivered \in Nat
    BY DEF TypeOK
  <2>1. ASSUME NEW p \in Proc, Complete(p) PROVE MarkInv'
    BY <2>0, <2>1, MarkUntouched DEF Complete, Begin
  <2>2. CASE CompleteOutside
    BY <2>2, MarkUntouched DEF CompleteOutside
  <2>3. CASE Reopen
    BY <2>3, MarkUntouched DEF Reopen
  <2>4. ASSUME NEW p \in Proc, BeginNote(p) PROVE MarkInv'
    BY <2>0, <2>4, MarkUntouched DEF BeginNote, Begin
  <2>5. ASSUME NEW p \in Proc, ClaimPeriod(p) PROVE MarkInv'
    BY <2>0, <2>5, MarkUntouched DEF ClaimPeriod, Begin
  <2>6. ASSUME NEW p \in Proc, ScanOrders(p) PROVE MarkInv'
    <3>1. [proc[p] EXCEPT !.pc = "judge", !.meta = meta].pc = "judge"
      BY <2>0 DEF Activity
    <3>2. [proc[p] EXCEPT !.pc = "judge", !.meta = meta].meta = meta
      BY <2>0 DEF Activity
    <3>3. \A q \in Proc : q # p => proc'[q] = proc[q]
      BY <2>0, <2>6 DEF ScanOrders, End
    <3>4. \/ proc'[p].pc = "judge" /\ proc'[p].meta = meta
          \/ proc'[p] = Idle
      BY <2>0, <2>6, <3>1, <3>2 DEF ScanOrders, End, Activity
    <3> QED BY <2>6, <3>3, <3>4, MarkUntouched DEF ScanOrders, Idle
  <2>7. ASSUME NEW p \in Proc, Judge(p) PROVE MarkInv'
    <3>1. \A q \in Proc : q # p => proc'[q] = proc[q]
      BY <2>0, <2>7 DEF Judge, Goto, End
    <3>2. \/ proc'[p].pc = "insert" /\ proc'[p].meta = proc[p].meta
          \/ proc'[p] = Idle
      BY <2>0, <2>7 DEF Judge, Goto, End, Activity
    <3> QED BY <2>7, <3>1, <3>2 DEF Judge, Idle, MarkInv
  <2>8. ASSUME NEW p \in Proc, Insert(p) PROVE MarkInv'
    BY <2>8, RowInserted DEF Insert
  <2>9. ASSUME NEW p \in Proc, InsertFails(p) PROVE MarkInv'
    <3>1. CASE rows' = Inserted
      BY <2>9, <3>1, RowInserted DEF InsertFails
    <3>2. CASE rows' = rows
      <4>1. \A q \in Proc : q # p => proc'[q] = proc[q]
        BY <2>0, <2>9 DEF InsertFails, Goto
      <4>2. proc'[p].pc = "idle" /\ proc'[p].meta = proc[p].meta
        BY <2>0, <2>9 DEF InsertFails, Goto, Activity, AfterFailure
      <4> QED BY <2>9, <3>2, <4>1, <4>2 DEF InsertFails, MarkInv
    <3> QED BY <2>9, <3>1, <3>2 DEF InsertFails
  <2>10. ASSUME NEW p \in Proc, Reload(p) PROVE MarkInv'
    <3>1. \A q \in Proc : q # p => proc'[q] = proc[q]
      BY <2>0, <2>10 DEF Reload
    <3>2. proc'[p].meta = meta /\ proc'[p].kind = proc[p].kind /\ proc[p].pc = "reload"
      BY <2>0, <2>10 DEF Reload, Activity
    <3>3. UNCHANGED <<meta, rows, delivered>>
      BY <2>10 DEF Reload
    <3>4. CASE rows # << >>
      BY <3>3, <3>4, RowsSuffice DEF MarkInv
    <3>5. CASE rows = << >>
      <4>1. "published" \notin meta /\ proc[p].kind = "note"
        BY <3>2, <3>5 DEF MarkInv
      <4> QED BY <3>1, <3>2, <3>3, <4>1 DEF MarkInv
    <3> QED BY <3>4, <3>5
  <2>11. ASSUME NEW p \in Proc, Store(p) PROVE MarkInv'
    <3>1. "published" \in meta' => rows' # << >>
      <4>1. rows' = rows /\ meta' = proc[p].meta \cup {KeyOf(p)} /\ proc[p].pc = "store"
        BY <2>11 DEF Store
      <4>2. CASE proc[p].kind = "note"
        <5>1. KeyOf(p) # "published"
          BY <4>2 DEF KeyOf
        <5> QED BY <4>1, <5>1 DEF MarkInv
      <4>3. CASE proc[p].kind # "note"
        BY <4>1, <4>3 DEF MarkInv
      <4> QED BY <4>2, <4>3
    <3>2. \A q \in Proc : proc'[q] = proc[q] \/ proc'[q] = Idle
      BY <2>0, <2>11 DEF Store, End
    <3> QED BY <2>11, <3>1, <3>2 DEF Store, MarkInv, Idle
  <2>12. ASSUME NEW p \in Proc, Abandon(p) PROVE MarkInv'
    BY <2>0, <2>12, MarkUntouched DEF Abandon, End, Idle
  <2>13. ASSUME NEW i \in DOMAIN rows, Deliver(i) PROVE MarkInv'
    <3>1. rows # << >> /\ DOMAIN rows' = DOMAIN rows /\ delivered' > 0
      BY <2>0, <2>13 DEF Deliver
    <3>2. rows' # << >>
      BY <2>0, <3>1
    <3> QED BY <3>1, <3>2, RowsSuffice
  <2>14. ASSUME NEW i \in DOMAIN rows, Exhaust(i) PROVE MarkInv'
    <3>1. rows # << >> /\ DOMAIN rows' = DOMAIN rows
      BY <2>0, <2>14 DEF Exhaust
    <3>2. rows' # << >>
      BY <2>0, <3>1
    <3>3. rows[i] \in Row
      BY <2>0, ElementOfSeq
    <3>4. \A k \in DOMAIN rows : k # i => rows'[k] = rows[k]
      BY <2>0, <2>14 DEF Exhaust
    <3>5. rows'[i].st = "FAILED"
      BY <2>0, <2>14, <3>3 DEF Exhaust, Row
    <3> QED BY <2>14, <3>1, <3>2, <3>4, <3>5, RowsSuffice DEF Exhaust, MarkInv
  <2>15. CASE Tick
    <3>1. UNCHANGED <<meta, proc, delivered>> /\ DOMAIN rows' = DOMAIN rows
      BY <2>15 DEF Tick
    <3>2. \A i \in DOMAIN rows : rows'[i].st = rows[i].st
      <4> TAKE i \in DOMAIN rows
      <4>1. rows[i] \in Row
        BY <2>0, ElementOfSeq
      <4>2. rows'[i] = AgedRow(rows[i])
        BY <2>15 DEF Tick
      <4> QED BY <4>1, <4>2 DEF AgedRow, Row
    <3>3. rows # << >> => rows' # << >>
      BY <2>0, <3>1
    <3> QED BY <3>1, <3>2, <3>3 DEF MarkInv
  <2>16. CASE UNCHANGED vars
    BY <2>16, MarkUntouched DEF vars
  <2> QED
    BY <2>1, <2>2, <2>3, <2>4, <2>5, <2>6, <2>7, <2>8, <2>9, <2>10, <2>11, <2>12, <2>13,
       <2>14, <2>15, <2>16 DEF Next, Work, Send
<1> QED BY <1>1, <1>2, TypeCorrect, PTL DEF Spec

\* A marked order's event was delivered, or is still in the outbox.
THEOREM MarkStaysTrue == Spec => []MarkIsTrue
<1>1. TypeOK /\ MarkInv => MarkIsTrue
  <2> SUFFICES ASSUME TypeOK, MarkInv, "published" \in meta
               PROVE  delivered > 0 \/ \E i \in DOMAIN rows : rows[i].st \in {"PENDING", "FAILED"}
    BY DEF MarkIsTrue
  <2>1. rows # << >> /\ rows \in Seq(Row)
    BY DEF MarkInv, TypeOK
  <2>2. 1 \in DOMAIN rows
    BY <2>1
  <2>3. rows[1].st \in {"PENDING", "FAILED", "gone"}
    <3>1. rows[1] \in Row
      BY <2>1, <2>2, ElementOfSeq
    <3> QED BY <3>1 DEF Row
  <2> QED BY <2>2, <2>3 DEF MarkInv
<1> QED BY <1>1, MarksFollowRows, TypeCorrect, PTL

----------------------------------------------------------------------------
(* What the rows are paid with: a count of the rows there are, of those     *)
(* whose insertion is under way, and of those still to be expected.          *)

Bit(b) == IF b THEN 1 ELSE 0

\* Goroutine p is about to insert; scans; is a reconciler that may mark the order; is a fan-out.
Inserts(p) == proc[p].pc = "insert" \/ (proc[p].pc = "judge" /\ "published" \notin proc[p].meta)
Scans(p)   == proc[p].pc = "scan"
Marks(p)   == proc[p].kind = "reconcile" /\ (Inserts(p) \/ proc[p].pc \in {"reload", "store"})
Fans(p)    == proc[p].kind = "fanout" /\ proc[p].pc # "idle"

Inserting == {p \in Proc : Inserts(p)}
Scanning  == {p \in Proc : Scans(p)}
NoMarker  == \A p \in Proc : ~Marks(p)
NoScanner == \A p \in Proc : ~Scans(p)

\* The next reconciler that scans will publish, if it finds the order old enough.
Owes == status = "completed" /\ "published" \notin meta /\ \A p \in Proc : ~Fans(p)

\* A reconciler that scans while another is under way was paid for by the tick the other
\* outlived: so is the next one, once a tick has passed since the last began.
Stored  == Len(rows)
Coming  == Cardinality(Inserting)
Looking == Cardinality(Scanning)
Later   == Bit(sinceRun # 0 /\ ~(NoMarker /\ NoScanner))
Missing == Bit(NoMarker /\ Owes)
Free    == Bit(NoMarker /\ ~NoScanner)

Dues == Stored + Coming + Looking + Later + Missing - Free
Paid == completions + faults + clobbered

\* A fan-out is over before the clock ticks, and each kind of goroutine has its own steps.
Roles(p) ==
    /\ proc[p].kind = "fanout" => proc[p].pc \in {"idle", "insert", "reload", "store"} /\ (Fans(p) => age = 0)
    /\ proc[p].kind = "note" => proc[p].pc \in {"idle", "store"}
RolesInv == \A p \in Proc : Roles(p)

NoneFailed == \A i \in DOMAIN rows : rows[i].st # "FAILED"
DuesInv ==
    /\ IsFiniteSet(Inserting) /\ IsFiniteSet(Scanning)
    /\ exhausted = 0 => NoneFailed /\ Dues <= Paid

LEMMA RolesStay == Spec => []RolesInv
<1>1. Init => RolesInv
  <2> SUFFICES ASSUME Init, NEW p \in Proc PROVE Roles(p)
    BY DEF RolesInv
  <2>1. proc[p].pc = "idle" /\ proc[p].kind = "fanout"
    BY DEF Init, Idle
  <2> QED BY <2>1 DEF Roles, Fans
<1>2. TypeOK /\ RolesInv /\ [Next]_vars => RolesInv'
  <2> SUFFICES ASSUME TypeOK, RolesInv, [Next]_vars, NEW q \in Proc PROVE Roles(q)'
    BY DEF RolesInv
  <2> USE DEF Fans, At
  <2>0. proc \in [Proc -> Activity] /\ Roles(q) /\ proc[q] \in Activity
    BY DEF TypeOK, RolesInv
  <2>1. ASSUME NEW p \in Proc, Complete(p) PROVE Roles(q)'
    BY <2>0, <2>1 DEF Complete, Begin, Roles
  <2>2. ASSUME CompleteOutside \/ Reopen PROVE Roles(q)'
    BY <2>0, <2>2 DEF CompleteOutside, Reopen, Roles
  <2>3. ASSUME NEW p \in Proc, BeginNote(p) PROVE Roles(q)'
    BY <2>0, <2>3 DEF BeginNote, Begin, Roles, order
  <2>4. ASSUME NEW p \in Proc, ClaimPeriod(p) PROVE Roles(q)'
    BY <2>0, <2>4 DEF ClaimPeriod, Begin, Roles, order
  <2>5. ASSUME NEW p \in Proc, ScanOrders(p) \/ Judge(p) \/ Insert(p) \/ Reload(p) \/ Store(p)
                                \/ InsertFails(p) \/ Abandon(p)
        PROVE  Roles(q)'
    <3>1. age' = age \/ age' = 0
      BY <2>5 DEF ScanOrders, Judge, Insert, Reload, Store, InsertFails, Abandon, order
    <3>2. CASE p # q
      <4>1. proc'[q] = proc[q]
        BY <2>0, <2>5, <3>2 DEF ScanOrders, Judge, Insert, Reload, Store, InsertFails, Abandon, End, Goto
      <4> QED BY <2>0, <3>1, <4>1 DEF Roles
    <3>3. CASE p = q
      <4>1. \/ proc'[q] = Idle
            \/ proc'[q].kind = proc[q].kind
               /\ \/ proc[q].pc \in {"scan", "judge"} /\ proc'[q].pc \in {"judge", "insert"}
                  \/ proc[q].pc = "insert" /\ proc'[q].pc \in {"reload", "idle"}
                  \/ proc[q].pc = "reload" /\ proc'[q].pc = "store"
        <5>1. CASE ScanOrders(p)
          BY <2>0, <3>3, <5>1 DEF ScanOrders, End, Activity
        <5>2. CASE Judge(p)
          BY <2>0, <3>3, <5>2 DEF Judge, End, Goto, Activity
        <5>3. CASE Insert(p) \/ InsertFails(p)
          BY <2>0, <3>3, <5>3 DEF Insert, InsertFails, AfterFailure, Goto, Activity
        <5>4. CASE Reload(p)
          BY <2>0, <3>3, <5>4 DEF Reload, Activity
        <5>5. CASE Store(p) \/ Abandon(p)
          BY <2>0, <3>3, <5>5 DEF Store, Abandon, End
        <5> QED BY <2>5, <5>1, <5>2, <5>3, <5>4, <5>5
      <4>2. CASE proc'[q] = Idle
        BY <4>2 DEF Roles, Idle
      <4>3. CASE proc'[q] # Idle
        BY <2>0, <3>1, <4>1, <4>3 DEF Roles
      <4> QED BY <4>2, <4>3
    <3> QED BY <3>2, <3>3
  <2>6. ASSUME NEW i \in DOMAIN rows, Deliver(i) \/ Exhaust(i) PROVE Roles(q)'
    BY <2>0, <2>6 DEF Deliver, Exhaust, Roles, order
  <2>7. CASE Tick
    <3>1. proc'[q] = proc[q] /\ (proc[q].pc = "idle" \/ proc[q].kind = "reconcile")
      BY <2>7 DEF Tick
    <3> QED BY <2>0, <3>1 DEF Roles
  <2>8. CASE UNCHANGED vars
    BY <2>0, <2>8 DEF vars, order, Roles
  <2> QED BY <2>1, <2>2, <2>3, <2>4, <2>5, <2>6, <2>7, <2>8 DEF Next, Work, Send
<1> QED BY <1>1, <1>2, TypeCorrect, PTL DEF Spec

\* A set that gains or loses one element.
LEMMA SetMoves ==
    ASSUME NEW A, NEW B, NEW p, IsFiniteSet(A), A \ {p} = B \ {p}
    PROVE  /\ IsFiniteSet(B) /\ Cardinality(A) \in Nat /\ Cardinality(B) \in Nat
           /\ Cardinality(B) = Cardinality(A) - Bit(p \in A) + Bit(p \in B)
<1>1. Cardinality(A) \in Nat
  BY FS_CardinalityType
<1>2. CASE p \in A /\ p \in B
  <2>1. A = B
    BY <1>2
  <2> QED BY <1>1, <1>2, <2>1 DEF Bit
<1>3. CASE p \notin A /\ p \notin B
  <2>1. A = B
    BY <1>3
  <2> QED BY <1>1, <1>3, <2>1 DEF Bit
<1>4. CASE p \in A /\ p \notin B
  <2>1. B = A \ {p}
    BY <1>4
  <2>2. IsFiniteSet(B) /\ Cardinality(B) = Cardinality(A) - 1
    BY <1>4, <2>1, FS_RemoveElement
  <2>3. Cardinality(B) \in Nat
    BY <2>2, FS_CardinalityType
  <2> QED BY <1>1, <1>4, <2>2, <2>3 DEF Bit
<1>5. CASE p \notin A /\ p \in B
  <2>1. B = A \cup {p}
    BY <1>5
  <2>2. IsFiniteSet(B) /\ Cardinality(B) = Cardinality(A) + 1
    BY <1>5, <2>1, FS_AddElement
  <2> QED BY <1>1, <1>5, <2>2 DEF Bit
<1> QED BY <1>2, <1>3, <1>4, <1>5

InsertBit(p) == Bit(Inserts(p))
ScanBit(p)   == Bit(Scans(p))

OthersMark(p) == \E q \in Proc \ {p} : Marks(q)
OthersFan(p)  == \E q \in Proc \ {p} : Fans(q)

\* What a step of goroutine p does to the counts.
LEMMA OneMoves ==
    ASSUME DuesInv, NEW p \in Proc, \A q \in Proc : q # p => proc'[q] = proc[q]
    PROVE  /\ IsFiniteSet(Inserting') /\ IsFiniteSet(Scanning')
           /\ Cardinality(Inserting) \in Nat /\ Cardinality(Scanning) \in Nat
           /\ Cardinality(Inserting') \in Nat /\ Cardinality(Scanning') \in Nat
           /\ Cardinality(Inserting') = Cardinality(Inserting) - InsertBit(p) + InsertBit(p)'
           /\ Cardinality(Scanning') = Cardinality(Scanning) - ScanBit(p) + ScanBit(p)'
           /\ NoScanner <=> Cardinality(Scanning) = 0
           /\ NoScanner' <=> Cardinality(Scanning') = 0
           /\ NoMarker <=> ~Marks(p) /\ ~OthersMark(p)
           /\ NoMarker' <=> ~Marks(p)' /\ ~OthersMark(p)
           /\ Owes <=> status = "completed" /\ "published" \notin meta /\ ~Fans(p) /\ ~OthersFan(p)
           /\ Owes' <=> status' = "completed" /\ "published" \notin meta' /\ ~Fans(p)' /\ ~OthersFan(p)
<1>1. \A q \in Proc : q # p => /\ Inserts(q)' <=> Inserts(q)
                               /\ Scans(q)' <=> Scans(q)
                               /\ Marks(q)' <=> Marks(q)
                               /\ Fans(q)' <=> Fans(q)
  BY DEF Inserts, Scans, Marks, Fans
<1>2. Inserting \ {p} = Inserting' \ {p} /\ Scanning \ {p} = Scanning' \ {p}
  BY <1>1 DEF Inserting, Scanning
<1>3. /\ p \in Inserting <=> Inserts(p)
      /\ p \in Inserting' <=> Inserts(p)'
      /\ p \in Scanning <=> Scans(p)
      /\ p \in Scanning' <=> Scans(p)'
  BY DEF Inserting, Scanning
<1>4. /\ IsFiniteSet(Inserting') /\ Cardinality(Inserting) \in Nat /\ Cardinality(Inserting') \in Nat
      /\ Cardinality(Inserting') = Cardinality(Inserting) - Bit(p \in Inserting) + Bit(p \in Inserting')
  BY <1>2, SetMoves DEF DuesInv
<1>5. /\ IsFiniteSet(Scanning') /\ Cardinality(Scanning) \in Nat /\ Cardinality(Scanning') \in Nat
      /\ Cardinality(Scanning') = Cardinality(Scanning) - Bit(p \in Scanning) + Bit(p \in Scanning')
  BY <1>2, SetMoves DEF DuesInv
<1>6. /\ NoScanner <=> Scanning = {}
      /\ NoScanner' <=> Scanning' = {}
  BY DEF NoScanner, Scanning
<1>7. /\ NoScanner <=> Cardinality(Scanning) = 0
      /\ NoScanner' <=> Cardinality(Scanning') = 0
  BY <1>5, <1>6, FS_EmptySet DEF DuesInv
<1>8. /\ NoMarker <=> ~Marks(p) /\ ~OthersMark(p)
      /\ NoMarker' <=> ~Marks(p)' /\ ~OthersMark(p)
  BY <1>1 DEF NoMarker, OthersMark
<1>9. /\ (\A q \in Proc : ~Fans(q)) <=> ~Fans(p) /\ ~OthersFan(p)
      /\ (\A q \in Proc : ~Fans(q)') <=> ~Fans(p)' /\ ~OthersFan(p)
  BY <1>1 DEF OthersFan
<1>10. /\ Bit(p \in Inserting) = InsertBit(p) /\ Bit(p \in Inserting') = InsertBit(p)'
       /\ Bit(p \in Scanning) = ScanBit(p) /\ Bit(p \in Scanning') = ScanBit(p)'
  BY <1>3 DEF Bit, InsertBit, ScanBit
<1> QED BY <1>4, <1>5, <1>7, <1>8, <1>9, <1>10 DEF Owes


LEMMA RowsStayGood ==
    ASSUME TypeOK, NoneFailed
    PROVE  /\ Len(rows) \in Nat
           /\ rows' = Inserted => NoneFailed' /\ Len(rows') = Len(rows) + 1
           /\ \A i \in DOMAIN rows : rows' = [rows EXCEPT ![i] = [st |-> "gone", age |-> 0]]
                 => NoneFailed' /\ Len(rows') = Len(rows)
           /\ rows' = [i \in DOMAIN rows |-> AgedRow(rows[i])] => NoneFailed' /\ Len(rows') = Len(rows)
<1>1. rows \in Seq(Row) /\ \A i \in DOMAIN rows : rows[i] \in Row
  BY ElementOfSeq DEF TypeOK
<1>2. ASSUME rows' = Inserted PROVE NoneFailed' /\ Len(rows') = Len(rows) + 1
  <2>1. /\ DOMAIN rows' = DOMAIN rows \cup {Len(rows) + 1} /\ Len(rows') = Len(rows) + 1
        /\ rows'[Len(rows) + 1] = [st |-> "PENDING", age |-> 0]
        /\ \A i \in DOMAIN rows : rows'[i] = rows[i]
    BY <1>1, <1>2 DEF Inserted
  <2> QED BY <2>1 DEF NoneFailed
<1>3. ASSUME NEW i \in DOMAIN rows, rows' = [rows EXCEPT ![i] = [st |-> "gone", age |-> 0]]
      PROVE  NoneFailed' /\ Len(rows') = Len(rows)
  BY <1>1, <1>3 DEF NoneFailed
<1>4. ASSUME rows' = [i \in DOMAIN rows |-> AgedRow(rows[i])] PROVE NoneFailed' /\ Len(rows') = Len(rows)
  <2>1. DOMAIN rows' = DOMAIN rows /\ \A i \in DOMAIN rows : rows'[i].st = rows[i].st
    <3>1. \A r \in Row : AgedRow(r).st = r.st
      BY DEF AgedRow, Row
    <3> QED BY <1>1, <1>4, <3>1
  <2>2. rows' \in Seq(Row)
    BY <1>1, <1>4, RowsKept
  <2>3. Len(rows') = Len(rows)
    BY <1>1, <2>1, <2>2
  <2> QED BY <2>1, <2>3 DEF NoneFailed
<1> QED BY <1>1, <1>2, <1>3, <1>4

LEMMA Numbers ==
    ASSUME TypeOK
    PROVE  /\ {Stored, Paid, completions, faults, clobbered} \subseteq Nat
           /\ {Later, Missing, Free} \subseteq {0, 1}
<1>1. {completions, faults, clobbered} \subseteq Nat /\ {Stored} \subseteq Nat
  BY DEF TypeOK, Stored
<1>2. {Paid} \subseteq Nat
  BY <1>1 DEF Paid
<1> QED BY <1>1, <1>2 DEF Later, Missing, Free, Bit

LEMMA NumbersAfter ==
    ASSUME TypeOK'
    PROVE  /\ {Stored', Paid', completions', faults', clobbered'} \subseteq Nat
           /\ {Later', Missing', Free'} \subseteq {0, 1}
<1>1. {completions', faults', clobbered'} \subseteq Nat /\ {Stored'} \subseteq Nat
  BY DEF TypeOK, Stored
<1>2. {Paid'} \subseteq Nat
  BY <1>1 DEF Paid
<1> QED BY <1>1, <1>2 DEF Later, Missing, Free, Bit

\* A step that moves no goroutine and costs nothing that it does not pay.
LEMMA NobodyMoves ==
    ASSUME TypeOK, TypeOK', DuesInv, exhausted = 0, UNCHANGED proc, Stored' = Stored,
           \/ Paid' = Paid /\ (UNCHANGED sinceRun \/ (NoMarker /\ NoScanner)) /\ (Owes' => Owes)
           \/ Paid' > Paid /\ (UNCHANGED sinceRun \/ (Owes' => Owes))
    PROVE  Dues' <= Paid'
<1>1. /\ Inserting' = Inserting /\ Scanning' = Scanning
      /\ NoMarker' <=> NoMarker
      /\ NoScanner' <=> NoScanner
  BY DEF Inserting, Scanning, NoMarker, NoScanner, Inserts, Scans, Marks
<1>2. Coming \in Nat /\ Looking \in Nat
  BY FS_CardinalityType DEF DuesInv, Coming, Looking
<1>3. Free' = Free
  BY <1>1 DEF Free
<1>4. UNCHANGED sinceRun \/ (NoMarker /\ NoScanner) => Later' <= Later
  BY <1>1 DEF Later, Bit
<1>5. (Owes' => Owes) => Missing' <= Missing
  BY <1>1 DEF Missing, Bit
<1>7. Dues <= Paid
  BY DEF DuesInv
<1>8. Coming' = Coming /\ Looking' = Looking
  BY <1>1 DEF Coming, Looking
<1> QED BY <1>2, <1>3, <1>4, <1>5, <1>7, <1>8, Numbers, NumbersAfter DEF Dues

\* Steps of one goroutine, by what they do to the bits.
LEMMA SomebodyMoves ==
    ASSUME TypeOK, TypeOK', DuesInv, exhausted = 0, NEW p \in Proc,
           \A q \in Proc : q # p => proc'[q] = proc[q],
           Stored' + InsertBit(p)' + ScanBit(p)' + Later' + Missing' - Free' - Paid'
             <= Stored + InsertBit(p) + ScanBit(p) + Later + Missing - Free - Paid
    PROVE  Dues' <= Paid'
<1>1. /\ {Coming, Looking} \subseteq Nat
      /\ {Coming', Looking'} \subseteq Nat
      /\ Coming' = Coming - InsertBit(p) + InsertBit(p)'
      /\ Looking' = Looking - ScanBit(p) + ScanBit(p)'
  BY OneMoves DEF Coming, Looking
<1>2. Dues <= Paid
  BY DEF DuesInv
<1>3. {InsertBit(p), InsertBit(p)', ScanBit(p), ScanBit(p)'} \subseteq {0, 1}
  BY DEF Bit, InsertBit, ScanBit
<1> QED BY <1>1, <1>2, <1>3, Numbers, NumbersAfter DEF Dues

\* What the step of p does to the three bits.
LEMMA BitsOf ==
    ASSUME DuesInv, NEW p \in Proc, \A q \in Proc : q # p => proc'[q] = proc[q]
    PROVE  /\ (Marks(p)' <=> Marks(p)) /\ (Scans(p)' <=> Scans(p)) =>
                 Free' = Free /\ (UNCHANGED sinceRun => Later' = Later)
           /\ (Marks(p)' <=> Marks(p)) /\ (Owes' => Owes) => Missing' <= Missing
           /\ (Marks(p)' => Marks(p)) /\ (Scans(p)' => Scans(p)) /\ UNCHANGED sinceRun => Later' <= Later
           /\ (Marks(p)' => Marks(p)) /\ (Scans(p)' <=> Scans(p)) => Free <= Free'
           /\ ~Owes' => Missing' = 0
<1>1. /\ NoMarker <=> ~Marks(p) /\ ~OthersMark(p)
      /\ NoMarker' <=> ~Marks(p)' /\ ~OthersMark(p)
  BY OneMoves
<1>2. /\ (Scans(p)' => Scans(p)) => (NoScanner => NoScanner')
      /\ (Scans(p)' <=> Scans(p)) => (NoScanner <=> NoScanner')
  <2>1. \A q \in Proc : q # p => (Scans(q)' <=> Scans(q))
    BY DEF Scans
  <2> QED BY <2>1 DEF NoScanner
<1>3. (Marks(p)' <=> Marks(p)) => (NoMarker' <=> NoMarker)
  BY <1>1
<1>4. (Marks(p)' => Marks(p)) => (NoMarker => NoMarker')
  BY <1>1
<1>5. ASSUME Marks(p)' <=> Marks(p), Scans(p)' <=> Scans(p) PROVE Free' = Free /\ (UNCHANGED sinceRun => Later' = Later)
  BY <1>2, <1>3, <1>5 DEF Free, Later, Bit
<1>6. ASSUME Marks(p)' <=> Marks(p), Owes' => Owes PROVE Missing' <= Missing
  BY <1>3, <1>6 DEF Missing, Bit
<1>7. ASSUME Marks(p)' => Marks(p), Scans(p)' => Scans(p), UNCHANGED sinceRun PROVE Later' <= Later
  BY <1>2, <1>4, <1>7 DEF Later, Bit
<1>8. ASSUME Marks(p)' => Marks(p), Scans(p)' <=> Scans(p) PROVE Free <= Free'
  BY <1>2, <1>4, <1>8 DEF Free, Bit
<1>9. ASSUME ~Owes' PROVE Missing' = 0
  BY <1>9 DEF Missing, Bit
<1> QED BY <1>5, <1>6, <1>7, <1>8, <1>9


\* A goroutine that stops, whatever it leaves undone.
LEMMA OneStops ==
    ASSUME TypeOK, TypeOK', DuesInv, exhausted = 0, NEW p \in Proc,
           \A q \in Proc : q # p => proc'[q] = proc[q], proc'[p].pc = "idle", UNCHANGED sinceRun,
           Paid' = Paid + 1, Stored' <= Stored + InsertBit(p)
    PROVE  Dues' <= Paid'
<1>1. ~Inserts(p)' /\ ~Scans(p)' /\ ~Marks(p)' /\ ~Fans(p)'
  BY DEF Inserts, Scans, Marks, Fans
<1>2. InsertBit(p)' = 0 /\ ScanBit(p)' = 0 /\ {InsertBit(p), ScanBit(p)} \subseteq {0, 1}
  BY <1>1 DEF InsertBit, ScanBit, Bit
<1>3. Later' <= Later
  BY <1>1, BitsOf
<1>4. CASE ~Scans(p)
  <2>1. Missing' - Free' <= Missing - Free + 1
    <3>1. Free <= Free'
      BY <1>1, <1>4, BitsOf
    <3> QED BY <3>1, Numbers, NumbersAfter
  <2> QED BY <1>2, <1>3, <2>1, Numbers, NumbersAfter, SomebodyMoves
<1>5. CASE Scans(p)
  <2>1. ScanBit(p) = 1 /\ Missing' <= 1 /\ 0 <= Free' /\ 0 <= Missing /\ Free <= 1
    BY <1>5, Numbers, NumbersAfter DEF ScanBit, Bit
  <2> QED BY <1>2, <1>3, <2>1, Numbers, NumbersAfter, SomebodyMoves
<1> QED BY <1>4, <1>5


\* A goroutine that goes on: it inserts, looks and marks as before.
LEMMA OneGoesOn ==
    ASSUME TypeOK, TypeOK', DuesInv, exhausted = 0, NEW p \in Proc,
           \A q \in Proc : q # p => proc'[q] = proc[q], UNCHANGED sinceRun,
           Marks(p)' <=> Marks(p), Scans(p)' <=> Scans(p), Owes' => Owes,
           Stored' + InsertBit(p)' - Paid' <= Stored + InsertBit(p) - Paid
    PROVE  Dues' <= Paid'
<1>1. Free' = Free /\ Later' = Later /\ Missing' <= Missing
  BY BitsOf
<1>2. ScanBit(p)' = ScanBit(p)
  BY DEF ScanBit, Bit
<1>3. {InsertBit(p), InsertBit(p)', ScanBit(p)} \subseteq {0, 1}
  BY DEF InsertBit, ScanBit, Bit
<1> QED BY <1>1, <1>2, <1>3, Numbers, NumbersAfter, SomebodyMoves

LEMMA FiniteKept ==
    ASSUME TypeOK, DuesInv, Next
    PROVE  IsFiniteSet(Inserting') /\ IsFiniteSet(Scanning')
<1>1. ASSUME UNCHANGED proc PROVE IsFiniteSet(Inserting') /\ IsFiniteSet(Scanning')
  <2>1. Inserting' = Inserting /\ Scanning' = Scanning
    BY <1>1 DEF Inserting, Scanning, Inserts, Scans
  <2> QED BY <2>1 DEF DuesInv
<1>2. UNCHANGED proc \/ \E p \in Proc : \A q \in Proc : q # p => proc'[q] = proc[q]
  BY DEF TypeOK, Next, Complete, BeginNote, ClaimPeriod, Work, ScanOrders, Judge, Insert, Reload, Store, InsertFails,
         Abandon, CompleteOutside, Reopen, Send, Deliver, Exhaust, Tick, Begin, End, Goto
<1> QED BY <1>1, <1>2, OneMoves

LEMMA OrderSteps ==
    ASSUME TypeOK, TypeOK', RolesInv, DuesInv, exhausted = 0, exhausted' = 0
    PROVE  /\ CompleteOutside \/ Reopen => Dues' <= Paid'
           /\ \A p \in Proc : Complete(p) \/ BeginNote(p) \/ ClaimPeriod(p) => Dues' <= Paid'
<1> USE DEF order, history, At
<1>0. proc \in [Proc -> Activity]
  BY DEF TypeOK
<1>1. ASSUME CompleteOutside PROVE Dues' <= Paid'
  <2>1. UNCHANGED <<proc, sinceRun>> /\ Stored' = Stored /\ Paid' > Paid
    BY <1>1, Numbers DEF CompleteOutside, Stored, Paid
  <2> QED BY <2>1, NobodyMoves
<1>2. ASSUME Reopen PROVE Dues' <= Paid'
  <2>1. UNCHANGED <<proc, sinceRun>> /\ Stored' = Stored /\ Paid' = Paid /\ ~Owes'
    BY <1>2 DEF Reopen, Stored, Paid, Owes
  <2> QED BY <2>1, NobodyMoves
<1>3. ASSUME NEW p \in Proc, Complete(p) PROVE Dues' <= Paid'
  <2>1. UNCHANGED sinceRun /\ Stored' = Stored /\ Paid' > Paid
    <3>1. UNCHANGED <<rows, sinceRun, clobbered>> /\ completions' = completions + 1
          /\ (faults' = faults \/ faults' = faults + 1)
      BY <1>3 DEF Complete, Fault, NoFault
    <3> QED BY <3>1, Numbers DEF Paid, Stored
  <2>2. CASE UNCHANGED proc
    BY <2>1, <2>2, NobodyMoves
  <2>3. CASE Begin(p, "fanout", "insert", {}) /\ NoFault
    <3>1. /\ \A q \in Proc : q # p => proc'[q] = proc[q]
          /\ proc'[p].pc = "insert" /\ proc'[p].kind = "fanout" /\ proc[p].pc = "idle"
      BY <1>0, <2>3 DEF Begin
    <3>2. /\ ~Inserts(p) /\ ~Scans(p) /\ ~Marks(p) /\ Inserts(p)' /\ ~Scans(p)' /\ ~Marks(p)' /\ Fans(p)'
      BY <3>1 DEF Inserts, Scans, Marks, Fans
    <3>3. InsertBit(p) = 0 /\ InsertBit(p)' = 1
      BY <3>2 DEF InsertBit, Bit
    <3>4. ~Owes'
      BY <3>2 DEF Owes
    <3> QED BY <2>1, <3>1, <3>2, <3>3, <3>4, Numbers, NumbersAfter, OneGoesOn
  <2> QED BY <1>3, <2>2, <2>3 DEF Complete
<1>4. ASSUME NEW p \in Proc, BeginNote(p) PROVE Dues' <= Paid'
  <2>1. /\ \A q \in Proc : q # p => proc'[q] = proc[q]
        /\ proc'[p].pc = "store" /\ proc'[p].kind = "note" /\ proc[p].pc = "idle"
    BY <1>0, <1>4 DEF BeginNote, Begin
  <2>2. UNCHANGED <<sinceRun, status, meta>> /\ Stored' = Stored /\ Paid' = Paid
    BY <1>4 DEF BeginNote, Stored, Paid
  <2>3. /\ ~Inserts(p) /\ ~Scans(p) /\ ~Marks(p) /\ ~Inserts(p)' /\ ~Scans(p)' /\ ~Marks(p)' /\ ~Fans(p)'
        /\ ~Fans(p)
    BY <2>1 DEF Inserts, Scans, Marks, Fans
  <2>4. InsertBit(p)' = 0 /\ InsertBit(p) = 0
    BY <2>3 DEF InsertBit, Bit
  <2>5. Owes' => Owes
    BY <2>1, <2>2, <2>3, OneMoves
  <2> QED BY <2>1, <2>2, <2>3, <2>4, <2>5, Numbers, NumbersAfter, OneGoesOn
<1>5. ASSUME NEW p \in Proc, ClaimPeriod(p) PROVE Dues' <= Paid'
  <2>1. /\ \A q \in Proc : q # p => proc'[q] = proc[q]
        /\ proc'[p].pc = "scan" /\ proc[p].pc = "idle"
    BY <1>0, <1>5 DEF ClaimPeriod, Begin
  <2>2. UNCHANGED <<status, meta>> /\ sinceRun # 0 /\ sinceRun' = 0 /\ Stored' = Stored /\ Paid' = Paid
    BY <1>5, FinalizedAssumption DEF ClaimPeriod, Stored, Paid
  <2>3. /\ ~Inserts(p) /\ ~Scans(p) /\ ~Marks(p) /\ ~Inserts(p)' /\ Scans(p)' /\ ~Marks(p)' /\ ~Fans(p)
    BY <2>1 DEF Inserts, Scans, Marks, Fans
  <2>4. InsertBit(p)' = 0 /\ InsertBit(p) = 0 /\ ScanBit(p)' = 1 /\ ScanBit(p) = 0
    BY <2>3 DEF InsertBit, ScanBit, Bit
  <2>5. (Owes' => Owes) /\ (NoMarker' <=> NoMarker) /\ ~NoScanner'
    <3>1. ~NoScanner'
      BY <2>3 DEF NoScanner
    <3> QED BY <2>1, <2>2, <2>3, <3>1, OneMoves
  <2>6. Missing' <= Missing /\ Later' = 0
    BY <2>2, <2>5 DEF Missing, Later, Bit
  <2>7. 1 - Free' <= Later - Free
    BY <2>2, <2>5 DEF Free, Later, Bit
  <2> QED BY <2>1, <2>2, <2>4, <2>6, <2>7, Numbers, NumbersAfter, SomebodyMoves
<1> QED BY <1>1, <1>2, <1>3, <1>4, <1>5


LEMMA ScanSteps ==
    ASSUME TypeOK, TypeOK', RolesInv, DuesInv, exhausted = 0, exhausted' = 0, NEW p \in Proc
    PROVE  /\ ScanOrders(p) => Dues' <= Paid'
           /\ Judge(p) => Dues' <= Paid'
<1> USE DEF order, history, At
<1>0. proc \in [Proc -> Activity] /\ proc[p] \in Activity /\ Roles(p)
  BY DEF TypeOK, RolesInv
<1>1. ASSUME ScanOrders(p) PROVE Dues' <= Paid'
  <2>1. /\ \A q \in Proc : q # p => proc'[q] = proc[q]
        /\ proc[p].pc = "scan" /\ proc[p].kind = "reconcile"
        /\ UNCHANGED <<sinceRun, status, meta, age>> /\ Stored' = Stored /\ Paid' = Paid
    BY <1>0, <1>1 DEF ScanOrders, End, Stored, Paid, Roles, Activity
  <2>2. ~Inserts(p) /\ Scans(p) /\ ~Marks(p) /\ ~Fans(p)
    BY <2>1 DEF Inserts, Scans, Marks, Fans
  <2>3. InsertBit(p) = 0 /\ ScanBit(p) = 1
    BY <2>2 DEF InsertBit, ScanBit, Bit
  <2>4. CASE proc'[p] = Idle \/ (proc'[p].pc = "judge" /\ proc'[p].kind = "reconcile" /\ "published" \in proc'[p].meta)
    <3>1. ~Inserts(p)' /\ ~Scans(p)' /\ ~Marks(p)' /\ ~Fans(p)'
      BY <2>4 DEF Inserts, Scans, Marks, Fans, Idle
    <3>2. InsertBit(p)' = 0 /\ ScanBit(p)' = 0
      BY <3>1 DEF InsertBit, ScanBit, Bit
    <3>3. Owes' => Owes
      BY <2>1, <2>2, <3>1, OneMoves
    <3>4. Missing' <= Missing /\ Later' <= Later
      BY <2>1, <2>2, <3>1, <3>3, BitsOf
    <3> QED BY <2>1, <2>3, <3>2, <3>4, Numbers, NumbersAfter, SomebodyMoves
  <2>5. CASE Eligible /\ proc'[p].pc = "judge" /\ proc'[p].kind = "reconcile" /\ proc'[p].meta = meta /\ "published" \notin meta
    <3>1. Inserts(p)' /\ ~Scans(p)' /\ Marks(p)' /\ ~Fans(p)'
      BY <2>5 DEF Inserts, Scans, Marks, Fans
    <3>2. InsertBit(p)' = 1 /\ ScanBit(p)' = 0
      BY <3>1 DEF InsertBit, ScanBit, Bit
    <3>3. ~NoMarker' /\ ~NoScanner
      BY <2>2, <3>1 DEF NoMarker, NoScanner
    <3>4. Missing' = 0 /\ Free' = 0 /\ Later' = Later
      BY <2>1, <3>3 DEF Missing, Free, Later, Bit
    <3>5. Owes
      <4>1. status = "completed" /\ age # 0
        BY <2>5, FinalizedAssumption DEF Eligible, TypeOK
      <4>2. \A q \in Proc : ~Fans(q)
        BY <4>1 DEF RolesInv, Roles, Fans
      <4> QED BY <2>5, <4>1, <4>2 DEF Owes
    <3>6. Missing = Free
      BY <3>3, <3>5 DEF Missing, Free, Bit
    <3> QED BY <2>1, <2>3, <3>2, <3>4, <3>6, Numbers, NumbersAfter, SomebodyMoves
  <2>6. \/ proc'[p] = Idle
        \/ Eligible /\ proc'[p].pc = "judge" /\ proc'[p].kind = "reconcile" /\ proc'[p].meta = meta
    BY <1>0, <1>1, <2>1 DEF ScanOrders, End, Activity
  <2> QED BY <2>4, <2>5, <2>6
<1>2. ASSUME Judge(p) PROVE Dues' <= Paid'
  <2>1. FailedRows = {}
    BY DEF DuesInv, NoneFailed, FailedRows
  <2>2. /\ \A q \in Proc : q # p => proc'[q] = proc[q]
        /\ proc[p].pc = "judge" /\ proc[p].kind = "reconcile"
        /\ UNCHANGED <<sinceRun, status, meta>> /\ Stored' = Stored /\ Paid' = Paid
    BY <1>0, <1>2 DEF Judge, Goto, End, Stored, Paid, Roles, Activity
  <2>3. \/ "published" \notin proc[p].meta /\ proc'[p].pc = "insert" /\ proc'[p].kind = proc[p].kind
        \/ "published" \in proc[p].meta /\ proc'[p] = Idle
    BY <1>0, <1>2, <2>1 DEF Judge, MustPublish, Goto, End, Activity
  <2>4. /\ Inserts(p)' <=> Inserts(p)
        /\ Scans(p)' <=> Scans(p)
        /\ Marks(p)' <=> Marks(p)
        /\ ~Fans(p) /\ ~Fans(p)'
    BY <2>2, <2>3 DEF Inserts, Scans, Marks, Fans, Idle
  <2>5. InsertBit(p)' = InsertBit(p) /\ InsertBit(p) \in {0, 1}
    BY <2>4 DEF InsertBit, Bit
  <2>6. Owes' => Owes
    BY <2>2, <2>4, OneMoves
  <2> QED BY <2>2, <2>4, <2>5, <2>6, Numbers, NumbersAfter, OneGoesOn
<1> QED BY <1>1, <1>2

LEMMA PublishSteps ==
    ASSUME TypeOK, TypeOK', RolesInv, DuesInv, exhausted = 0, exhausted' = 0, NEW p \in Proc
    PROVE  /\ Insert(p) => Dues' <= Paid'
           /\ InsertFails(p) => Dues' <= Paid'
           /\ Reload(p) => Dues' <= Paid'
           /\ Store(p) => Dues' <= Paid'
           /\ Abandon(p) => Dues' <= Paid'
<1> USE DEF order, history, At
<1>0. proc \in [Proc -> Activity] /\ proc[p] \in Activity /\ Roles(p) /\ Len(Inserted) = Len(rows) + 1
  BY DEF TypeOK, RolesInv, Inserted
<1>1. ASSUME Insert(p) PROVE Dues' <= Paid'
  <2>1. /\ \A q \in Proc : q # p => proc'[q] = proc[q]
        /\ proc[p].pc = "insert" /\ proc'[p].pc = "reload" /\ proc'[p].kind = proc[p].kind
        /\ UNCHANGED <<sinceRun, status, meta>> /\ Stored' = Stored + 1 /\ Paid' = Paid
    BY <1>0, <1>1 DEF Insert, Goto, Stored, Paid, Activity
  <2>2. /\ Inserts(p) /\ ~Inserts(p)' /\ ~Scans(p) /\ ~Scans(p)'
        /\ Marks(p)' <=> Marks(p)
        /\ Fans(p)' <=> Fans(p)
    BY <2>1 DEF Inserts, Scans, Marks, Fans
  <2>3. InsertBit(p) = 1 /\ InsertBit(p)' = 0
    BY <2>2 DEF InsertBit, Bit
  <2>4. Owes' => Owes
    BY <2>1, <2>2, OneMoves
  <2> QED BY <2>1, <2>2, <2>3, <2>4, Numbers, NumbersAfter, OneGoesOn
<1>2. ASSUME InsertFails(p) PROVE Dues' <= Paid'
  <2>1. /\ \A q \in Proc : q # p => proc'[q] = proc[q]
        /\ proc[p].pc = "insert" /\ proc'[p].pc = "idle" /\ UNCHANGED sinceRun
    BY <1>0, <1>2 DEF InsertFails, AfterFailure, Goto, Activity
  <2>2. InsertBit(p) = 1
    BY <2>1 DEF InsertBit, Inserts, Bit
  <2>3. Stored' <= Stored + 1
    BY <1>0, <1>2, Numbers DEF InsertFails, Stored
  <2>4. Paid' = Paid + 1
    BY <1>2, Numbers DEF InsertFails, Fault, Paid
  <2> QED BY <2>1, <2>2, <2>3, <2>4, OneStops
<1>3. ASSUME Reload(p) PROVE Dues' <= Paid'
  <2>1. /\ \A q \in Proc : q # p => proc'[q] = proc[q]
        /\ proc[p].pc = "reload" /\ proc'[p].pc = "store" /\ proc'[p].kind = proc[p].kind
        /\ UNCHANGED <<sinceRun, status, meta>> /\ Stored' = Stored /\ Paid' = Paid
    BY <1>0, <1>3 DEF Reload, Stored, Paid, Activity
  <2>2. /\ ~Inserts(p) /\ ~Inserts(p)' /\ ~Scans(p) /\ ~Scans(p)'
        /\ Marks(p)' <=> Marks(p)
        /\ Fans(p)' <=> Fans(p)
    BY <2>1 DEF Inserts, Scans, Marks, Fans
  <2>3. InsertBit(p) = 0 /\ InsertBit(p)' = 0
    BY <2>2 DEF InsertBit, Bit
  <2>4. Owes' => Owes
    BY <2>1, <2>2, OneMoves
  <2> QED BY <2>1, <2>2, <2>3, <2>4, Numbers, NumbersAfter, OneGoesOn
<1>4. ASSUME Store(p) PROVE Dues' <= Paid'
  <2>1. /\ \A q \in Proc : q # p => proc'[q] = proc[q]
        /\ proc[p].pc = "store" /\ proc'[p] = Idle
        /\ UNCHANGED <<sinceRun, status>> /\ Stored' = Stored
    BY <1>0, <1>4 DEF Store, End, Stored
  <2>2. /\ ~Inserts(p) /\ ~Inserts(p)' /\ ~Scans(p) /\ ~Scans(p)' /\ ~Marks(p)' /\ ~Fans(p)'
    BY <2>1 DEF Inserts, Scans, Marks, Fans, Idle
  <2>3. InsertBit(p) = 0 /\ InsertBit(p)' = 0 /\ ScanBit(p) = 0 /\ ScanBit(p)' = 0
    BY <2>2 DEF InsertBit, ScanBit, Bit
  <2>4. Later' <= Later /\ Free <= Free'
    BY <2>1, <2>2, BitsOf
  <2>5. \/ clobbered' = clobbered /\ ("published" \in meta => "published" \in meta')
        \/ clobbered' = clobbered + 1
    BY <1>4, Numbers DEF Store
  <2>6. (Paid' = Paid /\ ("published" \in meta => "published" \in meta')) \/ Paid' = Paid + 1
    BY <1>4, <2>5, Numbers DEF Store, Paid
  <2>7. Missing' <= Missing \/ Paid' = Paid + 1
    <3>1. CASE proc[p].kind = "note" /\ ("published" \in meta => "published" \in meta')
      <4>1. ~Marks(p) /\ ~Fans(p)
        BY <3>1 DEF Marks, Fans
      <4>2. Owes' => Owes
        BY <2>1, <2>2, <3>1, <4>1, OneMoves
      <4> QED BY <2>1, <2>2, <4>1, <4>2, BitsOf
    <3>2. CASE proc[p].kind # "note"
      <4>1. "published" \in meta'
        BY <1>4, <3>2 DEF Store, KeyOf
      <4>2. Missing' = 0
        BY <4>1 DEF Missing, Owes, Bit
      <4> QED BY <4>2, Numbers
    <3> QED BY <2>6, <3>1, <3>2
  <2>8. Missing' - Paid' <= Missing - Paid
    BY <2>6, <2>7, Numbers, NumbersAfter
  <2> QED BY <2>1, <2>3, <2>4, <2>8, Numbers, NumbersAfter, SomebodyMoves
<1>5. ASSUME Abandon(p) PROVE Dues' <= Paid'
  <2>1. /\ \A q \in Proc : q # p => proc'[q] = proc[q]
        /\ proc'[p].pc = "idle" /\ UNCHANGED sinceRun /\ Stored' = Stored
    BY <1>0, <1>5 DEF Abandon, End, Idle, Stored
  <2>2. InsertBit(p) \in {0, 1}
    BY DEF InsertBit, Bit
  <2>3. Paid' = Paid + 1
    BY <1>5, Numbers DEF Abandon, Fault, Paid
  <2>4. Stored' <= Stored + InsertBit(p)
    BY <2>1, <2>2, Numbers
  <2> QED BY <2>1, <2>3, <2>4, OneStops
<1> QED BY <1>1, <1>2, <1>3, <1>4, <1>5

LEMMA OutboxSteps ==
    ASSUME TypeOK, TypeOK', DuesInv, exhausted = 0, exhausted' = 0
    PROVE  /\ \A i \in DOMAIN rows : Deliver(i) => Dues' <= Paid'
           /\ \A i \in DOMAIN rows : ~Exhaust(i)
           /\ Tick => Dues' <= Paid'
<1> USE DEF order, history, At
<1>0. rows \in Seq(Row) /\ NoneFailed
  BY DEF TypeOK, DuesInv
<1>1. ASSUME NEW i \in DOMAIN rows, Deliver(i) PROVE Dues' <= Paid'
  <2>1. UNCHANGED <<proc, sinceRun, status, meta>> /\ Stored' = Stored
    BY <1>0, <1>1, RowsStayGood DEF Deliver, Stored
  <2>2. Paid' = Paid \/ Paid' > Paid
    BY <1>1, Numbers DEF Deliver, Fault, NoFault, Paid
  <2>3. Owes' => Owes
    BY <2>1 DEF Owes, Fans
  <2> QED BY <2>1, <2>2, <2>3, NobodyMoves
<1>2. ASSUME NEW i \in DOMAIN rows PROVE ~Exhaust(i)
  BY DEF Exhaust
<1>3. ASSUME Tick PROVE Dues' <= Paid'
  <2>1. UNCHANGED <<proc, status, meta, completions, clobbered>> /\ Stored' = Stored
    BY <1>0, <1>3, RowsStayGood DEF Tick, Stored
  <2>2. Owes' => Owes
    BY <2>1 DEF Owes, Fans
  <2>3. CASE Overdue
    <3>1. Paid' > Paid
      BY <1>3, <2>1, <2>3, Numbers DEF Tick, Fault, Paid
    <3> QED BY <2>1, <2>2, <3>1, NobodyMoves
  <2>4. CASE ~Overdue
    <3>1. Paid' = Paid
      BY <1>3, <2>1, <2>4 DEF Tick, NoFault, Paid
    <3>2. NoMarker /\ NoScanner
      BY <2>4 DEF Overdue, NoMarker, NoScanner, Marks, Inserts, Scans
    <3> QED BY <2>1, <2>2, <3>1, <3>2, NobodyMoves
  <2> QED BY <2>3, <2>4
<1> QED BY <1>1, <1>2, <1>3

LEMMA NoneFailedKept ==
    ASSUME TypeOK, NoneFailed, exhausted = 0, exhausted' = 0, Next
    PROVE  NoneFailed'
<1>1. ~\E i \in DOMAIN rows : Exhaust(i)
  BY DEF Exhaust
<1>2. \/ rows' = rows \/ rows' = Inserted
      \/ \E i \in DOMAIN rows : rows' = [rows EXCEPT ![i] = [st |-> "gone", age |-> 0]]
      \/ rows' = [i \in DOMAIN rows |-> AgedRow(rows[i])]
  BY <1>1 DEF Next, Complete, BeginNote, ClaimPeriod, Work, ScanOrders, Judge, Insert, Reload, Store, InsertFails,
         Abandon, CompleteOutside, Reopen, Send, Deliver, Tick
<1> QED BY <1>2, RowsStayGood DEF NoneFailed

\* The count is kept by every step, once each step's own due is paid.
LEMMA DuesArePaid == Spec => []DuesInv
<1>1. Init => DuesInv
  <2> SUFFICES ASSUME Init PROVE DuesInv
    OBVIOUS
  <2>1. \A p \in Proc : ~Inserts(p) /\ ~Scans(p)
    BY DEF Init, Idle, Inserts, Scans
  <2>2. Inserting = {} /\ Scanning = {} /\ NoScanner
    BY <2>1 DEF Inserting, Scanning, NoScanner
  <2>3. /\ IsFiniteSet(Inserting) /\ IsFiniteSet(Scanning)
        /\ Coming = 0 /\ Looking = 0
    BY <2>2, FS_EmptySet DEF Coming, Looking
  <2>4. Stored = 0 /\ Later = 0 /\ Missing = 0 /\ Free = 0 /\ Paid = 0 /\ NoneFailed
    BY <2>2 DEF Init, Stored, Later, Missing, Free, Paid, Bit, Owes, NoneFailed
  <2> QED BY <2>3, <2>4 DEF DuesInv, Dues
<1>2. TypeOK /\ TypeOK' /\ RolesInv /\ DuesInv /\ [Next]_vars => DuesInv'
  <2> SUFFICES ASSUME TypeOK, TypeOK', RolesInv, DuesInv, [Next]_vars PROVE DuesInv'
    OBVIOUS
  <2>1. CASE UNCHANGED vars
    BY <2>1 DEF vars, order, history, DuesInv, Inserting, Scanning, Inserts, Scans, NoneFailed, Dues, Stored, Coming,
          Looking, Later, Missing, Free, Paid, NoMarker, NoScanner, Owes, Marks, Fans
  <2>2. CASE Next
    <3>1. exhausted \in Nat /\ (exhausted' = exhausted \/ exhausted' = exhausted + 1)
      BY <2>2 DEF TypeOK, Next, Complete, BeginNote, ClaimPeriod, Work, ScanOrders, Judge, Insert, Reload, Store, InsertFails,
         Abandon, CompleteOutside, Reopen, Send, Deliver, Exhaust, Tick, history
    <3>2. ASSUME exhausted' = 0 PROVE NoneFailed' /\ Dues' <= Paid'
      <4>1. exhausted = 0 /\ NoneFailed
        BY <3>1, <3>2 DEF DuesInv
      <4>2. NoneFailed'
        BY <2>2, <3>2, <4>1, NoneFailedKept
      <4> QED BY <2>2, <3>2, <4>1, <4>2, OrderSteps, ScanSteps, PublishSteps, OutboxSteps DEF Next, Work, Send
    <3> QED BY <2>2, <3>2, FiniteKept DEF DuesInv
  <2> QED BY <2>1, <2>2
<1> QED BY <1>1, <1>2, TypeCorrect, RolesStay, PTL DEF Spec

\* As long as no row was given up, there are no more rows than completions, faults and overwritten
\* marks, for any number of goroutines and any floor, window and period: the reconciler never
\* publishes what a fan-out under way, or another reconciler, is about to publish.
THEOREM RedundancyStaysPaid == Spec => []RedundancyIsPaid
<1>1. TypeOK /\ DuesInv => RedundancyIsPaid
  <2> SUFFICES ASSUME TypeOK, DuesInv, exhausted = 0 PROVE Stored <= Paid
    BY DEF RedundancyIsPaid, Stored, Paid
  <2>1. /\ {Coming, Looking} \subseteq Nat
        /\ NoScanner <=> Looking = 0
    <3>1. NoScanner <=> Scanning = {}
      BY DEF NoScanner, Scanning
    <3> QED BY <3>1, FS_EmptySet, FS_CardinalityType DEF DuesInv, Coming, Looking
  <2>2. Free <= Looking
    BY <2>1 DEF Free, Bit
  <2>3. Dues <= Paid
    BY DEF DuesInv
  <2> QED BY <2>1, <2>2, <2>3, Numbers DEF Dues
<1> QED BY <1>1, DuesArePaid, TypeCorrect, PTL
=============================================================================
