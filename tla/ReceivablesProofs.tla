-------------------------- MODULE ReceivablesProofs --------------------------
(***************************************************************************)
(* What is proved of the receivables of a customer, for any number of       *)
(* requests, workers, orders, receipts and amounts.  First which row,       *)
(* receipt and event belongs to which (SyncedIsPosted, UndoneWasVoided,     *)
(* VoidedIsReversed), which needs nothing of the amounts; then, from        *)
(* lemmas about sums over finite sets, type correctness, what a sale can    *)
(* be settled for (SettlesWithinWorth), and that what the orders show as    *)
(* settled was received (SettledWasReceived).                               *)
(***************************************************************************)
EXTENDS Receivables, FiniteSetTheorems, WellFoundedInduction, TLAPS

IsRow(x) == x = [st |-> x.st, kind |-> x.kind, ord |-> x.ord, amt |-> x.amt, ref |-> x.ref,
                 undone |-> x.undone, synced |-> x.synced, id |-> x.id]
IsRequest(x) == x = [at |-> x.at, row |-> x.row, ord |-> x.ord, amt |-> x.amt, ref |-> x.ref,
                     due |-> x.due, id |-> x.id, synced |-> x.synced, then |-> x.then]

Requests == proc = [p \in Proc |-> proc[p]] /\ \A p \in Proc : IsRequest(proc[p])
Books ==
    /\ row = [r \in Row |-> row[r]] /\ \A r \in Row : IsRow(row[r])
    /\ receipt = [r \in Row |-> receipt[r]]
    /\ direct = [d \in Direct |-> direct[d]]
    /\ \A d \in Direct : direct[d] = [st |-> direct[d].st, amt |-> direct[d].amt]

\* A request that holds a row, and one that holds none.
Holds(x) == x.at \in {"call", "mark", "voiding", "unreceipt"} \/ (x.at = "recount" /\ x.then \in {"call", "unreceipt"})
Undoing(x) == x.at = "undo" \/ (x.at = "recount" /\ x.then = "undo")

RowFacts(r) ==
    /\ receipt[r] # "none" => row[r].st # "none"
    /\ row[r].synced => receipt[r] # "none"
    /\ row[r].undone => Voided(row[r].ref[2])

Facts(x) ==
    /\ x.row = 0 \/ (x.row \in Row /\ row[x.row].st # "none")
    /\ IF Holds(x) THEN x.row # 0 ELSE x.row = 0
    /\ x.at = "recount" => x.then \in {"call", "unreceipt", "apply", "undo"}
    /\ x.at = "mark" => receipt[x.row] # "none"
    /\ x.synced => x.row # 0 /\ receipt[x.row] # "none"
    /\ Undoing(x) => x.ref[1] = "void"
    /\ x.ref[1] = "void" => Voided(x.ref[2])

SafeInv ==
    /\ Requests /\ Books
    /\ \A r \in Row : RowFacts(r)
    /\ \A p \in Proc : Facts(proc[p])
    /\ \A e \in mail : e[1] = "void" => Voided(e[2])

LEMMA Rows == 0 \notin Row
BY DEF Row

LEMMA Puts ==
    ASSUME NEW S, NEW f, f = [s \in S |-> f[s]], NEW s \in S, NEW v
    PROVE  /\ [f EXCEPT ![s] = v] = [t \in S |-> [f EXCEPT ![s] = v][t]]
           /\ [f EXCEPT ![s] = v][s] = v
           /\ \A t \in S : t # s => [f EXCEPT ![s] = v][t] = f[t]
OBVIOUS

LEMMA IdleIs == IsRequest(Idle) /\ Idle.at = "idle" /\ Idle.row = 0 /\ Idle.synced = FALSE /\ Idle.ref = Audit
                /\ Idle.then = "idle" /\ Idle.id = FALSE
BY DEF Idle, IsRequest

LEMMA NoRowIs == IsRow(NoRow) /\ NoRow.st = "none" /\ NoRow.undone = FALSE /\ NoRow.synced = FALSE /\ NoRow.id = FALSE
BY DEF NoRow, IsRow

\* What was voided stays voided.
Keeps == /\ \A d \in Direct : direct[d].st = "void" => direct'[d].st = "void"
         /\ \A r \in Row : row[r].st # "none" => row'[r].st # "none" /\ row'[r].ord = row[r].ord
         /\ \A r \in Row : receipt[r] # "none" => receipt'[r] # "none"
         /\ \A r \in Row : receipt[r] = "void" => receipt'[r] = "void"

LEMMA VoidedStays ==
    ASSUME \A r \in Row : RowFacts(r), Keeps
    PROVE  \A x : Voided(x) => Voided(x)'
<1>1. ASSUME NEW d \in Direct, direct[d].st = "void" PROVE direct'[d].st = "void"
  BY <1>1 DEF Keeps
<1>2. ASSUME NEW r \in Row, receipt[r] = "void" PROVE receipt'[r] = "void" /\ row'[r].ord = row[r].ord
  BY <1>2 DEF Keeps, RowFacts
<1> QED BY <1>1, <1>2 DEF Voided

\* The first state is safe.
LEMMA Start == Init => SafeInv
<1> SUFFICES ASSUME Init PROVE SafeInv
  OBVIOUS
<1>1. Requests /\ Books
  BY IdleIs, NoRowIs DEF Init, Requests, Books
<1>2. \A r \in Row : RowFacts(r)
  BY NoRowIs DEF Init, RowFacts
<1>3. \A p \in Proc : Facts(proc[p])
  BY IdleIs DEF Init, Facts, Holds, Undoing, Audit
<1> QED BY <1>1, <1>2, <1>3 DEF SafeInv, Init

\* A request moves on to x; the others, and what the rows say, are carried over.
LEMMA Moved ==
    ASSUME SafeInv, NEW p \in Proc, NEW x, Goes(p, x), IsRequest(x), Keeps, Books',
           Facts(x)', \A r \in Row : RowFacts(r)',
           \A e \in mail' : e \in mail \/ (e[1] = "void" => Voided(e[2])')
    PROVE  SafeInv'
<1>1. proc' = [proc EXCEPT ![p] = x] /\ Requests
  BY DEF Goes, SafeInv
<1>2. proc'[p] = x /\ (\A q \in Proc : q # p => proc'[q] = proc[q]) /\ proc' = [q \in Proc |-> proc'[q]]
  BY <1>1, Puts DEF Requests
<1>3. Requests'
  BY <1>1, <1>2 DEF Requests
<1>4. \A v : Voided(v) => Voided(v)'
  BY VoidedStays DEF SafeInv
<1>5. ASSUME NEW q \in Proc PROVE Facts(proc[q])'
  <2>1. CASE q = p
    BY <1>2, <2>1 DEF Facts, Holds, Undoing
  <2>2. CASE q # p
    <3> PICK y : y = proc[q]
      OBVIOUS
    <3>1. Facts(y) /\ proc'[q] = y
      BY <1>2, <2>2 DEF SafeInv
    <3>2. y.row # 0 => row'[y.row].st # "none"
      BY <3>1, Rows DEF Facts, Keeps
    <3>3. y.row # 0 /\ receipt[y.row] # "none" => receipt'[y.row] # "none"
      BY <3>1 DEF Facts, Keeps
    <3>4. Facts(y)'
      BY <3>1, <3>2, <3>3, <1>4, Rows DEF Facts, Holds, Undoing
    <3> QED BY <3>1, <3>4 DEF Facts, Holds, Undoing
  <2> QED BY <2>1, <2>2
<1>6. \A e \in mail' : e[1] = "void" => Voided(e[2])'
  BY <1>4 DEF SafeInv
<1> QED BY <1>3, <1>5, <1>6 DEF SafeInv

\* Nothing happens to rows and receipts.
LEMMA BooksKept ==
    ASSUME SafeInv, UNCHANGED <<row, receipt, direct>>
    PROVE  Keeps /\ Books' /\ (\A r \in Row : RowFacts(r)') /\ (\A v : Voided(v) <=> Voided(v)')
<1>1. Keeps
  BY DEF Keeps
<1>2. Books'
  BY DEF SafeInv, Books
<1>3. \A v : Voided(v) <=> Voided(v)'
  BY DEF Voided
<1>4. ASSUME NEW r \in Row PROVE RowFacts(r)'
  BY <1>3 DEF SafeInv, RowFacts
<1> QED BY <1>1, <1>2, <1>3, <1>4

LEMMA IdleFacts == Facts(Idle) /\ Facts(Idle)'
BY IdleIs DEF Facts, Holds, Undoing, Audit

\* A request that only moves on, to x.
LEMMA Walked ==
    ASSUME SafeInv, NEW p \in Proc, NEW x, Goes(p, x), IsRequest(x), Facts(x),
           UNCHANGED <<row, receipt, direct>>,
           \A e \in mail' : e \in mail \/ (e[1] = "void" => Voided(e[2]))
    PROVE  SafeInv'
<1>1. Keeps /\ Books' /\ (\A r \in Row : RowFacts(r)') /\ (\A v : Voided(v) <=> Voided(v)')
  BY BooksKept
<1>2. Facts(x)'
  BY <1>1 DEF Facts, Holds, Undoing
<1>3. \A e \in mail' : e \in mail \/ (e[1] = "void" => Voided(e[2])')
  BY <1>1
<1> QED BY <1>1, <1>2, <1>3, Moved

----------------------------------------------------------------------------
(* One lemma per action.                                                    *)

LEMMA Stays == ASSUME SafeInv, UNCHANGED proc, UNCHANGED <<row, receipt, direct>>, mail' \subseteq mail
               PROVE  SafeInv'
<1>1. Keeps /\ Books' /\ (\A r \in Row : RowFacts(r)') /\ (\A v : Voided(v) <=> Voided(v)')
  BY BooksKept
<1>2. Requests'
  BY DEF SafeInv, Requests
<1>3. ASSUME NEW q \in Proc PROVE Facts(proc[q])'
  BY <1>1 DEF SafeInv, Facts, Holds, Undoing
<1>4. \A e \in mail' : e[1] = "void" => Voided(e[2])'
  BY <1>1 DEF SafeInv
<1> QED BY <1>1, <1>2, <1>3, <1>4 DEF SafeInv

LEMMA SettleSafe ==
    ASSUME SafeInv, NEW p \in Proc, NEW o \in Order, NEW a, SettleCreditPayment(p, o, a)
    PROVE  SafeInv'
<1>1. UNCHANGED <<row, receipt, direct, mail>>
  BY DEF SettleCreditPayment, treasury
<1>2. CASE UNCHANGED proc
  BY <1>1, <1>2, Stays
<1>3. CASE \E b : Goes(p, [Idle EXCEPT !.at = "insert", !.ord = o, !.amt = b])
  <2>1. PICK x, b : Goes(p, x) /\ x = [Idle EXCEPT !.at = "insert", !.ord = o, !.amt = b]
    BY <1>3
  <2>2. IsRequest(x) /\ Facts(x)
    BY <2>1 DEF Idle, IsRequest, Facts, Holds, Undoing, Audit
  <2> QED BY <1>1, <2>1, <2>2, Walked
<1> QED BY <1>2, <1>3 DEF SettleCreditPayment

LEMMA InsertSafe ==
    ASSUME SafeInv, NEW p \in Proc, InsertSettlement(p)
    PROVE  SafeInv'
<1>1. UNCHANGED <<receipt, direct, mail>> /\ proc[p].at = "insert" /\ IsRequest(proc[p]) /\ Facts(proc[p])
  BY DEF InsertSettlement, treasury, SafeInv, Requests
<1>2. CASE Ends(p) /\ UNCHANGED row
  <2>1. PICK x : x = Idle
    OBVIOUS
  <2> QED BY <1>1, <1>2, <2>1, IdleIs, IdleFacts, Walked DEF Ends
<1>3. ASSUME NEW r \in Row, New(r), NEW a,
             row' = [row EXCEPT ![r] = [NoRow EXCEPT !.st = "completed", !.ord = proc[p].ord, !.amt = a]],
             Goes(p, [proc[p] EXCEPT !.at = "recount", !.row = r, !.then = "call"])
      PROVE  SafeInv'
  <2>1. PICK x, v : /\ x = [proc[p] EXCEPT !.at = "recount", !.row = r, !.then = "call"]
                    /\ v = [NoRow EXCEPT !.st = "completed", !.ord = proc[p].ord, !.amt = a]
    OBVIOUS
  <2>2. IsRow(v) /\ v.st = "completed" /\ v.synced = FALSE /\ v.undone = FALSE
    BY <2>1 DEF NoRow, IsRow
  <2>3. row[r].st = "none" /\ row' = [row EXCEPT ![r] = v]
    BY <1>3, <2>1 DEF New
  <2>4. row'[r] = v /\ (\A t \in Row : t # r => row'[t] = row[t]) /\ row' = [t \in Row |-> row'[t]]
    BY <2>3, Puts DEF SafeInv, Books
  <2>5. receipt[r] = "none"
    BY <2>3 DEF SafeInv, RowFacts
  <2>6. Keeps
    BY <1>1, <2>2, <2>3, <2>4 DEF Keeps
  <2>7. Books'
    BY <1>1, <2>2, <2>4 DEF SafeInv, Books
  <2>8. \A u : Voided(u) => Voided(u)'
    BY <2>6, VoidedStays DEF SafeInv
  <2>9. \A t \in Row : RowFacts(t)'
    BY <1>1, <2>2, <2>4, <2>5, <2>8 DEF SafeInv, RowFacts
  <2>10. /\ IsRequest(x) /\ x.at = "recount" /\ x.row = r /\ x.then = "call"
         /\ x.synced = proc[p].synced /\ x.ref = proc[p].ref
    BY <1>1, <2>1 DEF IsRequest
  <2>11. Facts(x)'
    BY <1>1, <2>2, <2>4, <2>8, <2>10, Rows DEF Facts, Holds, Undoing
  <2>12. Goes(p, x)
    BY <1>3, <2>1
  <2> QED BY <1>1, <2>6, <2>7, <2>9, <2>10, <2>11, <2>12, Moved
<1> QED BY <1>2, <1>3 DEF InsertSettlement

\* What a recount that succeeded, or failed, leaves the same; x and z are where the request goes.
SameWork(x, z) == /\ IsRequest(z) /\ z.at = x.then /\ z.then = x.then /\ z.row = x.row /\ z.ord = x.ord
                  /\ z.id = x.id /\ z.synced = x.synced /\ z.ref = x.ref

LEMMA AfterEither ==
    ASSUME NEW x, IsRequest(x)
    PROVE  /\ SameWork(x, AfterRecount(x)) /\ SameWork(x, AfterLostRecount(x))
           /\ AfterRecount(x).amt = IF x.then = "apply" THEN x.amt - Share(x) ELSE x.amt
           /\ AfterLostRecount(x).amt = x.amt
           /\ AfterRecount(x).due = IF x.then = "apply" THEN [x.due EXCEPT ![x.ord] = 0] ELSE x.due
           /\ AfterLostRecount(x).due = AfterRecount(x).due
<1> PICK at, r, o, amt, ref, due, id, synced, then, share :
       /\ at = x.at /\ r = x.row /\ o = x.ord /\ amt = x.amt /\ ref = x.ref /\ due = x.due
       /\ id = x.id /\ synced = x.synced /\ then = x.then /\ share = Share(x)
  OBVIOUS
<1> DEFINE Now(z) == /\ z.at = then /\ z.then = then /\ z.row = r /\ z.ord = o
                     /\ z.id = id /\ z.synced = synced /\ z.ref = ref
<1>1. x = [at |-> at, row |-> r, ord |-> o, amt |-> amt, ref |-> ref, due |-> due, id |-> id, synced |-> synced, then |-> then]
  BY DEF IsRequest
<1>2. CASE then = "apply"
  <2>1. /\ AfterRecount(x) = [at |-> "apply", row |-> r, ord |-> o, amt |-> amt - share, ref |-> ref, due |-> [due EXCEPT ![o] = 0],
                              id |-> id, synced |-> synced, then |-> then]
        /\ AfterLostRecount(x) = [at |-> "apply", row |-> r, ord |-> o, amt |-> amt, ref |-> ref, due |-> [due EXCEPT ![o] = 0],
                                  id |-> id, synced |-> synced, then |-> then]
    BY <1>1, <1>2 DEF AfterRecount, AfterLostRecount
  <2> QED BY <1>2, <2>1 DEF SameWork, IsRequest
<1>3. CASE then # "apply"
  <2>1. /\ AfterRecount(x) = [at |-> then, row |-> r, ord |-> o, amt |-> amt, ref |-> ref, due |-> due,
                              id |-> id, synced |-> synced, then |-> then]
        /\ AfterLostRecount(x) = AfterRecount(x)
    BY <1>1, <1>3 DEF AfterRecount, AfterLostRecount
  <2> QED BY <1>3, <2>1 DEF SameWork, IsRequest
<1> QED BY <1>2, <1>3

LEMMA Recounts ==
    ASSUME SafeInv, NEW p \in Proc, RecomputePaidTotal(p)
    PROVE  /\ UNCHANGED <<scene, row, receipt, direct, debt, mail>> /\ proc[p].at = "recount"
           /\ IsRequest(proc[p]) /\ Facts(proc[p])
           /\ \E x : Goes(p, x) /\ SameWork(proc[p], x)
<1>1. /\ UNCHANGED <<scene, row, receipt, direct, debt, mail>> /\ proc[p].at = "recount"
      /\ IsRequest(proc[p]) /\ Facts(proc[p])
  BY DEF RecomputePaidTotal, treasury, SafeInv, Requests
<1>2. Goes(p, AfterRecount(proc[p])) \/ Goes(p, AfterLostRecount(proc[p]))
  BY DEF RecomputePaidTotal
<1> QED BY <1>1, <1>2, AfterEither

LEMMA RecountSafe ==
    ASSUME SafeInv, NEW p \in Proc, RecomputePaidTotal(p)
    PROVE  SafeInv'
<1>1. UNCHANGED <<row, receipt, direct, mail>> /\ proc[p].at = "recount" /\ IsRequest(proc[p]) /\ Facts(proc[p])
  BY Recounts
<1>2. PICK x : Goes(p, x) /\ SameWork(proc[p], x)
  BY Recounts
<1>3. /\ IsRequest(x) /\ x.at = proc[p].then /\ x.row = proc[p].row
      /\ x.synced = proc[p].synced /\ x.ref = proc[p].ref
  BY <1>2 DEF SameWork
<1>4. Facts(x)
  BY <1>1, <1>3 DEF Facts, Holds, Undoing
<1> QED BY <1>1, <1>2, <1>3, <1>4, Walked

LEMMA ReceiptChanges ==
    ASSUME SafeInv, NEW p \in Proc, NEW x, Goes(p, x), IsRequest(x), NEW r \in Row, NEW v \in {"live", "void"},
           receipt' = [receipt EXCEPT ![r] = v], receipt[r] # "void", row[r].st # "none",
           UNCHANGED <<row, direct>>,
           \/ Facts(x)
           \/ x.at = "mark" /\ x.row = r /\ ~x.synced /\ (x.ref[1] = "void" => Voided(x.ref[2])),
           \A e \in mail' : e \in mail \/ (e[1] = "void" => Voided(e[2])')
    PROVE  SafeInv'
<1>1. receipt'[r] = v /\ (\A t \in Row : t # r => receipt'[t] = receipt[t]) /\ receipt' = [t \in Row |-> receipt'[t]]
  BY Puts DEF SafeInv, Books
<1>2. Keeps
  BY <1>1 DEF Keeps
<1>3. Books'
  BY <1>1 DEF SafeInv, Books
<1>4. \A u : Voided(u) => Voided(u)'
  BY <1>2, VoidedStays DEF SafeInv
<1>5. \A t \in Row : RowFacts(t)'
  BY <1>1, <1>4 DEF SafeInv, RowFacts
<1>6. CASE Facts(x)
  <2>1. Facts(x)'
    BY <1>1, <1>2, <1>4, <1>6 DEF Facts, Holds, Undoing, Keeps
  <2> QED BY <1>2, <1>3, <1>5, <2>1, Moved
<1>7. CASE x.at = "mark" /\ x.row = r /\ ~x.synced /\ (x.ref[1] = "void" => Voided(x.ref[2]))
  <2>1. Facts(x)'
    BY <1>1, <1>4, <1>7, Rows DEF Facts, Holds, Undoing
  <2> QED BY <1>2, <1>3, <1>5, <2>1, Moved
<1> QED BY <1>6, <1>7


\* A row in use, or the next one, becomes v.
LEMMA RowChanges ==
    ASSUME SafeInv, NEW p \in Proc, NEW x, Goes(p, x), IsRequest(x), Facts(x), NEW r \in Row, NEW v,
           row' = [row EXCEPT ![r] = v], IsRow(v), v.st # "none", row[r].st # "none" => v.ord = row[r].ord,
           v.synced => receipt[r] # "none", v.undone => Voided(v.ref[2]),
           UNCHANGED <<receipt, direct, mail>>
    PROVE  SafeInv'
<1>1. row'[r] = v /\ (\A t \in Row : t # r => row'[t] = row[t]) /\ row' = [t \in Row |-> row'[t]]
  BY Puts DEF SafeInv, Books
<1>2. Keeps
  BY <1>1 DEF Keeps
<1>3. Books'
  BY <1>1 DEF SafeInv, Books
<1>4. \A u : Voided(u) => Voided(u)'
  BY <1>2, VoidedStays DEF SafeInv
<1>5. \A t \in Row : RowFacts(t)'
  <2>1. RowFacts(r)'
    BY <1>1, <1>4 DEF SafeInv, RowFacts
  <2>2. ASSUME NEW t \in Row, t # r PROVE RowFacts(t)'
    BY <1>1, <1>4, <2>2 DEF SafeInv, RowFacts
  <2> QED BY <2>1, <2>2
<1>6. Facts(x)'
  BY <1>1, <1>4 DEF Facts, Holds, Undoing
<1>7. \A e \in mail' : e \in mail \/ (e[1] = "void" => Voided(e[2])')
  OBVIOUS
<1> QED BY <1>2, <1>3, <1>5, <1>6, <1>7, Moved

LEMMA PostSafe ==
    ASSUME SafeInv, NEW p \in Proc, RecordARPayment(p)
    PROVE  SafeInv'
<1> PICK r : r = proc[p].row
  OBVIOUS
<1>1. /\ UNCHANGED row /\ proc[p].at = "call" /\ IsRequest(proc[p]) /\ Facts(proc[p])
      /\ r \in Row /\ row[r].st # "none"
  BY DEF RecordARPayment, books, SafeInv, Requests, Facts, Holds
<1>2. CASE /\ Takes(r) /\ Post(r)
           /\ Goes(p, [proc[p] EXCEPT !.at = "mark", !.id = TRUE]) \/ Ends(p)
  <2>1. /\ receipt' = [receipt EXCEPT ![r] = "live"] /\ receipt[r] = "none"
        /\ UNCHANGED <<row, direct>> /\ mail' = mail \cup {<<"paid", row[r].ord>>}
    BY <1>1, <1>2 DEF Takes, Post
  <2>2. \A e \in mail' : e \in mail \/ (e[1] = "void" => Voided(e[2])')
    BY <2>1
  <2>3. CASE Goes(p, [proc[p] EXCEPT !.at = "mark", !.id = TRUE])
    <3>1. PICK x : x = [proc[p] EXCEPT !.at = "mark", !.id = TRUE]
      OBVIOUS
    <3>2. /\ IsRequest(x) /\ x.at = "mark" /\ x.row = r /\ x.synced = proc[p].synced /\ x.ref = proc[p].ref
      BY <1>1, <3>1 DEF IsRequest
    <3>3. ~x.synced /\ (x.ref[1] = "void" => Voided(x.ref[2]))
      BY <1>1, <2>1, <3>2 DEF Facts
    <3>4. Goes(p, x)
      BY <2>3, <3>1
    <3>5. \/ Facts(x)
          \/ x.at = "mark" /\ x.row = r /\ ~x.synced /\ (x.ref[1] = "void" => Voided(x.ref[2]))
      BY <3>2, <3>3
    <3> QED BY <1>1, <2>1, <2>2, <3>2, <3>4, <3>5, ReceiptChanges
  <2>4. CASE Ends(p)
    <3>1. PICK x : x = Idle
      OBVIOUS
    <3>2. Goes(p, x) /\ IsRequest(x) /\ Facts(x)
      BY <2>4, <3>1, IdleIs, IdleFacts DEF Ends
    <3> QED BY <1>1, <2>1, <2>2, <3>2, ReceiptChanges
  <2> QED BY <1>2, <2>3, <2>4
<1>3. CASE UNCHANGED <<receipt, direct, mail>> /\ Goes(p, Idle)
  <2>1. PICK x : x = Idle
    OBVIOUS
  <2> QED BY <1>1, <1>3, <2>1, IdleIs, IdleFacts, Walked
<1>4. CASE /\ receipt[r] # "none" /\ UNCHANGED <<receipt, direct, mail>>
           /\ Goes(p, [proc[p] EXCEPT !.at = "mark", !.id = FALSE])
  <2>1. PICK x : x = [proc[p] EXCEPT !.at = "mark", !.id = FALSE]
    OBVIOUS
  <2>2. /\ IsRequest(x) /\ x.at = "mark" /\ x.row = r /\ x.synced = proc[p].synced /\ x.ref = proc[p].ref
    BY <1>1, <2>1 DEF IsRequest
  <2>3. Facts(x)
    BY <1>1, <1>4, <2>2, Rows DEF Facts, Holds, Undoing
  <2>4. Goes(p, x)
    BY <1>4, <2>1
  <2> QED BY <1>1, <1>4, <2>2, <2>3, <2>4, Walked
<1> QED BY <1>2, <1>3, <1>4 DEF RecordARPayment, treasury, AfterRefusal

LEMMA MarkSafe ==
    ASSUME SafeInv, NEW p \in Proc, MarkSynced(p)
    PROVE  SafeInv'
<1> PICK r, x, i : r = proc[p].row /\ x = Idle /\ i = KeptId(p)
  OBVIOUS
<1>1. /\ UNCHANGED <<receipt, direct, mail>> /\ Goes(p, x) /\ IsRequest(x) /\ Facts(x)
      /\ r \in Row /\ row[r].st # "none" /\ receipt[r] # "none" /\ IsRow(row[r])
      /\ row[r].undone => Voided(row[r].ref[2])
  BY IdleIs, IdleFacts DEF MarkSynced, Ends, treasury, SafeInv, Facts, Holds, Books, RowFacts
<1>2. CASE UNCHANGED row
  BY <1>1, <1>2, Walked
<1>3. CASE row' = [row EXCEPT ![r].synced = TRUE, ![r].id = i]
  <2>1. PICK v : v = [[row[r] EXCEPT !.synced = TRUE] EXCEPT !.id = i]
    OBVIOUS
  <2>2. IsRow(v) /\ v.st = row[r].st /\ v.ord = row[r].ord /\ v.undone = row[r].undone /\ v.ref = row[r].ref
    BY <1>1, <2>1 DEF IsRow
  <2>3. row' = [row EXCEPT ![r] = v]
    BY <1>1, <1>3, <2>1 DEF SafeInv, Books
  <2> QED BY <1>1, <2>2, <2>3, RowChanges
<1> QED BY <1>2, <1>3 DEF MarkSynced

LEMMA VoidingSafe ==
    ASSUME SafeInv, NEW p \in Proc, VoidPayment(p)
    PROVE  SafeInv'
<1> PICK r, x : r = proc[p].row /\ x = [[proc[p] EXCEPT !.at = "recount"] EXCEPT !.then = "unreceipt"]
  OBVIOUS
<1>1. /\ UNCHANGED <<receipt, direct, mail>> /\ IsRequest(proc[p]) /\ Facts(proc[p]) /\ proc[p].at = "voiding"
      /\ r \in Row /\ row[r].st # "none" /\ IsRow(row[r]) /\ (row[r].undone => Voided(row[r].ref[2]))
      /\ (proc[p].synced => receipt[r] # "none")
  BY DEF VoidPayment, treasury, SafeInv, Requests, Facts, Holds, Books, RowFacts
<1>2. PICK v : v = [[[row[r] EXCEPT !.st = "voided"] EXCEPT !.id = proc[p].id] EXCEPT !.synced = proc[p].synced]
  OBVIOUS
<1>3. IsRow(v) /\ v.st = "voided" /\ v.ord = row[r].ord /\ v.undone = row[r].undone /\ v.ref = row[r].ref
      /\ v.synced = proc[p].synced
  BY <1>1, <1>2 DEF IsRow
<1>4. row' = [row EXCEPT ![r] = v]
  BY <1>1, <1>2 DEF VoidPayment, SafeInv, Books
<1>5. /\ IsRequest(x) /\ x.at = "recount" /\ x.then = "unreceipt" /\ x.row = r
      /\ x.synced = proc[p].synced /\ x.ref = proc[p].ref
  BY <1>1 DEF IsRequest
<1>6. Facts(x)
  BY <1>1, <1>5, Rows DEF Facts, Holds, Undoing
<1>7. Goes(p, x)
  BY <1>1 DEF VoidPayment, Goes, IsRequest
<1> QED BY <1>1, <1>3, <1>4, <1>5, <1>6, <1>7, RowChanges

LEMMA UnreceiptSafe ==
    ASSUME SafeInv, NEW p \in Proc, VoidARReceipt(p)
    PROVE  SafeInv'
<1> PICK r, x : r = proc[p].row /\ x = Idle
  OBVIOUS
<1>1. UNCHANGED row /\ Goes(p, x) /\ IsRequest(x) /\ Facts(x) /\ r \in Row /\ row[r].st # "none"
  BY IdleIs, IdleFacts DEF VoidARReceipt, Ends, books, SafeInv, Facts, Holds
<1>2. CASE UNCHANGED <<receipt, direct, mail>>
  BY <1>1, <1>2, Walked
<1>3. CASE /\ receipt[r] = "live" /\ receipt' = [receipt EXCEPT ![r] = "void"] /\ UNCHANGED direct
           /\ mail' = mail \cup {<<"void", row[r].ord>>}
  <2>1. receipt'[r] = "void"
    BY <1>1, <1>3 DEF SafeInv, Books
  <2>2. Voided(row[r].ord)'
    BY <1>1, <2>1 DEF Voided
  <2>3. \A e \in mail' : e \in mail \/ (e[1] = "void" => Voided(e[2])')
    BY <1>1, <1>3, <2>2
  <2> QED BY <1>1, <1>3, <2>3, ReceiptChanges
<1> QED BY <1>2, <1>3 DEF VoidARReceipt, treasury

LEMMA DirectSafe ==
    ASSUME SafeInv, NEW d \in Direct, (\E a : Receive(d, a)) \/ Withdraw(d)
    PROVE  SafeInv'
<1>1. UNCHANGED <<row, receipt, proc>>
  BY DEF Receive, Withdraw, books
<1>2. PICK v : direct' = [direct EXCEPT ![d] = v] /\ v = [st |-> v.st, amt |-> v.amt]
               /\ (direct[d].st = "void" => v.st = "void")
               /\ (mail' = mail \cup {<<"paid", d>>} \/ (v.st = "void" /\ mail' = mail \cup {<<"void", d>>}))
  BY DEF Receive, Withdraw, SafeInv, Books
<1>3. direct'[d] = v /\ (\A c \in Direct : c # d => direct'[c] = direct[c]) /\ direct' = [c \in Direct |-> direct'[c]]
  BY <1>2, Puts DEF SafeInv, Books
<1>4. Keeps
  BY <1>1, <1>2, <1>3 DEF Keeps
<1>5. \A u : Voided(u) => Voided(u)'
  BY <1>4, VoidedStays DEF SafeInv
<1>6. Requests' /\ Books'
  BY <1>1, <1>2, <1>3 DEF SafeInv, Books, Requests
<1>7. ASSUME NEW t \in Row PROVE RowFacts(t)'
  BY <1>1, <1>5 DEF SafeInv, RowFacts
<1>8. ASSUME NEW q \in Proc PROVE Facts(proc[q])'
  BY <1>1, <1>5 DEF SafeInv, Facts, Holds, Undoing
<1>9. ASSUME NEW e \in mail', e[1] = "void" PROVE Voided(e[2])'
  <2>1. CASE e \in mail
    BY <1>5, <1>9, <2>1 DEF SafeInv
  <2>2. CASE v.st = "void" /\ e = <<"void", d>>
    BY <1>3, <2>2 DEF Voided
  <2> QED BY <1>2, <1>9, <2>1, <2>2
<1> QED BY <1>6, <1>7, <1>8, <1>9 DEF SafeInv

\* An idle request takes up a row, or an event.
LEMMA TakenUp ==
    ASSUME SafeInv, NEW p \in Proc,
           \/ \E r \in Row : RetrySync(p, r) \/ LoadForVoid(p, r)
           \/ \E e \in mail : BalanceUpdated(p, e)
           \/ AuditOne(p)
    PROVE  SafeInv'
<1>1. ASSUME NEW r \in Row, RetrySync(p, r) PROVE SafeInv'
  <2>1. PICK x : x = [[[Idle EXCEPT !.at = "call"] EXCEPT !.row = r] EXCEPT !.ord = row[r].ord]
    OBVIOUS
  <2>2. IsRequest(x) /\ x.at = "call" /\ x.row = r /\ x.synced = FALSE /\ x.ref = Audit
    BY <2>1, IdleIs DEF IsRequest
  <2>3. Facts(x)
    <3>1. row[r].st # "none"
      BY <1>1 DEF RetrySync, Candidate, Unsynced
    <3>2. Holds(x) /\ ~Undoing(x) /\ x.ref[1] # "void"
      BY <2>2 DEF Holds, Undoing, Audit
    <3> QED BY <2>2, <3>1, <3>2, Rows DEF Facts
  <2>4. Goes(p, x) /\ UNCHANGED <<row, receipt, direct, mail>>
    BY <1>1, <2>1, IdleIs DEF RetrySync, Goes, books, treasury, IsRequest
  <2> QED BY <2>2, <2>3, <2>4, Walked
<1>2. ASSUME NEW r \in Row, LoadForVoid(p, r) PROVE SafeInv'
  <2>1. PICK x : x = [Idle EXCEPT !.at = "voiding", !.row = r, !.ord = row[r].ord,
                                  !.id = row[r].id, !.synced = row[r].synced]
    OBVIOUS
  <2>2. IsRequest(x) /\ x.at = "voiding" /\ x.row = r /\ x.synced = row[r].synced /\ x.ref = Audit
    BY <2>1 DEF IsRequest, Idle
  <2>3. Facts(x)
    <3>1. row[r].st # "none" /\ (row[r].synced => receipt[r] # "none")
      BY <1>2 DEF LoadForVoid, SafeInv, RowFacts
    <3>2. Holds(x) /\ ~Undoing(x) /\ x.ref[1] # "void"
      BY <2>2 DEF Holds, Undoing, Audit
    <3> QED BY <2>2, <3>1, <3>2, Rows DEF Facts
  <2>4. Goes(p, x) /\ UNCHANGED <<row, receipt, direct, mail>>
    BY <1>2, <2>1 DEF LoadForVoid, books, treasury
  <2> QED BY <2>2, <2>3, <2>4, Walked
<1>3. ASSUME NEW e \in mail, BalanceUpdated(p, e) PROVE SafeInv'
  <2>1. UNCHANGED <<row, receipt, direct>> /\ mail' \subseteq mail
    BY <1>3 DEF BalanceUpdated, books
  <2>2. CASE UNCHANGED proc
    BY <2>1, <2>2, Stays
  <2>3. CASE Goes(p, [Idle EXCEPT !.at = "read", !.ref = e, !.amt = debt])
    <3>1. PICK x : x = [Idle EXCEPT !.at = "read", !.ref = e, !.amt = debt]
      OBVIOUS
    <3>2. IsRequest(x) /\ x.at = "read" /\ x.row = 0 /\ x.synced = FALSE /\ x.ref = e
      BY <3>1 DEF IsRequest, Idle
    <3>3. Facts(x)
      BY <3>2 DEF SafeInv, Facts, Holds, Undoing
    <3>4. Goes(p, x)
      BY <2>3, <3>1
    <3> QED BY <2>1, <3>2, <3>3, <3>4, Walked
  <2> QED BY <1>3, <2>2, <2>3 DEF BalanceUpdated
<1>4. ASSUME AuditOne(p) PROVE SafeInv'
  <2>1. UNCHANGED <<row, receipt, direct, mail>>
    BY <1>4 DEF AuditOne, books, treasury
  <2>2. CASE UNCHANGED proc
    BY <2>1, <2>2, Stays
  <2>3. CASE Goes(p, [Idle EXCEPT !.at = "read", !.amt = debt])
    <3>1. PICK x : x = [Idle EXCEPT !.at = "read", !.amt = debt]
      OBVIOUS
    <3>2. IsRequest(x) /\ x.at = "read" /\ x.row = 0 /\ x.synced = FALSE /\ x.ref = Audit
      BY <3>1 DEF IsRequest, Idle
    <3>3. Facts(x)
      BY <3>2 DEF Facts, Holds, Undoing, Audit
    <3>4. Goes(p, x)
      BY <2>3, <3>1
    <3> QED BY <2>1, <3>2, <3>3, <3>4, Walked
  <2> QED BY <1>4, <2>2, <2>3 DEF AuditOne
<1> QED BY <1>1, <1>2, <1>3, <1>4

LEMMA ReadSafe ==
    ASSUME SafeInv, NEW p \in Proc, ReadOrders(p)
    PROVE  SafeInv'
<1>1. /\ UNCHANGED <<row, receipt, direct, mail>> /\ IsRequest(proc[p]) /\ Facts(proc[p])
      /\ proc[p].at = "read" /\ proc[p].row = 0 /\ ~proc[p].synced
  BY DEF ReadOrders, books, treasury, SafeInv, Requests, Facts, Holds
<1>2. ASSUME NEW x, Goes(p, x), IsRequest(x), x.at \in {"apply", "undo"}, x.row = 0, ~x.synced, x.ref = proc[p].ref,
             x.at = "undo" => proc[p].ref[1] = "void"
      PROVE  SafeInv'
  <2>1. Facts(x)
    BY <1>1, <1>2 DEF Facts, Holds, Undoing
  <2> QED BY <1>1, <1>2, <2>1, Walked
<1>3. ASSUME NEW a, NEW due, Goes(p, [proc[p] EXCEPT !.at = "apply", !.amt = a, !.due = due]) PROVE SafeInv'
  <2>1. PICK x : x = [proc[p] EXCEPT !.at = "apply", !.amt = a, !.due = due]
    OBVIOUS
  <2>2. IsRequest(x) /\ x.at = "apply" /\ x.row = 0 /\ ~x.synced /\ x.ref = proc[p].ref
    BY <1>1, <2>1 DEF IsRequest
  <2>3. Goes(p, x)
    BY <1>3, <2>1
  <2> QED BY <1>2, <2>2, <2>3
<1>4. ASSUME NEW a, Goes(p, [proc[p] EXCEPT !.at = "undo", !.amt = a]), proc[p].ref[1] = "void" PROVE SafeInv'
  <2>1. PICK x : x = [proc[p] EXCEPT !.at = "undo", !.amt = a]
    OBVIOUS
  <2>2. IsRequest(x) /\ x.at = "undo" /\ x.row = 0 /\ ~x.synced /\ x.ref = proc[p].ref
    BY <1>1, <2>1 DEF IsRequest
  <2>3. Goes(p, x)
    BY <1>4, <2>1
  <2> QED BY <1>2, <1>4, <2>2, <2>3
<1>5. CASE Ends(p)
  <2>1. PICK x : x = Idle
    OBVIOUS
  <2> QED BY <1>1, <1>5, <2>1, IdleIs, IdleFacts, Walked DEF Ends
<1> QED BY <1>3, <1>4, <1>5 DEF ReadOrders

LEMMA ApplySafe ==
    ASSUME SafeInv, NEW p \in Proc, ApplyReconcileSettlement(p)
    PROVE  SafeInv'
<1>1. /\ UNCHANGED <<receipt, direct, mail>> /\ IsRequest(proc[p]) /\ Facts(proc[p])
      /\ proc[p].at = "apply" /\ proc[p].row = 0 /\ ~proc[p].synced
  BY DEF ApplyReconcileSettlement, treasury, SafeInv, Requests, Facts, Holds
<1>2. CASE Ends(p) /\ UNCHANGED row
  <2>1. PICK x : x = Idle
    OBVIOUS
  <2> QED BY <1>1, <1>2, <2>1, IdleIs, IdleFacts, Walked DEF Ends
<1>3. ASSUME NEW o, UNCHANGED row, Goes(p, [proc[p] EXCEPT !.due[o] = 0]) PROVE SafeInv'
  <2>1. PICK x : x = [proc[p] EXCEPT !.due = [proc[p].due EXCEPT ![o] = 0]]
    OBVIOUS
  <2>2. IsRequest(x) /\ x.at = "apply" /\ x.row = 0 /\ ~x.synced /\ x.ref = proc[p].ref
    BY <1>1, <2>1 DEF IsRequest
  <2>3. Goes(p, x)
    BY <1>1, <1>3, <2>1 DEF IsRequest
  <2>4. Facts(x)
    BY <1>1, <2>2 DEF Facts, Holds, Undoing
  <2> QED BY <1>1, <1>3, <2>2, <2>3, <2>4, Walked
<1>4. ASSUME NEW r \in Row, NEW o, NEW a, New(r),
             row' = [row EXCEPT ![r] = [NoRow EXCEPT !.st = "completed", !.kind = "recon", !.ord = o,
                                                     !.amt = a, !.ref = proc[p].ref]],
             Goes(p, [proc[p] EXCEPT !.at = "recount", !.then = "apply", !.ord = o])
      PROVE  SafeInv'
  <2>1. PICK x : x = [proc[p] EXCEPT !.at = "recount", !.then = "apply", !.ord = o]
    OBVIOUS
  <2>2. PICK v : v = [NoRow EXCEPT !.st = "completed", !.kind = "recon", !.ord = o, !.amt = a, !.ref = proc[p].ref]
    OBVIOUS
  <2>3. /\ IsRequest(x) /\ x.at = "recount" /\ x.then = "apply" /\ x.row = 0 /\ ~x.synced /\ x.ref = proc[p].ref
    BY <1>1, <2>1 DEF IsRequest
  <2>4. Goes(p, x)
    BY <1>1, <1>4, <2>1 DEF IsRequest
  <2>5. Facts(x)
    BY <1>1, <2>3 DEF Facts, Holds, Undoing
  <2>6. IsRow(v) /\ v.st # "none" /\ v.synced = FALSE /\ v.undone = FALSE
    BY <2>2 DEF NoRow, IsRow
  <2>7. row[r].st = "none" /\ row' = [row EXCEPT ![r] = v]
    BY <1>4, <2>2 DEF New
  <2> QED BY <1>1, <2>3, <2>4, <2>5, <2>6, <2>7, RowChanges
<1> QED BY <1>2, <1>3, <1>4 DEF ApplyReconcileSettlement

LEMMA UndoSafe ==
    ASSUME SafeInv, NEW p \in Proc, UnreconcilePhantom(p)
    PROVE  SafeInv'
<1>1. /\ UNCHANGED <<receipt, direct, mail>> /\ IsRequest(proc[p]) /\ Facts(proc[p])
      /\ proc[p].at = "undo" /\ proc[p].row = 0 /\ ~proc[p].synced /\ Voided(proc[p].ref[2])
  BY DEF UnreconcilePhantom, treasury, SafeInv, Requests, Facts, Holds, Undoing
<1>2. CASE Ends(p) /\ UNCHANGED row
  <2>1. PICK x : x = Idle
    OBVIOUS
  <2> QED BY <1>1, <1>2, <2>1, IdleIs, IdleFacts, Walked DEF Ends
<1>3. ASSUME NEW r \in Row, Undoes(p, r), NEW cut,
             row' = [row EXCEPT ![r].amt = @ - cut, ![r].undone = TRUE],
             Goes(p, [proc[p] EXCEPT !.at = "recount", !.then = "undo", !.ord = row[r].ord, !.amt = @ - cut])
      PROVE  SafeInv'
  <2>1. PICK x : x = [proc[p] EXCEPT !.at = "recount", !.then = "undo", !.ord = row[r].ord, !.amt = proc[p].amt - cut]
    OBVIOUS
  <2>2. PICK v : v = [[row[r] EXCEPT !.amt = row[r].amt - cut] EXCEPT !.undone = TRUE]
    OBVIOUS
  <2>3. /\ IsRow(row[r]) /\ row[r].st = "completed" /\ row[r].ref[2] = proc[p].ref[2]
        /\ (row[r].synced => receipt[r] # "none")
    BY <1>3 DEF Undoes, SafeInv, Books, RowFacts
  <2>4. /\ IsRow(v) /\ v.st = "completed" /\ v.ord = row[r].ord /\ v.ref[2] = proc[p].ref[2]
        /\ v.synced = row[r].synced
    BY <2>2, <2>3 DEF IsRow
  <2>5. row' = [row EXCEPT ![r] = v]
    BY <1>3, <2>2, <2>3 DEF SafeInv, Books, IsRow
  <2>6. /\ IsRequest(x) /\ x.at = "recount" /\ x.then = "undo" /\ x.row = 0 /\ ~x.synced /\ x.ref = proc[p].ref
    BY <1>1, <2>1 DEF IsRequest
  <2>7. Goes(p, x)
    BY <1>1, <1>3, <2>1 DEF IsRequest
  <2>8. Facts(x)
    BY <1>1, <2>6 DEF Facts, Holds, Undoing
  <2>9. v.undone => Voided(v.ref[2])
    BY <1>1, <2>4
  <2> QED BY <1>1, <2>3, <2>4, <2>5, <2>6, <2>7, <2>8, <2>9, RowChanges
<1> QED BY <1>2, <1>3 DEF UnreconcilePhantom

LEMMA CrashSafe ==
    ASSUME SafeInv, NEW p \in Proc, Crash(p)
    PROVE  SafeInv'
<1> PICK x : x = Idle
  OBVIOUS
<1>1. UNCHANGED <<row, receipt, direct>> /\ Goes(p, x) /\ Facts(proc[p])
  BY DEF Crash, Ends, books, SafeInv
<1>2. mail' = mail \/ mail' = mail \cup {proc[p].ref}
  BY DEF Crash
<1>3. \A e \in mail' : e \in mail \/ (e[1] = "void" => Voided(e[2]))
  BY <1>1, <1>2 DEF Facts
<1> QED BY <1>1, <1>3, IdleIs, IdleFacts, Walked

----------------------------------------------------------------------------
LEMMA Inductive == SafeInv /\ [Next]_vars => SafeInv'
<1> SUFFICES ASSUME SafeInv, [Next]_vars PROVE SafeInv'
  OBVIOUS
<1>1. CASE UNCHANGED vars
  BY <1>1, Stays DEF vars
<1>2. CASE Treasury
  BY <1>2, DirectSafe DEF Treasury
<1>3. ASSUME NEW p \in Proc, Till(p) PROVE SafeInv'
  BY <1>3, SettleSafe, TakenUp DEF Till
<1>4. ASSUME NEW p \in Proc, Serve(p) PROVE SafeInv'
  BY <1>4, InsertSafe, RecountSafe, PostSafe, MarkSafe, VoidingSafe, UnreceiptSafe, ReadSafe, ApplySafe, UndoSafe
  DEF Serve
<1>5. ASSUME NEW p \in Proc, Worker(p) PROVE SafeInv'
  BY <1>5, TakenUp DEF Worker
<1> QED BY <1>1, <1>2, <1>3, <1>4, <1>5, CrashSafe DEF Next

\* A row the reconciler no longer looks at has its receipt at treasury, whichever answers were
\* lost and whoever else was at the row (credit_settlement.go:336).
THEOREM SyncedStaysPosted == Spec => []SyncedIsPosted
<1>1. SafeInv => SyncedIsPosted
  BY DEF SafeInv, RowFacts, SyncedIsPosted
<1> QED BY Start, Inductive, <1>1, PTL DEF Spec

\* A payment a pass recorded is taken back only for a receipt that was voided, whichever events
\* are repeated and passes overlap (ar_reconcile.go:283).
THEOREM UndoneStaysVoided == Spec => []UndoneWasVoided
<1>1. SafeInv => UndoneWasVoided
  BY DEF SafeInv, RowFacts, UndoneWasVoided
<1> QED BY Start, Inductive, <1>1, PTL DEF Spec

----------------------------------------------------------------------------
(* Voiding a settlement.  Without failures and overlaps every row is in one  *)
(* request's hands or at rest, and either way the id that would reverse its  *)
(* receipt is known: to the request that holds the row, or to the row.       *)

Rest(r) ==
    /\ row[r].st = "completed" /\ receipt[r] = "live" => row[r].id
    /\ row[r].st = "completed" /\ row[r].kind = "settle" /\ ~row[r].synced => receipt[r] = "none"
    /\ row[r].st = "voided" => receipt[r] # "live"

Calling(x) == x.at = "call" \/ (x.at = "recount" /\ x.then = "call")
Reversing(x) == x.at = "unreceipt" \/ (x.at = "recount" /\ x.then = "unreceipt")

Held(x) ==
    /\ Calling(x) => row[x.row].st = "completed" /\ receipt[x.row] = "none"
    /\ x.at = "mark" => row[x.row].st = "completed" /\ receipt[x.row] = "live" /\ x.id
    /\ x.at = "voiding" => row[x.row].st = "completed" /\ (receipt[x.row] = "live" => x.id)
    /\ Reversing(x) => row[x.row].st = "voided" /\ (receipt[x.row] = "live" => x.id)

Apart == \A p, q \in Proc : p # q /\ proc[p].row = proc[q].row => proc[p].row = 0

CalmFacts ==
    /\ Apart
    /\ \A p \in Proc : Held(proc[p])
    /\ \A r \in Row : ~AtRow(r) => Rest(r)
CalmInv == Calm => CalmFacts

SameRow(t) == /\ row'[t].st = row[t].st /\ row'[t].kind = row[t].kind /\ row'[t].id = row[t].id
              /\ row'[t].synced = row[t].synced /\ receipt'[t] = receipt[t]

LEMMA HeldByOne ==
    ASSUME Apart, NEW p \in Proc, NEW q \in Proc, q # p, proc[q].row = proc[p].row
    PROVE  proc[p].row = 0
BY DEF Apart

\* A request that is at row h before or after its step goes on to x; no other row is touched.
LEMMA CalmMoved ==
    ASSUME SafeInv, CalmFacts, NEW p \in Proc, NEW x, Goes(p, x), NEW h, h = 0 \/ h \in Row,
           proc[p].row \in {0, h}, x.row \in {0, h},
           \A q \in Proc : q # p /\ proc[q].row = h => h = 0,
           \A t \in Row : t # h => SameRow(t),
           Held(x)', h # 0 /\ x.row = 0 => Rest(h)'
    PROVE  CalmFacts'
<1>1. proc'[p] = x /\ (\A q \in Proc : q # p => proc'[q] = proc[q])
  BY Puts DEF Goes, SafeInv, Requests
<1>2. ASSUME NEW a \in Proc, NEW b \in Proc, a # b, proc'[a].row = proc'[b].row PROVE proc'[a].row = 0
  <2>1. CASE a = p
    BY <1>1, <1>2, <2>1
  <2>2. CASE b = p
    BY <1>1, <1>2, <2>2
  <2>3. CASE a # p /\ b # p
    BY <1>1, <1>2, <2>3 DEF CalmFacts, Apart
  <2> QED BY <2>1, <2>2, <2>3
<1>3. ASSUME NEW q \in Proc PROVE Held(proc[q])'
  <2>1. CASE q = p
    BY <1>1, <2>1 DEF Held, Calling, Reversing
  <2>2. CASE q # p
    <3> PICK y, t : y = proc[q] /\ t = y.row
      OBVIOUS
    <3>1. Held(y) /\ Facts(y) /\ proc'[q] = y /\ (t = h => h = 0)
      BY <1>1, <2>2 DEF CalmFacts, SafeInv
    <3>2. CASE Holds(y)
      <4>1. t \in Row /\ t # h
        BY <3>1, <3>2, Rows DEF Facts
      <4>2. SameRow(t)
        BY <4>1
      <4> QED BY <3>1, <4>2 DEF Held, SameRow, Calling, Reversing
    <3>3. CASE ~Holds(y)
      BY <3>1, <3>3 DEF Held, Holds, Calling, Reversing
    <3> QED BY <3>2, <3>3
  <2> QED BY <2>1, <2>2
<1>4. ASSUME NEW t \in Row, ~AtRow(t)' PROVE Rest(t)'
  <2>1. CASE t = h
    <3>1. x.row # h
      BY <1>1, <1>4, <2>1 DEF AtRow
    <3> QED BY <2>1, <3>1, Rows
  <2>2. CASE t # h
    <3>1. ~AtRow(t)
      BY <1>1, <1>4, <2>2, Rows DEF AtRow
    <3>2. Rest(t) /\ SameRow(t)
      BY <2>2, <3>1 DEF CalmFacts
    <3> QED BY <3>2 DEF Rest, SameRow
  <2> QED BY <2>1, <2>2
<1>5. Apart'
  BY <1>2 DEF Apart
<1> QED BY <1>3, <1>4, <1>5 DEF CalmFacts

\* A request that holds no row, before or after.
LEMMA CalmElsewhere ==
    ASSUME SafeInv, CalmFacts, NEW p \in Proc, NEW x, Goes(p, x), proc[p].row = 0, x.row = 0, ~Holds(x),
           \A t \in Row : SameRow(t)
    PROVE  CalmFacts'
<1>1. Held(x)'
  BY DEF Held, Holds, Calling, Reversing
<1> PICK h : h = 0
  OBVIOUS
<1> QED BY <1>1, CalmMoved

LEMMA SameRows == ASSUME UNCHANGED <<row, receipt>> PROVE \A t \in Row : SameRow(t)
BY DEF SameRow

LEMMA CalmStays == ASSUME CalmFacts, UNCHANGED <<row, receipt, proc>> PROVE CalmFacts'
BY DEF CalmFacts, Apart, Held, Calling, Reversing, Rest, AtRow

LEMMA NoMishap == ASSUME Calm PROVE ~Mishap("fail") /\ ~Mishap("late") /\ ~Mishap("crash") /\ ~May("overlap")
BY DEF Calm, Mishap, May

LEMMA CalmSettle ==
    ASSUME SafeInv, CalmFacts, NEW p \in Proc, NEW o \in Order, NEW a, SettleCreditPayment(p, o, a)
    PROVE  CalmFacts'
<1>1. UNCHANGED <<row, receipt>> /\ proc[p].row = 0
  BY IdleIs DEF SettleCreditPayment, treasury
<1>2. CASE UNCHANGED proc
  BY <1>1, <1>2, CalmStays
<1>3. CASE \E b : Goes(p, [Idle EXCEPT !.at = "insert", !.ord = o, !.amt = b])
  <2>1. PICK x, b : Goes(p, x) /\ x = [Idle EXCEPT !.at = "insert", !.ord = o, !.amt = b]
    BY <1>3
  <2>2. x.row = 0 /\ ~Holds(x)
    BY <2>1 DEF Idle, Holds
  <2> QED BY <1>1, <2>1, <2>2, SameRows, CalmElsewhere
<1> QED BY <1>2, <1>3 DEF SettleCreditPayment

LEMMA CalmInsert ==
    ASSUME SafeInv, CalmFacts, NEW p \in Proc, InsertSettlement(p)
    PROVE  CalmFacts'
<1>1. UNCHANGED receipt /\ IsRequest(proc[p]) /\ proc[p].row = 0
  BY DEF InsertSettlement, treasury, SafeInv, Requests, Facts, Holds
<1>2. CASE Ends(p) /\ UNCHANGED row
  <2>1. PICK x : x = Idle
    OBVIOUS
  <2>2. Goes(p, x) /\ x.row = 0 /\ ~Holds(x)
    BY <1>2, <2>1, IdleIs DEF Ends, Holds
  <2> QED BY <1>1, <1>2, <2>2, SameRows, CalmElsewhere
<1>3. ASSUME NEW r \in Row, New(r), NEW a,
             row' = [row EXCEPT ![r] = [NoRow EXCEPT !.st = "completed", !.ord = proc[p].ord, !.amt = a]],
             Goes(p, [proc[p] EXCEPT !.at = "recount", !.row = r, !.then = "call"])
      PROVE  CalmFacts'
  <2>1. PICK x, v : /\ x = [proc[p] EXCEPT !.at = "recount", !.row = r, !.then = "call"]
                    /\ v = [NoRow EXCEPT !.st = "completed", !.ord = proc[p].ord, !.amt = a]
    OBVIOUS
  <2>2. v.st = "completed"
    BY <2>1 DEF NoRow
  <2>3. row[r].st = "none" /\ row' = [row EXCEPT ![r] = v] /\ Goes(p, x)
    BY <1>3, <2>1 DEF New
  <2>4. row'[r] = v /\ (\A t \in Row : t # r => row'[t] = row[t])
    BY <2>3, Puts DEF SafeInv, Books
  <2>5. receipt[r] = "none"
    BY <2>3 DEF SafeInv, RowFacts
  <2>6. x.row = r /\ x.at = "recount" /\ x.then = "call"
    BY <1>1, <2>1 DEF IsRequest
  <2>7. Held(x)'
    BY <1>1, <2>2, <2>4, <2>5, <2>6 DEF Held, Calling, Reversing
  <2>8. ASSUME NEW q \in Proc PROVE proc[q].row # r
    BY <2>3, Rows DEF SafeInv, Facts
  <2>9. \A t \in Row : t # r => SameRow(t)
    BY <1>1, <2>4 DEF SameRow
  <2>10. r # 0
    BY Rows
  <2> QED BY <1>1, <2>3, <2>6, <2>7, <2>8, <2>9, <2>10, CalmMoved
<1> QED BY <1>2, <1>3 DEF InsertSettlement

LEMMA CalmRecount ==
    ASSUME SafeInv, CalmFacts, NEW p \in Proc, RecomputePaidTotal(p)
    PROVE  CalmFacts'
<1>1. UNCHANGED <<row, receipt>> /\ proc[p].at = "recount" /\ IsRequest(proc[p]) /\ Facts(proc[p]) /\ Held(proc[p])
  BY Recounts DEF CalmFacts
<1>2. PICK x, h : Goes(p, x) /\ SameWork(proc[p], x) /\ h = proc[p].row
  BY Recounts
<1>3. x.at = proc[p].then /\ x.row = h /\ x.id = proc[p].id
  BY <1>2 DEF SameWork
<1>4. h = 0 \/ h \in Row
  BY <1>1, <1>2 DEF Facts
<1>5. \A q \in Proc : q # p /\ proc[q].row = h => h = 0
  BY <1>2, HeldByOne DEF CalmFacts
<1>6. Held(x)'
  BY <1>1, <1>2, <1>3 DEF Held, Calling, Reversing, Facts
<1>7. h # 0 /\ x.row = 0 => Rest(h)'
  BY <1>3
<1>8. Goes(p, x) /\ proc[p].row = h
  BY <1>2
<1>9. \A t \in Row : SameRow(t)
  BY <1>1, SameRows
<1>10. proc[p].row \in {0, h} /\ x.row \in {0, h}
  BY <1>3, <1>8
<1> QED BY <1>4, <1>5, <1>6, <1>7, <1>8, <1>9, <1>10, CalmMoved

\* The step a request takes at the row it holds.
LEMMA CalmAtRow ==
    ASSUME SafeInv, CalmFacts, NEW p \in Proc, NEW x, Goes(p, x), NEW r \in Row, r = proc[p].row,
           x.row \in {0, r}, \A t \in Row : t # r => SameRow(t),
           Held(x)', x.row = 0 => Rest(r)'
    PROVE  CalmFacts'
<1>1. \A q \in Proc : q # p /\ proc[q].row = r => r = 0
  BY HeldByOne DEF CalmFacts
<1> QED BY <1>1, CalmMoved

LEMMA IdleHeld == Held(Idle)' /\ Idle.row = 0
BY IdleIs DEF Held, Calling, Reversing

LEMMA CalmPost ==
    ASSUME SafeInv, CalmFacts, Calm, NEW p \in Proc, RecordARPayment(p)
    PROVE  CalmFacts'
<1> PICK r : r = proc[p].row
  OBVIOUS
<1>1. /\ UNCHANGED row /\ proc[p].at = "call" /\ IsRequest(proc[p]) /\ r \in Row
      /\ row[r].st = "completed" /\ receipt[r] = "none"
  BY DEF RecordARPayment, books, SafeInv, Requests, Facts, Holds, CalmFacts, Held, Calling
<1>2. CASE /\ Takes(r) /\ Post(r)
           /\ Goes(p, [proc[p] EXCEPT !.at = "mark", !.id = TRUE])
  <2>1. PICK x : x = [proc[p] EXCEPT !.at = "mark", !.id = TRUE]
    OBVIOUS
  <2>2. x.at = "mark" /\ x.row = r /\ x.id /\ Goes(p, x)
    BY <1>1, <1>2, <2>1 DEF IsRequest
  <2>3. receipt' = [receipt EXCEPT ![r] = "live"]
    BY <1>2 DEF Post
  <2>4. receipt'[r] = "live" /\ (\A t \in Row : t # r => receipt'[t] = receipt[t])
    BY <2>3, <1>1, Puts DEF SafeInv, Books
  <2>5. Held(x)'
    BY <1>1, <2>2, <2>4 DEF Held, Calling, Reversing
  <2>6. \A t \in Row : t # r => SameRow(t)
    BY <1>1, <2>4 DEF SameRow
  <2>7. x.row # 0
    BY <1>1, <2>2, Rows
  <2> QED BY <1>1, <2>2, <2>5, <2>6, <2>7, CalmAtRow
<1>3. CASE UNCHANGED receipt /\ Goes(p, Idle)
  <2>1. PICK x : x = Idle
    OBVIOUS
  <2>2. Rest(r)'
    BY <1>1, <1>3 DEF Rest
  <2>3. Held(x)' /\ x.row = 0 /\ Goes(p, x)
    BY <1>3, <2>1, IdleHeld
  <2> QED BY <1>1, <1>3, <2>2, <2>3, SameRows, CalmAtRow
<1> QED BY <1>1, <1>2, <1>3, NoMishap DEF RecordARPayment, treasury, AfterRefusal

LEMMA CalmMark ==
    ASSUME SafeInv, CalmFacts, Calm, NEW p \in Proc, MarkSynced(p)
    PROVE  CalmFacts'
<1> PICK r, x : r = proc[p].row /\ x = Idle
  OBVIOUS
<1>1. /\ UNCHANGED receipt /\ Goes(p, x) /\ r \in Row /\ IsRow(row[r])
      /\ row[r].st = "completed" /\ receipt[r] = "live" /\ proc[p].id
  BY DEF MarkSynced, Ends, treasury, SafeInv, Facts, Holds, Books, CalmFacts, Held
<1>2. row' = [row EXCEPT ![r].synced = TRUE, ![r].id = KeptId(p)]
  BY NoMishap DEF MarkSynced
<1>3. PICK v : v = [[row[r] EXCEPT !.synced = TRUE] EXCEPT !.id = proc[p].id]
  OBVIOUS
<1>4. v.st = "completed" /\ v.synced = TRUE /\ v.id
  BY <1>1, <1>3 DEF IsRow
<1>5. row' = [row EXCEPT ![r] = v]
  BY <1>1, <1>2, <1>3 DEF SafeInv, Books, KeptId
<1>6. row'[r] = v /\ (\A t \in Row : t # r => row'[t] = row[t])
  BY <1>1, <1>5, Puts DEF SafeInv, Books
<1>7. Rest(r)'
  BY <1>1, <1>4, <1>6 DEF Rest
<1>8. \A t \in Row : t # r => SameRow(t)
  BY <1>1, <1>6 DEF SameRow
<1> QED BY <1>1, <1>7, <1>8, IdleHeld, CalmAtRow

LEMMA CalmVoiding ==
    ASSUME SafeInv, CalmFacts, NEW p \in Proc, VoidPayment(p)
    PROVE  CalmFacts'
<1> PICK r, x : r = proc[p].row /\ x = [[proc[p] EXCEPT !.at = "recount"] EXCEPT !.then = "unreceipt"]
  OBVIOUS
<1>1. /\ UNCHANGED receipt /\ IsRequest(proc[p]) /\ r \in Row /\ IsRow(row[r])
      /\ (receipt[r] = "live" => proc[p].id)
  BY DEF VoidPayment, treasury, SafeInv, Requests, Facts, Holds, Books, CalmFacts, Held
<1>2. PICK v : v = [[[row[r] EXCEPT !.st = "voided"] EXCEPT !.id = proc[p].id] EXCEPT !.synced = proc[p].synced]
  OBVIOUS
<1>3. v.st = "voided"
  BY <1>1, <1>2 DEF IsRow
<1>4. row' = [row EXCEPT ![r] = v]
  BY <1>1, <1>2 DEF VoidPayment, SafeInv, Books
<1>5. row'[r] = v /\ (\A t \in Row : t # r => row'[t] = row[t])
  BY <1>1, <1>4, Puts DEF SafeInv, Books
<1>6. x.at = "recount" /\ x.then = "unreceipt" /\ x.row = r /\ x.id = proc[p].id
  BY <1>1 DEF IsRequest
<1>7. Goes(p, x)
  BY <1>1 DEF VoidPayment, Goes, IsRequest
<1>8. Held(x)'
  BY <1>1, <1>3, <1>5, <1>6 DEF Held, Calling, Reversing
<1>9. \A t \in Row : t # r => SameRow(t)
  BY <1>1, <1>5 DEF SameRow
<1>10. x.row # 0
  BY <1>1, <1>6, Rows
<1> QED BY <1>1, <1>6, <1>7, <1>8, <1>9, <1>10, CalmAtRow

LEMMA CalmUnreceipt ==
    ASSUME SafeInv, CalmFacts, Calm, NEW p \in Proc, VoidARReceipt(p)
    PROVE  CalmFacts'
<1> PICK r, x : r = proc[p].row /\ x = Idle
  OBVIOUS
<1>1. /\ UNCHANGED row /\ Goes(p, x) /\ r \in Row /\ row[r].st = "voided"
      /\ (receipt[r] = "live" => proc[p].id)
  BY DEF VoidARReceipt, Ends, books, SafeInv, Facts, Holds, CalmFacts, Held, Reversing
<1>2. CASE receipt' = [receipt EXCEPT ![r] = "void"]
  <2>1. receipt'[r] = "void" /\ (\A t \in Row : t # r => receipt'[t] = receipt[t])
    BY <1>1, <1>2, Puts DEF SafeInv, Books
  <2>2. Rest(r)' /\ \A t \in Row : t # r => SameRow(t)
    BY <1>1, <2>1 DEF Rest, SameRow
  <2> QED BY <1>1, <2>2, IdleHeld, CalmAtRow
<1>3. CASE UNCHANGED receipt /\ receipt[r] # "live"
  <2>1. Rest(r)'
    BY <1>1, <1>3 DEF Rest
  <2> QED BY <1>1, <1>3, <2>1, IdleHeld, SameRows, CalmAtRow
<1> QED BY <1>1, <1>2, <1>3, NoMishap DEF VoidARReceipt, treasury

\* An idle request takes up a row at rest.
LEMMA CalmTakesUp ==
    ASSUME SafeInv, CalmFacts, NEW p \in Proc, NEW x, Goes(p, x), proc[p].row = 0, NEW r \in Row, x.row = r,
           ~AtRow(r), UNCHANGED <<row, receipt>>, Held(x)
    PROVE  CalmFacts'
<1>1. \A q \in Proc : q # p /\ proc[q].row = r => r = 0
  BY DEF AtRow
<1>2. Held(x)'
  BY DEF Held, Calling, Reversing
<1>3. r # 0
  BY Rows
<1> QED BY <1>1, <1>2, <1>3, SameRows, CalmMoved

LEMMA CalmRetry ==
    ASSUME SafeInv, CalmFacts, NEW p \in Proc, NEW r \in Row, RetrySync(p, r)
    PROVE  CalmFacts'
<1>1. PICK x : x = [[[Idle EXCEPT !.at = "call"] EXCEPT !.row = r] EXCEPT !.ord = row[r].ord]
  OBVIOUS
<1>2. x.at = "call" /\ x.row = r
  BY <1>1, IdleIs DEF IsRequest
<1>3. Goes(p, x) /\ UNCHANGED <<row, receipt>> /\ proc[p].row = 0 /\ ~AtRow(r)
  BY <1>1, IdleIs DEF RetrySync, Goes, books, treasury, IsRequest
<1>4. row[r].st = "completed" /\ receipt[r] = "none"
  BY <1>3 DEF RetrySync, Candidate, Unsynced, CalmFacts, Rest
<1>5. Held(x)
  BY <1>2, <1>4 DEF Held, Calling, Reversing
<1> QED BY <1>2, <1>3, <1>5, CalmTakesUp

LEMMA CalmLoad ==
    ASSUME SafeInv, CalmFacts, Calm, NEW p \in Proc, NEW r \in Row, LoadForVoid(p, r)
    PROVE  CalmFacts'
<1>1. PICK x : x = [Idle EXCEPT !.at = "voiding", !.row = r, !.ord = row[r].ord,
                                !.id = row[r].id, !.synced = row[r].synced]
  OBVIOUS
<1>2. x.at = "voiding" /\ x.row = r /\ x.id = row[r].id
  BY <1>1 DEF Idle
<1>3. Goes(p, x) /\ UNCHANGED <<row, receipt>> /\ proc[p].row = 0 /\ ~AtRow(r) /\ row[r].st = "completed"
  BY <1>1, IdleIs, NoMishap DEF LoadForVoid, books, treasury
<1>4. receipt[r] = "live" => row[r].id
  BY <1>3 DEF CalmFacts, Rest
<1>5. Held(x)
  BY <1>2, <1>3, <1>4 DEF Held, Calling, Reversing
<1> QED BY <1>2, <1>3, <1>5, CalmTakesUp

\* The work of a pass, which is at no row.
LEMMA CalmBegins ==
    ASSUME SafeInv, CalmFacts, NEW p \in Proc, (\E e \in mail : BalanceUpdated(p, e)) \/ AuditOne(p)
    PROVE  CalmFacts'
<1>1. UNCHANGED <<row, receipt>> /\ proc[p].row = 0
  BY IdleIs DEF BalanceUpdated, AuditOne, books, treasury
<1>2. CASE UNCHANGED proc
  BY <1>1, <1>2, CalmStays
<1>3. ASSUME NEW e, NEW a, Goes(p, [Idle EXCEPT !.at = "read", !.ref = e, !.amt = a]) PROVE CalmFacts'
  <2>1. PICK x : x = [Idle EXCEPT !.at = "read", !.ref = e, !.amt = a]
    OBVIOUS
  <2>2. x.row = 0 /\ ~Holds(x) /\ Goes(p, x)
    BY <1>3, <2>1 DEF Idle, Holds
  <2> QED BY <1>1, <2>2, SameRows, CalmElsewhere
<1>4. ASSUME NEW a, Goes(p, [Idle EXCEPT !.at = "read", !.amt = a]) PROVE CalmFacts'
  <2>1. PICK x : x = [Idle EXCEPT !.at = "read", !.amt = a]
    OBVIOUS
  <2>2. x.row = 0 /\ ~Holds(x) /\ Goes(p, x)
    BY <1>4, <2>1 DEF Idle, Holds
  <2> QED BY <1>1, <2>2, SameRows, CalmElsewhere
<1> QED BY <1>2, <1>3, <1>4 DEF BalanceUpdated, AuditOne

LEMMA CalmRead ==
    ASSUME SafeInv, CalmFacts, NEW p \in Proc, ReadOrders(p)
    PROVE  CalmFacts'
<1>1. UNCHANGED <<row, receipt>> /\ IsRequest(proc[p]) /\ proc[p].row = 0
  BY DEF ReadOrders, books, treasury, SafeInv, Requests, Facts, Holds
<1>2. ASSUME NEW x, Goes(p, x), x.at \in {"apply", "undo", "idle"}, x.row = 0 PROVE CalmFacts'
  <2>1. ~Holds(x)
    BY <1>2 DEF Holds
  <2> QED BY <1>1, <1>2, <2>1, SameRows, CalmElsewhere
<1>3. ASSUME NEW a, NEW due, Goes(p, [proc[p] EXCEPT !.at = "apply", !.amt = a, !.due = due]) PROVE CalmFacts'
  <2>1. PICK x : x = [proc[p] EXCEPT !.at = "apply", !.amt = a, !.due = due]
    OBVIOUS
  <2>2. x.at = "apply" /\ x.row = 0 /\ Goes(p, x)
    BY <1>1, <1>3, <2>1 DEF IsRequest
  <2> QED BY <1>2, <2>2
<1>4. ASSUME NEW a, Goes(p, [proc[p] EXCEPT !.at = "undo", !.amt = a]) PROVE CalmFacts'
  <2>1. PICK x : x = [proc[p] EXCEPT !.at = "undo", !.amt = a]
    OBVIOUS
  <2>2. x.at = "undo" /\ x.row = 0 /\ Goes(p, x)
    BY <1>1, <1>4, <2>1 DEF IsRequest
  <2> QED BY <1>2, <2>2
<1>5. CASE Ends(p)
  <2>1. PICK x : x = Idle
    OBVIOUS
  <2>2. x.at = "idle" /\ x.row = 0 /\ Goes(p, x)
    BY <1>5, <2>1, IdleIs DEF Ends
  <2> QED BY <1>2, <2>2
<1> QED BY <1>3, <1>4, <1>5 DEF ReadOrders

LEMMA CalmApply ==
    ASSUME SafeInv, CalmFacts, Calm, NEW p \in Proc, ApplyReconcileSettlement(p)
    PROVE  CalmFacts'
<1>1. UNCHANGED receipt /\ IsRequest(proc[p]) /\ proc[p].row = 0
  BY DEF ApplyReconcileSettlement, treasury, SafeInv, Requests, Facts, Holds
<1>2. CASE Ends(p) /\ UNCHANGED row
  <2>1. PICK x : x = Idle
    OBVIOUS
  <2>2. Goes(p, x) /\ x.row = 0 /\ ~Holds(x)
    BY <1>2, <2>1, IdleIs DEF Ends, Holds
  <2> QED BY <1>1, <1>2, <2>2, SameRows, CalmElsewhere
<1>4. ASSUME NEW r \in Row, NEW o, NEW a, New(r),
             row' = [row EXCEPT ![r] = [NoRow EXCEPT !.st = "completed", !.kind = "recon", !.ord = o,
                                                     !.amt = a, !.ref = proc[p].ref]],
             Goes(p, [proc[p] EXCEPT !.at = "recount", !.then = "apply", !.ord = o])
      PROVE  CalmFacts'
  <2>1. PICK x : x = [proc[p] EXCEPT !.at = "recount", !.then = "apply", !.ord = o]
    OBVIOUS
  <2>2. PICK v : v = [NoRow EXCEPT !.st = "completed", !.kind = "recon", !.ord = o, !.amt = a, !.ref = proc[p].ref]
    OBVIOUS
  <2>3. x.at = "recount" /\ x.then = "apply" /\ x.row = 0
    BY <1>1, <2>1 DEF IsRequest
  <2>4. Goes(p, x)
    BY <1>1, <1>4, <2>1 DEF IsRequest
  <2>6. v.st = "completed" /\ v.kind = "recon"
    BY <2>2 DEF NoRow
  <2>7. row[r].st = "none" /\ row' = [row EXCEPT ![r] = v]
    BY <1>4, <2>2 DEF New
  <2>8. row'[r] = v /\ (\A t \in Row : t # r => row'[t] = row[t])
    BY <2>7, Puts DEF SafeInv, Books
  <2>9. receipt[r] = "none"
    BY <2>7 DEF SafeInv, RowFacts
  <2>10. Rest(r)'
    BY <1>1, <2>6, <2>8, <2>9 DEF Rest
  <2>11. ASSUME NEW q \in Proc PROVE proc[q].row # r
    BY <2>7, Rows DEF SafeInv, Facts
  <2>12. \A t \in Row : t # r => SameRow(t)
    BY <1>1, <2>8 DEF SameRow
  <2>13. Held(x)'
    BY <2>3 DEF Held, Calling, Reversing
  <2> QED BY <1>1, <2>3, <2>4, <2>10, <2>11, <2>12, <2>13, CalmMoved
<1> QED BY <1>2, <1>4, NoMishap DEF ApplyReconcileSettlement

LEMMA CalmUndo ==
    ASSUME SafeInv, CalmFacts, NEW p \in Proc, UnreconcilePhantom(p)
    PROVE  CalmFacts'
<1>1. UNCHANGED receipt /\ IsRequest(proc[p]) /\ proc[p].row = 0
  BY DEF UnreconcilePhantom, treasury, SafeInv, Requests, Facts, Holds
<1>2. CASE Ends(p) /\ UNCHANGED row
  <2>1. PICK x : x = Idle
    OBVIOUS
  <2>2. Goes(p, x) /\ x.row = 0 /\ ~Holds(x)
    BY <1>2, <2>1, IdleIs DEF Ends, Holds
  <2> QED BY <1>1, <1>2, <2>2, SameRows, CalmElsewhere
<1>3. ASSUME NEW r \in Row, NEW cut,
             row' = [row EXCEPT ![r].amt = @ - cut, ![r].undone = TRUE],
             Goes(p, [proc[p] EXCEPT !.at = "recount", !.then = "undo", !.ord = row[r].ord, !.amt = @ - cut])
      PROVE  CalmFacts'
  <2>1. PICK x : x = [proc[p] EXCEPT !.at = "recount", !.then = "undo", !.ord = row[r].ord, !.amt = proc[p].amt - cut]
    OBVIOUS
  <2>2. PICK v : v = [[row[r] EXCEPT !.amt = row[r].amt - cut] EXCEPT !.undone = TRUE]
    OBVIOUS
  <2>3. IsRow(row[r])
    BY DEF SafeInv, Books
  <2>4. v.st = row[r].st /\ v.kind = row[r].kind /\ v.id = row[r].id /\ v.synced = row[r].synced
    BY <2>2, <2>3 DEF IsRow
  <2>5. row' = [row EXCEPT ![r] = v]
    BY <1>3, <2>2, <2>3 DEF SafeInv, Books, IsRow
  <2>6. row'[r] = v /\ (\A t \in Row : t # r => row'[t] = row[t])
    BY <2>5, Puts DEF SafeInv, Books
  <2>7. \A t \in Row : SameRow(t)
    BY <1>1, <2>4, <2>6 DEF SameRow
  <2>8. x.at = "recount" /\ x.then = "undo" /\ x.row = 0
    BY <1>1, <2>1 DEF IsRequest
  <2>9. Goes(p, x)
    BY <1>1, <1>3, <2>1 DEF IsRequest
  <2>10. ~Holds(x)
    BY <2>8 DEF Holds
  <2> QED BY <1>1, <2>7, <2>8, <2>9, <2>10, CalmElsewhere
<1> QED BY <1>2, <1>3 DEF UnreconcilePhantom

LEMMA CalmStart == Init => CalmInv
<1> SUFFICES ASSUME Init PROVE CalmFacts
  BY DEF CalmInv
<1>1. Apart /\ \A p \in Proc : Held(proc[p])
  BY IdleIs DEF Init, Apart, Held, Calling, Reversing
<1>2. \A r \in Row : Rest(r)
  BY NoRowIs DEF Init, Rest
<1> QED BY <1>1, <1>2 DEF CalmFacts

\* No step changes what may go wrong.
LEMMA SceneStays == ASSUME [Next]_vars PROVE UNCHANGED scene
<1>1. ASSUME NEW p \in Proc, Till(p) PROVE UNCHANGED scene
  BY <1>1 DEF Till, SettleCreditPayment, LoadForVoid
<1>2. ASSUME NEW p \in Proc, Serve(p) PROVE UNCHANGED scene
  <2>1. CASE InsertSettlement(p) \/ RecomputePaidTotal(p) \/ RecordARPayment(p) \/ MarkSynced(p)
    BY <2>1 DEF InsertSettlement, RecomputePaidTotal, RecordARPayment, MarkSynced
  <2>2. CASE VoidPayment(p) \/ VoidARReceipt(p)
    BY <2>2 DEF VoidPayment, VoidARReceipt
  <2>3. CASE ReadOrders(p) \/ ApplyReconcileSettlement(p) \/ UnreconcilePhantom(p)
    BY <2>3 DEF ReadOrders, ApplyReconcileSettlement, UnreconcilePhantom
  <2> QED BY <1>2, <2>1, <2>2, <2>3 DEF Serve
<1>3. ASSUME NEW p \in Proc, Worker(p) PROVE UNCHANGED scene
  BY <1>3 DEF Worker, RetrySync, BalanceUpdated, AuditOne
<1>4. ASSUME NEW p \in Proc, Crash(p) PROVE UNCHANGED scene
  BY <1>4 DEF Crash
<1>5. CASE Treasury
  BY <1>5 DEF Treasury, Receive, Withdraw
<1>6. CASE UNCHANGED vars
  BY <1>6 DEF vars
<1> QED BY <1>1, <1>2, <1>3, <1>4, <1>5, <1>6 DEF Next

LEMMA CalmInductive == SafeInv /\ CalmInv /\ [Next]_vars => CalmInv'
<1> SUFFICES ASSUME SafeInv, CalmInv, [Next]_vars, Calm' PROVE CalmFacts'
  BY DEF CalmInv
<1>1. UNCHANGED scene
  BY SceneStays
<1>2. Calm /\ CalmFacts
  BY <1>1 DEF Calm, CalmInv
<1>3. CASE UNCHANGED vars
  BY <1>2, <1>3, CalmStays DEF vars
<1>4. CASE Treasury
  BY <1>2, <1>4, CalmStays DEF Treasury, Receive, Withdraw, books
<1>5. ASSUME NEW p \in Proc, Till(p) PROVE CalmFacts'
  BY <1>2, <1>5, CalmSettle, CalmLoad DEF Till
<1>6. ASSUME NEW p \in Proc, Serve(p) PROVE CalmFacts'
  BY <1>2, <1>6, CalmInsert, CalmRecount, CalmPost, CalmMark, CalmVoiding, CalmUnreceipt, CalmRead, CalmApply, CalmUndo
  DEF Serve
<1>7. ASSUME NEW p \in Proc, Worker(p) PROVE CalmFacts'
  BY <1>2, <1>7, CalmRetry, CalmBegins DEF Worker
<1>8. ASSUME NEW p \in Proc, Crash(p) PROVE CalmFacts'
  BY <1>2, <1>8, NoMishap DEF Crash
<1> QED BY <1>3, <1>4, <1>5, <1>6, <1>7, <1>8 DEF Next

\* Without failures and overlaps, a voided settlement leaves no receipt at treasury, whichever of the
\* posting, the mark and the reconciler came first (manage.go:234).
THEOREM VoidsStayReversed == Spec => []VoidedIsReversed
<1>1. CalmInv => VoidedIsReversed
  BY DEF CalmInv, CalmFacts, Rest, VoidedIsReversed
<1> QED BY Start, Inductive, CalmStart, CalmInductive, <1>1, PTL DEF Spec

----------------------------------------------------------------------------
(* Sums.  The library's sum of a function over a finite set takes whichever  *)
(* member CHOOSE picks, and then the others.  A claim about the sums over    *)
(* all subsets of a finite set holds if no least subset refutes it, which is *)
(* how each lemma is shown; none needs an induction rule with a predicate    *)
(* as its parameter.                                                         *)

Pick(s) == CHOOSE x \in s : TRUE
IsSum(g, f, S) == g = [s \in SUBSET S |-> IF s = {} THEN 0 ELSE f[Pick(s)] + g[s \ {Pick(s)}]]

LEMMA Picked == ASSUME NEW S, S # {} PROVE Pick(S) \in S
BY DEF Pick

LEMMA Least ==
    ASSUME NEW S, IsFiniteSet(S), NEW T, T \subseteq SUBSET S, T # {}
    PROVE  \E t \in T : \A u \in SUBSET t : u # t => u \notin T
<1>1. IsWellFoundedOn(StrictSubsetOrdering(S), SUBSET S)
  BY FS_StrictSubsetOrderingWellFounded, FS_FiniteSubsetsOfFinite
<1>2. PICK t \in T : \A u \in T : <<u, t>> \notin StrictSubsetOrdering(S)
  <2> PICK R : R = StrictSubsetOrdering(S)
    OBVIOUS
  <2> QED BY <1>1, WFMin, Zenon
<1>3. ASSUME NEW u \in SUBSET t, u # t, u \in T PROVE FALSE
  <2>1. <<u, t>> \in StrictSubsetOrdering(S)
    <3>1. <<u, t>> \in (SUBSET S) \X (SUBSET S)
      BY <1>3
    <3> QED BY <1>3, <3>1 DEF StrictSubsetOrdering
  <2> QED BY <1>2, <1>3, <2>1
<1> QED BY <1>3

LEMMA SumUnique ==
    ASSUME NEW f, NEW S, NEW U, NEW g, NEW h, IsSum(g, f, S), IsSum(h, f, U),
           NEW t, IsFiniteSet(t), t \subseteq S, t \subseteq U
    PROVE  g[t] = h[t]
<1> DEFINE T == {s \in SUBSET t : g[s] # h[s]}
<1>1. ASSUME NEW s \in T, \A u \in SUBSET s : u # s => u \notin T PROVE FALSE
  <2>1. s \in SUBSET S /\ s \in SUBSET U /\ s \in SUBSET t /\ g[s] # h[s]
    OBVIOUS
  <2>2. g[s] = IF s = {} THEN 0 ELSE f[Pick(s)] + g[s \ {Pick(s)}]
    BY <2>1 DEF IsSum
  <2>3. h[s] = IF s = {} THEN 0 ELSE f[Pick(s)] + h[s \ {Pick(s)}]
    BY <2>1 DEF IsSum
  <2>4. s # {}
    BY <2>1, <2>2, <2>3
  <2>5. s \ {Pick(s)} \in SUBSET s /\ s \ {Pick(s)} # s
    BY <2>4, Picked
  <2>6. g[s \ {Pick(s)}] = h[s \ {Pick(s)}]
    BY <1>1, <2>1, <2>5
  <2> QED BY <2>1, <2>2, <2>3, <2>4, <2>6
<1>2. T \subseteq SUBSET t
  OBVIOUS
<1> HIDE DEF T
<1>3. T = {}
  BY <1>1, <1>2, Least
<1> QED BY <1>3 DEF T

LEMMA SumExists ==
    ASSUME NEW f, NEW S, IsFiniteSet(S)
    PROVE  \E g : IsSum(g, f, S)
<1> DEFINE T == {s \in SUBSET S : ~\E g : IsSum(g, f, s)}
<1>1. ASSUME NEW s \in T, \A u \in SUBSET s : u # s => u \notin T PROVE FALSE
  <2> DEFINE G(u) == CHOOSE g : IsSum(g, f, u)
             rest(u) == u \ {Pick(u)}
             value(u) == IF u = {} THEN 0 ELSE f[Pick(u)] + G(rest(u))[rest(u)]
             h == [u \in SUBSET s |-> value(u)]
  <2>1. s \in SUBSET S /\ ~\E g : IsSum(g, f, s)
    OBVIOUS
  <2>2. ASSUME NEW u \in SUBSET s, u # s PROVE IsSum(G(u), f, u)
    <3>1. \E g : IsSum(g, f, u)
      BY <1>1, <2>1, <2>2
    <3> QED BY <3>1
  <2> HIDE DEF G
  <2>3. ASSUME NEW u \in SUBSET s, u # s PROVE G(u)[u] = value(u)
    <3>1. IsSum(G(u), f, u)
      BY <2>2, <2>3
    <3>2. G(u)[u] = IF u = {} THEN 0 ELSE f[Pick(u)] + G(u)[rest(u)]
      BY <3>1 DEF IsSum
    <3>3. CASE u # {}
      <4>1. rest(u) \in SUBSET u /\ rest(u) \in SUBSET s /\ rest(u) # s
        BY <2>3
      <4>1a. IsSum(G(rest(u)), f, rest(u))
        BY <2>2, <4>1
      <4>2. IsFiniteSet(rest(u))
        BY <2>1, <4>1, FS_Subset
      <4> HIDE DEF rest
      <4>3. G(u)[rest(u)] = G(rest(u))[rest(u)]
        BY <3>1, <4>1, <4>1a, <4>2, SumUnique
      <4> QED BY <3>2, <3>3, <4>3
    <3> QED BY <3>2, <3>3
  <2>4. ASSUME NEW u \in SUBSET s PROVE h[u] = IF u = {} THEN 0 ELSE f[Pick(u)] + h[rest(u)]
    <3>1. CASE u # {}
      <4>1. rest(u) \in SUBSET s /\ rest(u) # s
        BY <3>1, Picked
      <4>2. h[rest(u)] = G(rest(u))[rest(u)]
        BY <2>3, <4>1
      <4> QED BY <3>1, <4>2
    <3> QED BY <3>1
  <2> PICK k : k = h
    OBVIOUS
  <2>5. IsSum(k, f, s)
    <3>1. k = [u \in SUBSET s |-> k[u]]
      OBVIOUS
    <3>2. \A u \in SUBSET s : k[u] = IF u = {} THEN 0 ELSE f[Pick(u)] + k[u \ {Pick(u)}]
      BY <2>4
    <3> HIDE DEF h
    <3> QED BY <3>1, <3>2 DEF IsSum
  <2> QED BY <2>1, <2>5
<1>2. T \subseteq SUBSET S
  OBVIOUS
<1> HIDE DEF T
<1>3. T = {}
  BY <1>1, <1>2, Least
<1> QED BY <1>3 DEF T

\* The library's sum is its picked member and the sum of the others.
LEMMA SumIs ==
    ASSUME NEW f, NEW S, IsFiniteSet(S), NEW g, IsSum(g, f, S)
    PROVE  SumFunctionOnSet(f, S) = g[S]
<1> DEFINE P(h) == h = [s \in SUBSET S |-> IF s = {} THEN 0
                                           ELSE f[CHOOSE x \in s : TRUE] + h[s \ {CHOOSE x \in s : TRUE}]]
           sum == CHOOSE h : P(h)
<1>1. ASSUME NEW h PROVE IsSum(h, f, S) <=> P(h)
  BY DEF IsSum, Pick
<1>2. SumFunctionOnSet(f, S) = sum[S]
  BY Zenon DEF SumFunctionOnSet, FoldFunctionOnSet, MapThenFoldSet
<1>3. P(sum)
  <2>1. P(g)
    BY <1>1
  <2> HIDE DEF P
  <2> QED BY <2>1, Zenon
<1>4. IsSum(sum, f, S)
  BY <1>1, <1>3
<1> HIDE DEF sum, P
<1> QED BY <1>2, <1>4, SumUnique

LEMMA SumPick ==
    ASSUME NEW f, NEW S, IsFiniteSet(S)
    PROVE  SumFunctionOnSet(f, S) = IF S = {} THEN 0 ELSE f[Pick(S)] + SumFunctionOnSet(f, S \ {Pick(S)})
<1>1. PICK g : IsSum(g, f, S)
  BY SumExists
<1>2. g[S] = IF S = {} THEN 0 ELSE f[Pick(S)] + g[S \ {Pick(S)}]
  BY <1>1 DEF IsSum
<1>3. SumFunctionOnSet(f, S) = g[S]
  BY <1>1, SumIs
<1>4. CASE S # {}
  <2> PICK U : U = S \ {Pick(S)}
    OBVIOUS
  <2>1. IsFiniteSet(U) /\ U \subseteq S
    BY FS_Subset
  <2>2. PICK h : IsSum(h, f, U)
    BY <2>1, SumExists
  <2>3. h[U] = g[U] /\ SumFunctionOnSet(f, U) = h[U]
    BY <1>1, <2>1, <2>2, SumUnique, SumIs
  <2> QED BY <1>2, <1>3, <1>4, <2>3
<1> QED BY <1>2, <1>3, <1>4

LEMMA SumNumber ==
    ASSUME NEW N \in {Nat, Int}, NEW f, NEW S, IsFiniteSet(S), \A x \in S : f[x] \in N
    PROVE  SumFunctionOnSet(f, S) \in N
<1> DEFINE T == {s \in SUBSET S : SumFunctionOnSet(f, s) \notin N}
<1>1. ASSUME NEW s \in T, \A u \in SUBSET s : u # s => u \notin T PROVE FALSE
  <2>1. s \in SUBSET S /\ IsFiniteSet(s) /\ SumFunctionOnSet(f, s) \notin N
    BY FS_Subset
  <2>2. SumFunctionOnSet(f, s) = IF s = {} THEN 0 ELSE f[Pick(s)] + SumFunctionOnSet(f, s \ {Pick(s)})
    BY <2>1, SumPick
  <2>3. s # {}
    BY <2>1, <2>2
  <2>4. s \ {Pick(s)} \in SUBSET s /\ s \ {Pick(s)} # s /\ f[Pick(s)] \in N
    BY <2>1, <2>3, Picked
  <2>5. SumFunctionOnSet(f, s \ {Pick(s)}) \in N
    BY <1>1, <2>1, <2>4
  <2> QED BY <2>1, <2>2, <2>3, <2>4, <2>5
<1>2. T \subseteq SUBSET S
  OBVIOUS
<1> HIDE DEF T
<1>3. T = {}
  BY <1>1, <1>2, Least
<1> QED BY <1>3 DEF T

\* Whichever member is taken first.
LEMMA SumTakes ==
    ASSUME NEW f, NEW S, IsFiniteSet(S), \A x \in S : f[x] \in Int, NEW y \in S
    PROVE  SumFunctionOnSet(f, S) = f[y] + SumFunctionOnSet(f, S \ {y})
<1> DEFINE T == {s \in SUBSET S : \E x \in s : SumFunctionOnSet(f, s) # f[x] + SumFunctionOnSet(f, s \ {x})}
<1>1. ASSUME NEW s \in T, \A u \in SUBSET s : u # s => u \notin T PROVE FALSE
  <2>1. PICK x \in s : s \in SUBSET S /\ SumFunctionOnSet(f, s) # f[x] + SumFunctionOnSet(f, s \ {x})
    OBVIOUS
  <2>2. IsFiniteSet(s)
    BY <2>1, FS_Subset
  <2> PICK p : p = Pick(s)
    OBVIOUS
  <2>3. p \in s /\ SumFunctionOnSet(f, s) = f[p] + SumFunctionOnSet(f, s \ {p})
    BY <2>1, <2>2, SumPick, Picked
  <2>4. p # x
    BY <2>1, <2>3
  <2>5. ASSUME NEW u \in SUBSET s, u # s, NEW q \in u PROVE SumFunctionOnSet(f, u) = f[q] + SumFunctionOnSet(f, u \ {q})
    BY <1>1, <2>1, <2>5
  <2>6. SumFunctionOnSet(f, s \ {p}) = f[x] + SumFunctionOnSet(f, (s \ {p}) \ {x})
    BY <2>3, <2>4, <2>5
  <2>7. SumFunctionOnSet(f, s \ {x}) = f[p] + SumFunctionOnSet(f, (s \ {x}) \ {p})
    BY <2>3, <2>4, <2>5
  <2>8. (s \ {p}) \ {x} = (s \ {x}) \ {p}
    OBVIOUS
  <2> PICK both : both = (s \ {x}) \ {p}
    OBVIOUS
  <2>9. SumFunctionOnSet(f, both) \in Int
    <3>1. IsFiniteSet(both) /\ \A z \in both : f[z] \in Int
      BY <2>1, <2>2, FS_Subset
    <3> QED BY <3>1, SumNumber
  <2>10. f[p] \in Int /\ f[x] \in Int
    BY <2>1, <2>3
  <2>11. SumFunctionOnSet(f, s) = f[p] + (f[x] + SumFunctionOnSet(f, both)) /\ SumFunctionOnSet(f, s \ {x}) = f[p] + SumFunctionOnSet(f, both)
    BY <2>3, <2>6, <2>7, <2>8
  <2>12. \A a, b, c \in Int : a + (b + c) = b + (a + c)
    OBVIOUS
  <2> QED BY <2>1, <2>9, <2>10, <2>11, <2>12
<1>2. T \subseteq SUBSET S
  OBVIOUS
<1> HIDE DEF T
<1>3. T = {}
  BY <1>1, <1>2, Least
<1> QED BY <1>3 DEF T

LEMMA SumSame ==
    ASSUME NEW f, NEW g, NEW S, IsFiniteSet(S), \A x \in S : f[x] = g[x]
    PROVE  SumFunctionOnSet(f, S) = SumFunctionOnSet(g, S)
<1> DEFINE T == {s \in SUBSET S : SumFunctionOnSet(f, s) # SumFunctionOnSet(g, s)}
<1>1. ASSUME NEW s \in T, \A u \in SUBSET s : u # s => u \notin T PROVE FALSE
  <2>1. s \in SUBSET S /\ IsFiniteSet(s) /\ SumFunctionOnSet(f, s) # SumFunctionOnSet(g, s)
    BY FS_Subset
  <2>2. SumFunctionOnSet(f, s) = IF s = {} THEN 0 ELSE f[Pick(s)] + SumFunctionOnSet(f, s \ {Pick(s)})
    BY <2>1, SumPick
  <2>3. SumFunctionOnSet(g, s) = IF s = {} THEN 0 ELSE g[Pick(s)] + SumFunctionOnSet(g, s \ {Pick(s)})
    BY <2>1, SumPick
  <2>4. s # {}
    BY <2>1, <2>2, <2>3
  <2>5. s \ {Pick(s)} \in SUBSET s /\ s \ {Pick(s)} # s /\ f[Pick(s)] = g[Pick(s)]
    BY <2>1, <2>4, Picked
  <2>6. SumFunctionOnSet(f, s \ {Pick(s)}) = SumFunctionOnSet(g, s \ {Pick(s)})
    BY <1>1, <2>1, <2>5
  <2> QED BY <2>1, <2>2, <2>3, <2>4, <2>5, <2>6
<1>2. T \subseteq SUBSET S
  OBVIOUS
<1> HIDE DEF T
<1>3. T = {}
  BY <1>1, <1>2, Least
<1> QED BY <1>3 DEF T

LEMMA SumEmpty == ASSUME NEW f PROVE SumFunctionOnSet(f, {}) = 0
BY SumPick, FS_EmptySet

\* One value changes by d.
LEMMA SumChanges ==
    ASSUME NEW f, NEW g, NEW S, IsFiniteSet(S), \A x \in S : f[x] \in Int /\ g[x] \in Int,
           NEW y \in S, \A x \in S : x # y => g[x] = f[x]
    PROVE  SumFunctionOnSet(g, S) = SumFunctionOnSet(f, S) + g[y] - f[y]
<1> PICK R : R = S \ {y}
  OBVIOUS
<1>1. IsFiniteSet(R) /\ (\A x \in R : f[x] \in Int /\ g[x] = f[x])
  BY FS_Subset
<1>2. SumFunctionOnSet(f, S) = f[y] + SumFunctionOnSet(f, R) /\ SumFunctionOnSet(g, S) = g[y] + SumFunctionOnSet(g, R)
  BY SumTakes
<1>3. SumFunctionOnSet(g, R) = SumFunctionOnSet(f, R) /\ SumFunctionOnSet(f, R) \in Int
  BY <1>1, SumSame, SumNumber
<1> QED BY <1>2, <1>3

\* A sum of naturals grows with its set.
LEMMA SumGrows ==
    ASSUME NEW f, NEW S, IsFiniteSet(S), \A x \in S : f[x] \in Nat, NEW R \in SUBSET S
    PROVE  SumFunctionOnSet(f, R) <= SumFunctionOnSet(f, S)
<1> DEFINE T == {s \in SUBSET S : ~(SumFunctionOnSet(f, s \cap R) <= SumFunctionOnSet(f, s))}
<1>1. ASSUME NEW s \in T, \A u \in SUBSET s : u # s => u \notin T PROVE FALSE
  <2>1. s \in SUBSET S /\ ~(SumFunctionOnSet(f, s \cap R) <= SumFunctionOnSet(f, s))
    OBVIOUS
  <2>2. IsFiniteSet(s) /\ IsFiniteSet(s \cap R)
    BY <2>1, FS_Subset
  <2>3. s # {}
    <3>1. s = {} => s \cap R = {}
      OBVIOUS
    <3>2. SumFunctionOnSet(f, {}) = 0
      BY SumEmpty
    <3> QED BY <2>1, <3>1, <3>2
  <2>4. PICK y \in s : f[y] \in Nat
    BY <2>1, <2>3
  <2> PICK u, v : u = s \ {y} /\ v = u \cap R
    OBVIOUS
  <2>5. SumFunctionOnSet(f, v) <= SumFunctionOnSet(f, u)
    BY <1>1, <2>1, <2>4
  <2>6. SumFunctionOnSet(f, v) \in Int /\ SumFunctionOnSet(f, u) \in Int
    <3>1. IsFiniteSet(u) /\ IsFiniteSet(v) /\ (\A x \in u : f[x] \in Int) /\ (\A x \in v : f[x] \in Int)
      BY <2>1, <2>2, FS_Subset
    <3> QED BY <3>1, SumNumber
  <2>7. SumFunctionOnSet(f, s) = f[y] + SumFunctionOnSet(f, u)
    BY <2>1, <2>2, <2>4, SumTakes
  <2>8. CASE y \in R
    <3>1. (s \cap R) \ {y} = v /\ y \in s \cap R /\ \A x \in s \cap R : f[x] \in Int
      BY <2>1, <2>4, <2>8
    <3>2. SumFunctionOnSet(f, s \cap R) = f[y] + SumFunctionOnSet(f, v)
      BY <2>2, <3>1, SumTakes
    <3> QED BY <2>1, <2>4, <2>5, <2>6, <2>7, <3>2
  <2>9. CASE y \notin R
    <3>1. SumFunctionOnSet(f, s \cap R) = SumFunctionOnSet(f, v)
      <4>1. s \cap R = v
        BY <2>9
      <4> QED BY <4>1
    <3> PICK x, z, w, n : /\ x = SumFunctionOnSet(f, s \cap R) /\ z = SumFunctionOnSet(f, s)
                          /\ w = SumFunctionOnSet(f, u) /\ n = f[y]
      OBVIOUS
    <3>2. x <= w /\ z = n + w /\ n \in Nat /\ x \in Int /\ w \in Int /\ ~(x <= z)
      BY <2>1, <2>4, <2>5, <2>6, <2>7, <3>1
    <3> QED BY <3>2
  <2> QED BY <2>8, <2>9
<1>2. T \subseteq SUBSET S
  OBVIOUS
<1> HIDE DEF T
<1>3. T = {}
  BY <1>1, <1>2, Least
<1>4. SumFunctionOnSet(f, S \cap R) <= SumFunctionOnSet(f, S)
  BY <1>3 DEF T
<1>5. S \cap R = R
  OBVIOUS
<1> QED BY <1>4, <1>5

LEMMA SumAdds ==
    ASSUME NEW f, NEW g, NEW h, NEW S, IsFiniteSet(S),
           \A x \in S : f[x] \in Int /\ g[x] \in Int /\ h[x] = f[x] + g[x]
    PROVE  SumFunctionOnSet(h, S) = SumFunctionOnSet(f, S) + SumFunctionOnSet(g, S)
<1> DEFINE T == {s \in SUBSET S : SumFunctionOnSet(h, s) # SumFunctionOnSet(f, s) + SumFunctionOnSet(g, s)}
<1>1. ASSUME NEW s \in T, \A u \in SUBSET s : u # s => u \notin T PROVE FALSE
  <2>1. s \in SUBSET S /\ SumFunctionOnSet(h, s) # SumFunctionOnSet(f, s) + SumFunctionOnSet(g, s)
    OBVIOUS
  <2>2. IsFiniteSet(s)
    BY <2>1, FS_Subset
  <2>3. s # {}
    <3>1. SumFunctionOnSet(f, {}) = 0 /\ SumFunctionOnSet(g, {}) = 0 /\ SumFunctionOnSet(h, {}) = 0
      BY SumEmpty
    <3>2. SumFunctionOnSet(h, {}) = SumFunctionOnSet(f, {}) + SumFunctionOnSet(g, {})
      BY <3>1
    <3> QED BY <2>1, <3>2
  <2>4. PICK y \in s : f[y] \in Int /\ g[y] \in Int /\ h[y] = f[y] + g[y]
    BY <2>1, <2>3
  <2> PICK u : u = s \ {y}
    OBVIOUS
  <2>5. SumFunctionOnSet(h, u) = SumFunctionOnSet(f, u) + SumFunctionOnSet(g, u)
    BY <1>1, <2>1, <2>4
  <2>6. SumFunctionOnSet(f, u) \in Int /\ SumFunctionOnSet(g, u) \in Int
    <3>1. IsFiniteSet(u) /\ (\A x \in u : f[x] \in Int /\ g[x] \in Int)
      BY <2>1, <2>2, FS_Subset
    <3> QED BY <3>1, SumNumber
  <2>7. \A x \in s : f[x] \in Int /\ g[x] \in Int /\ h[x] \in Int
    BY <2>1
  <2>8. /\ SumFunctionOnSet(f, s) = f[y] + SumFunctionOnSet(f, u)
        /\ SumFunctionOnSet(g, s) = g[y] + SumFunctionOnSet(g, u)
        /\ SumFunctionOnSet(h, s) = h[y] + SumFunctionOnSet(h, u)
    BY <2>2, <2>4, <2>7, SumTakes
  <2>9. \A a, b, c, d \in Int : (a + b) + (c + d) = (a + c) + (b + d)
    OBVIOUS
  <2> QED BY <2>1, <2>4, <2>5, <2>6, <2>8, <2>9
<1>2. T \subseteq SUBSET S
  OBVIOUS
<1> HIDE DEF T
<1>3. T = {}
  BY <1>1, <1>2, Least
<1> QED BY <1>3 DEF T

\* Value by value at most.
LEMMA SumAtMost ==
    ASSUME NEW f, NEW g, NEW S, IsFiniteSet(S), \A x \in S : f[x] \in Int /\ g[x] \in Int /\ f[x] <= g[x]
    PROVE  SumFunctionOnSet(f, S) <= SumFunctionOnSet(g, S)
<1> PICK d : d = [x \in S |-> g[x] - f[x]]
  OBVIOUS
<1>1. \A x \in S : f[x] \in Int /\ d[x] \in Nat /\ d[x] \in Int /\ g[x] = f[x] + d[x]
  OBVIOUS
<1>2. SumFunctionOnSet(d, S) \in Nat
  BY <1>1, SumNumber
<1>3. SumFunctionOnSet(f, S) \in Int
  BY <1>1, SumNumber
<1>4. SumFunctionOnSet(g, S) = SumFunctionOnSet(f, S) + SumFunctionOnSet(d, S)
  BY <1>1, SumAdds
<1> QED BY <1>2, <1>3, <1>4

LEMMA SumZero ==
    ASSUME NEW f, NEW S, IsFiniteSet(S), \A x \in S : f[x] = 0
    PROVE  SumFunctionOnSet(f, S) = 0
<1>1. \A x \in S : f[x] \in Int /\ f[x] = f[x] + f[x]
  OBVIOUS
<1>2. SumFunctionOnSet(f, S) \in Int
  BY <1>1, SumNumber
<1>3. SumFunctionOnSet(f, S) = SumFunctionOnSet(f, S) + SumFunctionOnSet(f, S)
  BY <1>1, SumAdds
<1>4. \A a \in Int : a = a + a => a = 0
  OBVIOUS
<1> QED BY <1>2, <1>3, <1>4

\* A sum taken class by class.
ByClass(f, c, K, s) == [k \in K |-> SumFunctionOnSet(f, {x \in s : c[x] = k})]
LEMMA SumByClass ==
    ASSUME NEW f, NEW S, IsFiniteSet(S), NEW K, IsFiniteSet(K), NEW c, \A x \in S : f[x] \in Int /\ c[x] \in K
    PROVE  SumFunctionOnSet(ByClass(f, c, K, S), K) = SumFunctionOnSet(f, S)
<1> DEFINE T == {s \in SUBSET S : SumFunctionOnSet(ByClass(f, c, K, s), K) # SumFunctionOnSet(f, s)}
<1>1. ASSUME NEW s \in T, \A u \in SUBSET s : u # s => u \notin T PROVE FALSE
  <2>1. s \in SUBSET S /\ SumFunctionOnSet(ByClass(f, c, K, s), K) # SumFunctionOnSet(f, s)
    OBVIOUS
  <2>2. ASSUME NEW t \in SUBSET S, NEW k \in K
        PROVE  /\ IsFiniteSet(t) /\ IsFiniteSet({x \in t : c[x] = k})
               /\ ByClass(f, c, K, t)[k] = SumFunctionOnSet(f, {x \in t : c[x] = k})
               /\ ByClass(f, c, K, t)[k] \in Int
    <3>1. IsFiniteSet(t) /\ IsFiniteSet({x \in t : c[x] = k})
      BY FS_Subset
    <3>2. ByClass(f, c, K, t)[k] = SumFunctionOnSet(f, {x \in t : c[x] = k})
      BY DEF ByClass
    <3>3. SumFunctionOnSet(f, {x \in t : c[x] = k}) \in Int
      <4> PICK z : z = {x \in t : c[x] = k}
        OBVIOUS
      <4>1. IsFiniteSet(z) /\ \A x \in z : f[x] \in Int
        BY <3>1
      <4> QED BY <4>1, SumNumber
    <3> QED BY <3>1, <3>2, <3>3
  <2>3. IsFiniteSet(s)
    BY <2>1, FS_Subset
  <2>4. s # {}
    <3>1. SUFFICES ASSUME s = {} PROVE FALSE
      OBVIOUS
    <3>2. SumFunctionOnSet(f, {}) = 0
      BY SumEmpty
    <3>3. ASSUME NEW k \in K PROVE ByClass(f, c, K, s)[k] = 0
      <4>1. {x \in s : c[x] = k} = {}
        BY <3>1
      <4> QED BY <2>1, <2>2, <3>2, <4>1
    <3>4. SumFunctionOnSet(ByClass(f, c, K, s), K) = 0
      BY <3>3, SumZero
    <3> QED BY <2>1, <3>1, <3>2, <3>4
  <2>5. PICK y \in s : f[y] \in Int /\ c[y] \in K
    BY <2>1, <2>4
  <2> PICK u, k, g, h : u = s \ {y} /\ k = c[y] /\ g = ByClass(f, c, K, u) /\ h = ByClass(f, c, K, s)
    OBVIOUS
  <2>6. u \in SUBSET S /\ k \in K
    BY <2>1, <2>5
  <2>7. SumFunctionOnSet(g, K) = SumFunctionOnSet(f, u)
    BY <1>1, <2>1, <2>5
  <2>8. SumFunctionOnSet(f, s) = f[y] + SumFunctionOnSet(f, u)
    BY <2>1, <2>3, <2>5, SumTakes
  <2>9. h[k] = f[y] + g[k]
    <3> PICK z : z = {x \in s : c[x] = k}
      OBVIOUS
    <3>1. IsFiniteSet(z) /\ y \in z /\ (\A x \in z : f[x] \in Int) /\ h[k] = SumFunctionOnSet(f, z)
      BY <2>1, <2>2, <2>5, <2>6
    <3>2. SumFunctionOnSet(f, z) = f[y] + SumFunctionOnSet(f, z \ {y})
      BY <3>1, SumTakes
    <3>3. z \ {y} = {x \in u : c[x] = k}
      OBVIOUS
    <3>4. g[k] = SumFunctionOnSet(f, {x \in u : c[x] = k})
      BY <2>2, <2>6, Zenon
    <3>5. g[k] = SumFunctionOnSet(f, z \ {y})
      BY <3>3, <3>4, Zenon
    <3> QED BY <3>1, <3>2, <3>5
  <2>10. ASSUME NEW j \in K, j # k PROVE h[j] = g[j]
    <3>1. {x \in s : c[x] = j} = {x \in u : c[x] = j}
      BY <2>10
    <3>2. /\ h[j] = SumFunctionOnSet(f, {x \in s : c[x] = j})
          /\ g[j] = SumFunctionOnSet(f, {x \in u : c[x] = j})
      BY <2>1, <2>2, <2>6, Zenon
    <3> QED BY <3>1, <3>2, Zenon
  <2>11. \A j \in K : g[j] \in Int /\ h[j] \in Int
    BY <2>1, <2>2, <2>6
  <2>12. SumFunctionOnSet(h, K) = SumFunctionOnSet(g, K) + h[k] - g[k]
    <3>1. \A j \in K : j # k => h[j] = g[j]
      BY <2>10
    <3> HIDE DEF T
    <3>2. ASSUME NEW a, NEW b, NEW i \in K, \A j \in K : a[j] \in Int /\ b[j] \in Int, \A j \in K : j # i => b[j] = a[j]
          PROVE  SumFunctionOnSet(b, K) = SumFunctionOnSet(a, K) + b[i] - a[i]
      BY <3>2, SumChanges
    <3> QED BY <2>6, <2>11, <3>1, <3>2
  <2>13. SumFunctionOnSet(g, K) \in Int /\ g[k] \in Int
    BY <2>6, <2>11, SumNumber
  <2>14. \A a, b, e \in Int : (a + (b + e)) - e = b + a
    OBVIOUS
  <2> QED BY <2>1, <2>5, <2>7, <2>8, <2>9, <2>12, <2>13, <2>14
<1>2. T \subseteq SUBSET S
  OBVIOUS
<1> HIDE DEF T
<1>3. T = {}
  BY <1>1, <1>2, Least
<1> QED BY <1>3 DEF T

----------------------------------------------------------------------------
(* Type correctness: every amount, total and debt stays a natural number.    *)

RowType == [st : {"none", "completed", "voided"}, kind : {"settle", "recon"},
            ord : Order, amt : Nat, ref : Event \cup {Audit},
            undone : BOOLEAN, synced : BOOLEAN, id : BOOLEAN]
RequestType == [at : {"idle", "insert", "recount", "call", "mark", "voiding", "unreceipt",
                      "read", "apply", "undo"},
                row : 0..MaxRow, ord : Order, amt : Nat, ref : Event \cup {Audit},
                due : [Order -> Nat], id : BOOLEAN, synced : BOOLEAN,
                then : {"idle", "call", "unreceipt", "apply", "undo"}]

LEMMA TypeIs ==
    TypeOK <=> /\ scene \in Scenes /\ paid \in [Order -> Nat] /\ row \in [Row -> RowType]
               /\ receipt \in [Row -> {"none", "live", "void"}]
               /\ direct \in [Direct -> [st : {"none", "live", "void"}, amt : Nat]]
               /\ debt \in Nat /\ mail \subseteq Event
               /\ proc \in [Proc -> RequestType] /\ faults \in 0..MaxFault
               /\ missed \in [Order -> Nat]
BY DEF TypeOK, RowType, RequestType

LEMMA TypeNext ==
    ASSUME scene' \in Scenes, paid' \in [Order -> Nat], row' \in [Row -> RowType],
           receipt' \in [Row -> {"none", "live", "void"}],
           direct' \in [Direct -> [st : {"none", "live", "void"}, amt : Nat]],
           debt' \in Nat, mail' \subseteq Event,
           proc' \in [Proc -> RequestType], faults' \in 0..MaxFault, missed' \in [Order -> Nat]
    PROVE  TypeOK'
BY DEF TypeOK, RowType, RequestType

LEMMA Sizes == IsFiniteSet(Row) /\ IsFiniteSet(Order) /\ 1 \in Order /\ Row \subseteq 0..MaxRow
<1>1. MaxRow \in Nat /\ MaxOrder \in Nat /\ MaxOrder >= 1
  BY BoundsAssumption
<1> QED BY <1>1, FS_Interval DEF Row, Order

LEMMA Prices == ASSUME TypeOK PROVE scene.price \in [Order -> Nat] /\ DOMAIN scene.price = Order
BY NamesAssumption DEF TypeOK

LEMMA Amounts == ASSUME TypeOK PROVE \A r \in Row : row[r].amt \in Nat /\ Amount[r] \in Nat /\ Amount[r] = row[r].amt
BY DEF TypeOK, Amount

LEMMA WorthNumber == ASSUME TypeOK, NEW R \in SUBSET Row PROVE Worth(R) \in Nat /\ Worth(R) \in Int
<1>1. IsFiniteSet(R) /\ \A r \in R : Amount[r] \in Nat
  BY Sizes, Amounts, FS_Subset
<1> QED BY <1>1, SumNumber DEF Worth

LEMMA CollectedNumber == ASSUME TypeOK, NEW o PROVE Collected(o) \in Nat /\ Collected(o) \in Int
<1> PICK R : R = Counted(o)
  OBVIOUS
<1>1. R \in SUBSET Row
  BY DEF Counted, Used
<1> QED BY <1>1, WorthNumber DEF Collected

LEMMA DueNumber == ASSUME TypeOK, NEW o \in Order PROVE Due(o) \in Nat
<1>1. scene.price[o] \in Nat /\ paid[o] \in Nat
  BY Prices DEF TypeOK
<1> QED BY <1>1 DEF Due

LEMMA PosOpenNumber == ASSUME TypeOK PROVE PosOpen \in Nat
<1> PICK f : f = [o \in Order |-> Due(o)]
  OBVIOUS
<1>1. \A o \in Order : f[o] \in Nat
  BY DueNumber
<1>2. SumFunctionOnSet(f, Order) \in Nat
  BY <1>1, Sizes, SumNumber
<1>3. DOMAIN f = Order
  OBVIOUS
<1> QED BY <1>2, <1>3 DEF PosOpen, SumFunction

LEMMA LesserNumber == ASSUME NEW a \in Nat, NEW b \in Nat
                      PROVE  Lesser(a, b) \in Nat /\ Lesser(a, b) <= a /\ Lesser(a, b) <= b
BY DEF Lesser

LEMMA IdleType == Idle \in RequestType
<1>1. 0 \in 0..MaxRow
  BY BoundsAssumption
<1>2. [o \in Order |-> 0] \in [Order -> Nat]
  OBVIOUS
<1> QED BY <1>1, <1>2, Sizes DEF Idle, RequestType

LEMMA NoRowType == NoRow \in RowType
BY Sizes DEF NoRow, RowType

LEMMA RequestMoves ==
    ASSUME proc \in [Proc -> RequestType], NEW p \in Proc, NEW x \in RequestType, Goes(p, x)
    PROVE  proc' \in [Proc -> RequestType]
BY DEF Goes

LEMMA MishapType == ASSUME TypeOK, NEW h, Mishap(h) PROVE faults' \in 0..MaxFault
BY BoundsAssumption DEF TypeOK, Mishap

----------------------------------------------------------------------------
LEMMA TypeStart == Init => TypeOK
<1> SUFFICES ASSUME Init PROVE TypeOK
  OBVIOUS
<1>1. scene \in Scenes /\ scene.price \in [Order -> Nat] /\ DOMAIN scene.price = Order
  BY NamesAssumption DEF Init
<1>2. SumFunction(scene.price) \in Nat
  <2> PICK f : f = scene.price
    OBVIOUS
  <2>1. \A o \in Order : f[o] \in Nat
    BY <1>1
  <2> QED BY <1>1, <2>1, Sizes, SumNumber DEF SumFunction
<1>3. debt \in Nat
  BY <1>2 DEF Init
<1>4. paid \in [Order -> Nat] /\ missed \in [Order -> Nat] /\ row \in [Row -> RowType] /\ proc \in [Proc -> RequestType]
  BY IdleType, NoRowType DEF Init
<1>5. /\ receipt \in [Row -> {"none", "live", "void"}] /\ mail \subseteq Event /\ faults \in 0..MaxFault
      /\ direct \in [Direct -> [st : {"none", "live", "void"}, amt : Nat]]
  BY BoundsAssumption DEF Init
<1> QED BY <1>1, <1>3, <1>4, <1>5, TypeIs

\* A sum that is stored, or a store that fails.
LEMMA StoreTypes ==
    ASSUME TypeOK, NEW o \in Order, (Stores(o) /\ UNCHANGED faults) \/ StoreFails(o)
    PROVE  paid' \in [Order -> Nat] /\ faults' \in 0..MaxFault
<1>1. ASSUME Stores(o) PROVE paid' \in [Order -> Nat]
  BY <1>1, CollectedNumber DEF TypeOK, Stores
<1>2. ASSUME UNCHANGED paid PROVE paid' \in [Order -> Nat]
  BY <1>2 DEF TypeOK
<1>3. faults' \in 0..MaxFault
  <2>1. CASE UNCHANGED faults
    BY <2>1 DEF TypeOK
  <2>2. CASE Mishap("fail")
    BY <2>2, MishapType
  <2> QED BY <2>1, <2>2 DEF StoreFails
<1> QED BY <1>1, <1>2, <1>3 DEF StoreFails

LEMMA SettleTypes ==
    ASSUME TypeOK, NEW p \in Proc, NEW o \in Order, NEW a \in Asked, SettleCreditPayment(p, o, a)
    PROVE  TypeOK'
<1>1. UNCHANGED <<scene, missed, row, receipt, direct, debt, mail>>
  BY DEF SettleCreditPayment, treasury
<1>2. paid' \in [Order -> Nat] /\ faults' \in 0..MaxFault
  BY StoreTypes DEF SettleCreditPayment
<1>3. CASE UNCHANGED proc
  BY <1>1, <1>2, <1>3, TypeIs, TypeNext
<1>4. ASSUME NEW rest, rest = scene.price[o] - Collected(o), rest > 0,
             Goes(p, [Idle EXCEPT !.at = "insert", !.ord = o, !.amt = Lesser(a, rest)])
      PROVE  TypeOK'
  <2>1. rest \in Nat /\ a \in Nat
    <3>1. scene.price[o] \in Nat /\ Collected(o) \in Nat
      BY Prices, CollectedNumber
    <3> QED BY <1>4, <3>1, BoundsAssumption
  <2>2. PICK b \in Nat : b = Lesser(a, rest)
    BY <2>1, LesserNumber
  <2>3. PICK x : x = [Idle EXCEPT !.at = "insert", !.ord = o, !.amt = b]
    OBVIOUS
  <2>4. x \in RequestType
    BY <2>3, IdleType DEF RequestType
  <2>5. proc' \in [Proc -> RequestType]
    BY <1>4, <2>2, <2>3, <2>4, RequestMoves, TypeIs
  <2> QED BY <1>1, <1>2, <2>5, TypeIs, TypeNext
<1> QED BY <1>3, <1>4 DEF SettleCreditPayment

LEMMA RowTypes ==
    ASSUME row \in [Row -> RowType], NEW r \in Row, NEW v \in RowType, row' = [row EXCEPT ![r] = v]
    PROVE  row' \in [Row -> RowType]
OBVIOUS

LEMMA InsertTypes ==
    ASSUME TypeOK, NEW p \in Proc, InsertSettlement(p)
    PROVE  TypeOK'
<1>1. UNCHANGED <<scene, missed, paid, receipt, direct, debt, mail, faults>> /\ proc[p] \in RequestType
  BY TypeIs DEF InsertSettlement, treasury
<1>2. CASE Ends(p) /\ UNCHANGED row
  <2>1. PICK x \in RequestType : x = Idle
    BY IdleType
  <2>2. proc' \in [Proc -> RequestType]
    BY <1>2, <2>1, RequestMoves, TypeIs DEF Ends
  <2> QED BY <1>1, <1>2, <2>2, TypeIs, TypeNext
<1>3. ASSUME FreshOutstanding(p) > 0, NEW r \in Row,
             row' = [row EXCEPT ![r] = [NoRow EXCEPT !.st = "completed", !.ord = proc[p].ord,
                                                     !.amt = Lesser(proc[p].amt, FreshOutstanding(p))]],
             Goes(p, [proc[p] EXCEPT !.at = "recount", !.row = r, !.then = "call"])
      PROVE  TypeOK'
  <2>1. PICK y \in RequestType : y = proc[p]
    BY <1>1
  <2>2. y.ord \in Order /\ y.amt \in Nat
    BY DEF RequestType
  <2>3. FreshOutstanding(p) \in Nat
    <3>1. scene.price[y.ord] \in Nat /\ Collected(y.ord) \in Nat
      BY <2>2, Prices, CollectedNumber
    <3> QED BY <1>3, <2>1, <3>1 DEF FreshOutstanding
  <2>4. PICK b \in Nat : b = Lesser(proc[p].amt, FreshOutstanding(p))
    BY <2>1, <2>2, <2>3, LesserNumber
  <2>5. PICK x, v : /\ x = [y EXCEPT !.at = "recount", !.row = r, !.then = "call"]
                    /\ v = [NoRow EXCEPT !.st = "completed", !.ord = y.ord, !.amt = b]
    OBVIOUS
  <2>6. v \in RowType
    BY <2>2, <2>5, NoRowType DEF RowType
  <2>7. x \in RequestType
    BY <2>5, Sizes DEF RequestType
  <2>8. row' \in [Row -> RowType]
    BY <1>3, <2>1, <2>4, <2>5, <2>6, RowTypes, TypeIs
  <2>9. proc' \in [Proc -> RequestType]
    BY <1>3, <2>1, <2>5, <2>7, RequestMoves, TypeIs
  <2> QED BY <1>1, <2>8, <2>9, TypeIs, TypeNext
<1> QED BY <1>2, <1>3 DEF InsertSettlement

\* What a recount counts, or fails to count.
LEMMA ShareNumber ==
    ASSUME NEW x \in RequestType
    PROVE  Share(x) \in Nat /\ x.amt \in Nat /\ x.amt - Share(x) \in Nat
<1>1. x.due \in [Order -> Nat] /\ x.ord \in Order /\ x.amt \in Nat
  BY DEF RequestType
<1>2. PICK a, b : a = x.due[x.ord] /\ b = x.amt
  OBVIOUS
<1>3. Lesser(a, b) \in Nat /\ Lesser(a, b) <= b
  BY <1>1, <1>2, LesserNumber
<1> QED BY <1>1, <1>2, <1>3 DEF Share, ShareOf

LEMMA RecordedNumber ==
    ASSUME TypeOK, SafeInv, NEW p \in Proc, proc[p].at = "recount"
    PROVE  Recorded(proc[p]) \in Nat
<1>1. PICK x \in RequestType : x = proc[p]
  BY TypeIs
<1>2. CASE x.then = "call"
  <2>1. x.row \in Row
    BY <1>1, <1>2 DEF SafeInv, Facts, Holds
  <2> QED BY <1>1, <1>2, <2>1 DEF TypeOK, Recorded
<1>3. CASE x.then = "apply"
  BY <1>1, <1>3, ShareNumber DEF Recorded
<1>4. CASE x.then \notin {"call", "apply"}
  BY <1>1, <1>4 DEF Recorded
<1> QED BY <1>2, <1>3, <1>4

LEMMA RecountTypes ==
    ASSUME TypeOK, SafeInv, NEW p \in Proc, RecomputePaidTotal(p)
    PROVE  TypeOK'
<1>1. PICK y \in RequestType : y = proc[p]
  BY TypeIs
<1>2. UNCHANGED <<scene, row, receipt, direct, debt, mail>> /\ y.at = "recount" /\ y.ord \in Order /\ IsRequest(y)
  BY <1>1, Recounts DEF RequestType
<1>3. paid' \in [Order -> Nat] /\ faults' \in 0..MaxFault
  BY <1>1, <1>2, StoreTypes DEF RecomputePaidTotal
<1>4. missed' \in [Order -> Nat]
  <2>1. PICK n \in Nat : n = Recorded(y)
    BY <1>1, <1>2, RecordedNumber
  <2>2. UNCHANGED missed \/ missed' = [missed EXCEPT ![y.ord] = @ + n]
    BY <1>1, <2>1 DEF RecomputePaidTotal
  <2> QED BY <1>2, <2>2 DEF TypeOK
<1>5. ASSUME NEW x, SameWork(y, x), x.amt \in Nat, x.due \in [Order -> Nat] PROVE x \in RequestType
  <2>1. /\ x.at \in {"call", "unreceipt", "apply", "undo"} /\ x.then = x.at
        /\ x.row \in 0..MaxRow /\ x.ord \in Order
        /\ x.ref \in Event \cup {Audit} /\ x.id \in BOOLEAN /\ x.synced \in BOOLEAN
    BY <1>1, <1>2, <1>5 DEF SameWork, RequestType, SafeInv, Facts
  <2>2. x = [at |-> x.at, row |-> x.row, ord |-> x.ord, amt |-> x.amt, ref |-> x.ref,
             due |-> x.due, id |-> x.id, synced |-> x.synced, then |-> x.then]
    BY <1>5 DEF SameWork, IsRequest
  <2> QED BY <1>5, <2>1, <2>2 DEF RequestType
<1>6. AfterRecount(y) \in RequestType /\ AfterLostRecount(y) \in RequestType
  <2>1. y.amt \in Nat /\ y.amt - Share(y) \in Nat /\ y.due \in [Order -> Nat] /\ [y.due EXCEPT ![y.ord] = 0] \in [Order -> Nat]
    BY <1>2, ShareNumber DEF RequestType
  <2> PICK x, z : x = AfterRecount(y) /\ z = AfterLostRecount(y)
    OBVIOUS
  <2>2. /\ SameWork(y, x) /\ SameWork(y, z) /\ x.amt \in Nat /\ z.amt \in Nat
        /\ x.due \in [Order -> Nat] /\ z.due \in [Order -> Nat]
    BY <1>2, <2>1, AfterEither
  <2> QED BY <1>5, <2>2
<1>7. proc' \in [Proc -> RequestType]
  BY <1>1, <1>6, RequestMoves, TypeIs DEF RecomputePaidTotal
<1> QED BY <1>2, <1>3, <1>4, <1>7, TypeIs, TypeNext

LEMMA PostTypes ==
    ASSUME TypeOK, SafeInv, NEW p \in Proc, RecordARPayment(p)
    PROVE  TypeOK'
<1>1. PICK y \in RequestType : y = proc[p]
  BY TypeIs
<1>2. PICK r \in Row : r = y.row
  BY <1>1 DEF RecordARPayment, SafeInv, Facts, Holds
<1>3. UNCHANGED <<scene, missed, paid, row>> /\ row[r].amt \in Nat /\ row[r].ord \in Order /\ debt \in Nat
  BY DEF RecordARPayment, books, TypeOK
<1>4. PICK x1, x2, x3 : x1 = [y EXCEPT !.at = "mark", !.id = TRUE] /\ x2 = [y EXCEPT !.at = "mark", !.id = FALSE] /\ x3 = Idle
  OBVIOUS
<1>5. x1 \in RequestType /\ x2 \in RequestType /\ x3 \in RequestType
  BY <1>4, IdleType DEF RequestType
<1>6. Goes(p, x1) \/ Goes(p, x2) \/ Goes(p, x3)
  BY <1>1, <1>4 DEF RecordARPayment, AfterRefusal, Ends
<1>7. proc' \in [Proc -> RequestType]
  BY <1>5, <1>6, RequestMoves, TypeIs
<1>8. faults' \in 0..MaxFault
  <2>1. CASE UNCHANGED faults
    BY <2>1 DEF TypeOK
  <2>2. CASE Mishap("late") \/ Mishap("fail")
    BY <2>2, MishapType
  <2> QED BY <2>1, <2>2 DEF RecordARPayment
<1>9. CASE UNCHANGED treasury
  BY <1>3, <1>7, <1>8, <1>9, TypeIs, TypeNext DEF treasury
<1>10. CASE Takes(r) /\ Post(r)
  <2>1. debt' \in Nat
    BY <1>3, <1>10 DEF Takes, Post
  <2>2. receipt' \in [Row -> {"none", "live", "void"}] /\ UNCHANGED direct
    BY <1>10 DEF Post, TypeOK
  <2>3. mail' \subseteq Event
    BY <1>3, <1>10 DEF Post, TypeOK, Event
  <2> QED BY <1>3, <1>7, <1>8, <2>1, <2>2, <2>3, TypeIs, TypeNext
<1> QED BY <1>1, <1>2, <1>9, <1>10 DEF RecordARPayment

LEMMA MarkTypes ==
    ASSUME TypeOK, SafeInv, NEW p \in Proc, MarkSynced(p)
    PROVE  TypeOK'
<1>1. PICK y \in RequestType : y = proc[p]
  BY TypeIs
<1>2. PICK r \in Row : r = y.row
  BY <1>1 DEF MarkSynced, SafeInv, Facts, Holds
<1>3. UNCHANGED <<scene, missed, paid, receipt, direct, debt, mail>> /\ y.id \in BOOLEAN /\ row[r] \in RowType
  BY TypeIs DEF MarkSynced, treasury, RequestType
<1>4. PICK x \in RequestType : x = Idle
  BY IdleType
<1>5. proc' \in [Proc -> RequestType]
  BY <1>4, RequestMoves, TypeIs DEF MarkSynced, Ends
<1>6. CASE UNCHANGED row /\ Mishap("fail")
  BY <1>3, <1>5, <1>6, MishapType, TypeIs, TypeNext
<1>7. CASE row' = [row EXCEPT ![r].synced = TRUE, ![r].id = y.id] /\ UNCHANGED faults
  <2>1. PICK v : v = [[row[r] EXCEPT !.synced = TRUE] EXCEPT !.id = y.id]
    OBVIOUS
  <2>2. v \in RowType
    BY <1>3, <2>1 DEF RowType
  <2>3. row' = [row EXCEPT ![r] = v]
    BY <1>7, <2>1 DEF TypeOK
  <2>4. row' \in [Row -> RowType]
    BY <2>2, <2>3, RowTypes, TypeIs
  <2> QED BY <1>3, <1>5, <1>7, <2>4, TypeIs, TypeNext
<1> QED BY <1>1, <1>2, <1>6, <1>7 DEF MarkSynced, KeptId

LEMMA VoidingTypes ==
    ASSUME TypeOK, SafeInv, NEW p \in Proc, VoidPayment(p)
    PROVE  TypeOK'
<1>1. PICK y \in RequestType : y = proc[p]
  BY TypeIs
<1>2. PICK r \in Row : r = y.row
  BY <1>1 DEF VoidPayment, SafeInv, Facts, Holds
<1>3. UNCHANGED <<scene, missed, paid, receipt, direct, debt, mail, faults>>
  BY DEF VoidPayment, treasury
<1>4. y.id \in BOOLEAN /\ y.synced \in BOOLEAN /\ row[r] \in RowType
  BY TypeIs DEF RequestType
<1>5. PICK v, x : /\ v = [[[row[r] EXCEPT !.st = "voided"] EXCEPT !.id = y.id] EXCEPT !.synced = y.synced]
                  /\ x = [y EXCEPT !.at = "recount", !.then = "unreceipt"]
  OBVIOUS
<1>6. v \in RowType
  BY <1>4, <1>5 DEF RowType
<1>7. x \in RequestType
  BY <1>5 DEF RequestType
<1>8. row' = [row EXCEPT ![r] = v]
  BY <1>1, <1>2, <1>5 DEF VoidPayment, TypeOK
<1>9. Goes(p, x)
  BY <1>1, <1>5 DEF VoidPayment
<1>10. row' \in [Row -> RowType] /\ proc' \in [Proc -> RequestType]
  BY <1>6, <1>7, <1>8, <1>9, RowTypes, RequestMoves, TypeIs
<1> QED BY <1>3, <1>10, TypeIs, TypeNext

LEMMA UnreceiptTypes ==
    ASSUME TypeOK, SafeInv, NEW p \in Proc, VoidARReceipt(p)
    PROVE  TypeOK'
<1>1. PICK r \in Row : r = proc[p].row
  BY DEF VoidARReceipt, SafeInv, Facts, Holds
<1>2. UNCHANGED <<scene, missed, paid, row>> /\ row[r].amt \in Nat /\ row[r].ord \in Order /\ debt \in Nat
  BY DEF VoidARReceipt, books, TypeOK
<1>3. PICK x \in RequestType : x = Idle
  BY IdleType
<1>4. proc' \in [Proc -> RequestType]
  BY <1>3, RequestMoves, TypeIs DEF VoidARReceipt, Ends
<1>5. faults' \in 0..MaxFault
  <2>1. CASE UNCHANGED faults
    BY <2>1 DEF TypeOK
  <2>2. CASE Mishap("fail")
    BY <2>2, MishapType
  <2> QED BY <2>1, <2>2 DEF VoidARReceipt
<1>6. CASE UNCHANGED treasury
  BY <1>2, <1>4, <1>5, <1>6, TypeIs, TypeNext DEF treasury
<1>7. CASE /\ receipt' = [receipt EXCEPT ![r] = "void"] /\ debt' = debt + row[r].amt
           /\ mail' = mail \cup {<<"void", row[r].ord>>} /\ UNCHANGED direct
  <2>1. receipt' \in [Row -> {"none", "live", "void"}] /\ debt' \in Nat
    BY <1>2, <1>7 DEF TypeOK
  <2>2. mail' \subseteq Event
    BY <1>2, <1>7 DEF TypeOK, Event
  <2> QED BY <1>2, <1>4, <1>5, <1>7, <2>1, <2>2, TypeIs, TypeNext
<1> QED BY <1>1, <1>6, <1>7 DEF VoidARReceipt

LEMMA DirectTypes ==
    ASSUME TypeOK, NEW d \in Direct, (\E a \in Asked : Receive(d, a)) \/ Withdraw(d)
    PROVE  TypeOK'
<1>1. UNCHANGED <<scene, missed, paid, row, receipt, proc, faults>>
  BY DEF Receive, Withdraw, books
<1>2. ASSUME NEW a \in Asked, Receive(d, a) PROVE TypeOK'
  <2>1. a \in Nat /\ a <= debt /\ debt \in Nat
    BY <1>2, BoundsAssumption DEF Receive, TypeOK
  <2>2. debt' \in Nat /\ direct' \in [Direct -> [st : {"none", "live", "void"}, amt : Nat]]
    BY <1>2, <2>1 DEF Receive, TypeOK
  <2>3. mail' \subseteq Event
    BY <1>2 DEF Receive, TypeOK, Event
  <2> QED BY <1>1, <2>2, <2>3, TypeIs, TypeNext
<1>3. CASE Withdraw(d)
  <2>1. debt' \in Nat /\ direct' \in [Direct -> [st : {"none", "live", "void"}, amt : Nat]]
    BY <1>3 DEF Withdraw, TypeOK
  <2>2. mail' \subseteq Event
    BY <1>3 DEF Withdraw, TypeOK, Event
  <2> QED BY <1>1, <2>1, <2>2, TypeIs, TypeNext
<1> QED BY <1>2, <1>3

LEMMA TakenUpTypes ==
    ASSUME TypeOK, NEW p \in Proc,
           \/ \E r \in Row : RetrySync(p, r) \/ LoadForVoid(p, r)
           \/ \E e \in mail : BalanceUpdated(p, e)
           \/ AuditOne(p)
    PROVE  TypeOK'
<1>1. UNCHANGED <<scene, missed, paid, row, receipt, direct, debt>> /\ mail' \subseteq mail
  BY DEF RetrySync, LoadForVoid, BalanceUpdated, AuditOne, books, treasury
<1>2. mail' \subseteq Event
  BY <1>1 DEF TypeOK
<1>3. CASE UNCHANGED proc
  <2>1. faults' \in 0..MaxFault
    <3>1. CASE UNCHANGED faults
      BY <3>1 DEF TypeOK
    <3>2. CASE Mishap("fail")
      BY <3>2, MishapType
    <3> QED BY <3>1, <3>2 DEF RetrySync, LoadForVoid, BalanceUpdated, AuditOne
  <2> QED BY <1>1, <1>2, <1>3, <2>1, TypeIs, TypeNext
<1>4. ASSUME NEW x \in RequestType, Goes(p, x), UNCHANGED faults PROVE TypeOK'
  <2>1. proc' \in [Proc -> RequestType]
    BY <1>4, RequestMoves, TypeIs
  <2> QED BY <1>1, <1>2, <1>4, <2>1, TypeIs, TypeNext
<1>5. ASSUME NEW r \in Row, RetrySync(p, r) PROVE TypeOK'
  <2>1. PICK x : x = [Idle EXCEPT !.at = "call", !.row = r, !.ord = row[r].ord]
    OBVIOUS
  <2>2. row[r].ord \in Order
    BY DEF TypeOK
  <2>3. x \in RequestType
    BY <2>1, <2>2, IdleType, Sizes DEF RequestType
  <2> QED BY <1>4, <1>5, <2>1, <2>3 DEF RetrySync
<1>6. ASSUME NEW r \in Row, LoadForVoid(p, r) PROVE TypeOK'
  <2>1. PICK x : x = [Idle EXCEPT !.at = "voiding", !.row = r, !.ord = row[r].ord,
                                  !.id = row[r].id, !.synced = row[r].synced]
    OBVIOUS
  <2>2. row[r].ord \in Order /\ row[r].id \in BOOLEAN /\ row[r].synced \in BOOLEAN
    BY DEF TypeOK
  <2>3. x \in RequestType
    BY <2>1, <2>2, IdleType, Sizes DEF RequestType
  <2> QED BY <1>4, <1>6, <2>1, <2>3 DEF LoadForVoid
<1>7. ASSUME NEW e \in mail, BalanceUpdated(p, e) PROVE TypeOK'
  <2>1. PICK x : x = [Idle EXCEPT !.at = "read", !.ref = e, !.amt = debt]
    OBVIOUS
  <2>2. e \in Event /\ debt \in Nat
    BY DEF TypeOK
  <2>3. x \in RequestType
    BY <2>1, <2>2, IdleType DEF RequestType
  <2> QED BY <1>3, <1>4, <1>7, <2>1, <2>3 DEF BalanceUpdated
<1>8. CASE AuditOne(p)
  <2>1. PICK x : x = [Idle EXCEPT !.at = "read", !.amt = debt]
    OBVIOUS
  <2>2. debt \in Nat
    BY DEF TypeOK
  <2>3. x \in RequestType
    BY <2>1, <2>2, IdleType DEF RequestType
  <2> QED BY <1>3, <1>4, <1>8, <2>1, <2>3 DEF AuditOne
<1> QED BY <1>5, <1>6, <1>7, <1>8

LEMMA ReadTypes ==
    ASSUME TypeOK, NEW p \in Proc, ReadOrders(p)
    PROVE  TypeOK'
<1>1. PICK y \in RequestType : y = proc[p]
  BY TypeIs
<1>2. PICK open \in Nat : open = PosOpen
  BY PosOpenNumber
<1>3. PICK due \in [Order -> Nat] : due = [o \in Order |-> Due(o)]
  BY DueNumber
<1>4. UNCHANGED <<scene, missed, paid, row, receipt, direct, debt, mail, faults>> /\ y.amt \in Nat
  BY DEF ReadOrders, books, treasury, RequestType
<1>5. ASSUME NEW x \in RequestType, Goes(p, x) PROVE TypeOK'
  <2>1. proc' \in [Proc -> RequestType]
    BY <1>5, RequestMoves, TypeIs
  <2> QED BY <1>4, <2>1, TypeIs, TypeNext
<1>6. CASE open > y.amt /\ Goes(p, [y EXCEPT !.at = "apply", !.amt = open - y.amt, !.due = due])
  <2>1. PICK x : x = [y EXCEPT !.at = "apply", !.amt = open - y.amt, !.due = due]
    OBVIOUS
  <2>2. open - y.amt \in Nat
    BY <1>4, <1>6
  <2>3. x \in RequestType
    BY <2>1, <2>2 DEF RequestType
  <2> QED BY <1>5, <1>6, <2>1, <2>3
<1>7. CASE open < y.amt /\ Goes(p, [y EXCEPT !.at = "undo", !.amt = y.amt - open])
  <2>1. PICK x : x = [y EXCEPT !.at = "undo", !.amt = y.amt - open]
    OBVIOUS
  <2>2. y.amt - open \in Nat
    BY <1>4, <1>7
  <2>3. x \in RequestType
    BY <2>1, <2>2 DEF RequestType
  <2> QED BY <1>5, <1>7, <2>1, <2>3
<1>8. CASE Ends(p)
  BY <1>5, <1>8, IdleType DEF Ends
<1> QED BY <1>1, <1>2, <1>3, <1>6, <1>7, <1>8 DEF ReadOrders

LEMMA ApplyTypes ==
    ASSUME TypeOK, NEW p \in Proc, ApplyReconcileSettlement(p)
    PROVE  TypeOK'
<1>1. PICK y \in RequestType : y = proc[p]
  BY TypeIs
<1>2. /\ UNCHANGED <<scene, missed, paid, receipt, direct, debt, mail>>
      /\ y.amt \in Nat /\ y.due \in [Order -> Nat] /\ y.ref \in Event \cup {Audit}
  BY DEF ApplyReconcileSettlement, treasury, RequestType
<1>3. faults' \in 0..MaxFault
  <2>1. CASE UNCHANGED faults
    BY <2>1 DEF TypeOK
  <2>2. CASE Mishap("fail")
    BY <2>2, MishapType
  <2> QED BY <2>1, <2>2 DEF ApplyReconcileSettlement
<1>4. ASSUME NEW x \in RequestType, Goes(p, x), row' \in [Row -> RowType] PROVE TypeOK'
  <2>1. proc' \in [Proc -> RequestType]
    BY <1>4, RequestMoves, TypeIs
  <2> QED BY <1>2, <1>3, <1>4, <2>1, TypeIs, TypeNext
<1>5. row \in [Row -> RowType]
  BY TypeIs
<1>6. CASE Ends(p) /\ UNCHANGED row
  BY <1>4, <1>5, <1>6, IdleType DEF Ends
<1>7. ASSUME NEW o \in Order, NEW r \in Row, NEW share, share = ShareOf(proc[p].due[o], proc[p].amt),
             row' = [row EXCEPT ![r] = [NoRow EXCEPT !.st = "completed", !.kind = "recon", !.ord = o,
                                                     !.amt = share, !.ref = proc[p].ref]],
             Goes(p, [proc[p] EXCEPT !.at = "recount", !.then = "apply", !.ord = o])
      PROVE  TypeOK'
  <2>1. share \in Nat
    BY <1>1, <1>2, <1>7, LesserNumber DEF ShareOf
  <2>4. PICK x, v : /\ x = [y EXCEPT !.at = "recount", !.then = "apply", !.ord = o]
                    /\ v = [NoRow EXCEPT !.st = "completed", !.kind = "recon", !.ord = o, !.amt = share, !.ref = y.ref]
    OBVIOUS
  <2>5. x \in RequestType
    BY <2>4 DEF RequestType
  <2>6. v \in RowType
    BY <1>2, <2>1, <2>4, NoRowType DEF RowType
  <2>7. row' \in [Row -> RowType]
    BY <1>1, <1>5, <1>7, <2>4, <2>6, RowTypes
  <2>8. Goes(p, x)
    BY <1>1, <1>7, <2>4 DEF RequestType
  <2> QED BY <1>4, <2>5, <2>7, <2>8
<1>8. ASSUME NEW o \in Order, UNCHANGED row, Goes(p, [proc[p] EXCEPT !.due[o] = 0]) PROVE TypeOK'
  <2>1. PICK due \in [Order -> Nat] : due = [y.due EXCEPT ![o] = 0]
    BY <1>2
  <2>2. PICK x : x = [y EXCEPT !.due = due]
    OBVIOUS
  <2>3. x \in RequestType
    BY <2>2 DEF RequestType
  <2>4. Goes(p, x)
    BY <1>1, <1>8, <2>1, <2>2 DEF RequestType
  <2> QED BY <1>4, <1>5, <1>8, <2>3, <2>4
<1> QED BY <1>6, <1>7, <1>8 DEF ApplyReconcileSettlement

LEMMA UndoTypes ==
    ASSUME TypeOK, NEW p \in Proc, UnreconcilePhantom(p)
    PROVE  TypeOK'
<1>1. PICK y \in RequestType : y = proc[p]
  BY TypeIs
<1>2. UNCHANGED <<scene, missed, paid, receipt, direct, debt, mail, faults>> /\ y.amt \in Nat /\ row \in [Row -> RowType]
  BY TypeIs DEF UnreconcilePhantom, treasury, RequestType
<1>3. ASSUME NEW x \in RequestType, Goes(p, x), row' \in [Row -> RowType] PROVE TypeOK'
  <2>1. proc' \in [Proc -> RequestType]
    BY <1>3, RequestMoves, TypeIs
  <2> QED BY <1>2, <1>3, <2>1, TypeIs, TypeNext
<1>4. CASE Ends(p) /\ UNCHANGED row
  BY <1>2, <1>3, <1>4, IdleType DEF Ends
<1>5. ASSUME NEW r \in Row, NEW cut, cut = Lesser(row[r].amt, y.amt),
             row' = [row EXCEPT ![r].amt = @ - cut, ![r].undone = TRUE],
             Goes(p, [y EXCEPT !.at = "recount", !.then = "undo", !.ord = row[r].ord, !.amt = @ - cut])
      PROVE  TypeOK'
  <2>1. PICK w \in RowType : w = row[r]
    BY <1>2
  <2>2. w.amt \in Nat /\ w.ord \in Order
    BY DEF RowType
  <2>3. cut \in Nat /\ w.amt - cut \in Nat /\ y.amt - cut \in Nat
    BY <1>2, <1>5, <2>1, <2>2, LesserNumber
  <2>4. PICK x, v : /\ x = [y EXCEPT !.at = "recount", !.then = "undo", !.ord = w.ord, !.amt = y.amt - cut]
                    /\ v = [[w EXCEPT !.amt = w.amt - cut] EXCEPT !.undone = TRUE]
    OBVIOUS
  <2>5. x \in RequestType
    BY <2>2, <2>3, <2>4 DEF RequestType
  <2>6. v \in RowType
    BY <2>3, <2>4 DEF RowType
  <2>7. row' = [row EXCEPT ![r] = v]
    BY <1>2, <1>5, <2>1, <2>4 DEF RowType
  <2>8. row' \in [Row -> RowType]
    BY <1>2, <2>6, <2>7, RowTypes
  <2>9. Goes(p, x)
    BY <1>5, <2>1, <2>4 DEF RequestType
  <2> QED BY <1>3, <2>5, <2>8, <2>9
<1> QED BY <1>1, <1>4, <1>5 DEF UnreconcilePhantom

LEMMA CrashTypes ==
    ASSUME TypeOK, NEW p \in Proc, Crash(p)
    PROVE  TypeOK'
<1>1. UNCHANGED <<scene, missed, paid, row, receipt, direct, debt>> /\ Goes(p, Idle) /\ faults' \in 0..MaxFault
  BY MishapType DEF Crash, Ends, books
<1>2. mail' \subseteq Event
  <2>1. proc[p].ref \in Event \cup {Audit}
    BY DEF TypeOK
  <2>2. mail' = mail \/ (proc[p].ref # Audit /\ mail' = mail \cup {proc[p].ref})
    BY DEF Crash
  <2> QED BY <2>1, <2>2 DEF TypeOK
<1>3. proc' \in [Proc -> RequestType]
  BY <1>1, IdleType, RequestMoves, TypeIs
<1> QED BY <1>1, <1>2, <1>3, TypeIs, TypeNext

LEMMA TypeInductive == SafeInv /\ TypeOK /\ [Next]_vars => TypeOK'
<1> SUFFICES ASSUME SafeInv, TypeOK, [Next]_vars PROVE TypeOK'
  OBVIOUS
<1>1. CASE UNCHANGED vars
  BY <1>1 DEF vars, TypeOK
<1>2. CASE Treasury
  BY <1>2, DirectTypes DEF Treasury
<1>3. ASSUME NEW p \in Proc, Till(p) PROVE TypeOK'
  BY <1>3, SettleTypes, TakenUpTypes DEF Till
<1>4. ASSUME NEW p \in Proc, Serve(p) PROVE TypeOK'
  BY <1>4, InsertTypes, RecountTypes, PostTypes, MarkTypes, VoidingTypes, UnreceiptTypes, ReadTypes, ApplyTypes, UndoTypes
  DEF Serve
<1>5. ASSUME NEW p \in Proc, Worker(p) PROVE TypeOK'
  BY <1>5, TakenUpTypes DEF Worker
<1> QED BY <1>1, <1>2, <1>3, <1>4, <1>5, CrashTypes DEF Next

\* Type correctness: no total, amount, target or debt goes below zero, though each is written from
\* an earlier read (credit_settlement.go:165, ar_reconcile.go:199).
THEOREM TypeCorrect == Spec => []TypeOK
BY Start, Inductive, TypeStart, TypeInductive, PTL DEF Spec

----------------------------------------------------------------------------
(* What the rows are worth after a step.                                     *)

LEMMA WorthSame ==
    ASSUME TypeOK, TypeOK', NEW Q \in SUBSET Row, \A r \in Q : row'[r].amt = row[r].amt
    PROVE  Worth(Q)' = Worth(Q)
<1> PICK f, g : f = Amount /\ g = Amount'
  OBVIOUS
<1>1. IsFiniteSet(Q) /\ \A r \in Q : g[r] = f[r]
  BY Sizes, FS_Subset DEF Amount
<1>2. SumFunctionOnSet(g, Q) = SumFunctionOnSet(f, Q)
  BY <1>1, SumSame
<1> QED BY <1>2 DEF Worth

LEMMA WorthJoins ==
    ASSUME TypeOK, TypeOK', NEW Q \in SUBSET Row, \A t \in Q : row'[t].amt = row[t].amt, NEW r \in Row, r \notin Q
    PROVE  Worth(Q \cup {r})' = Worth(Q) + row'[r].amt
<1> PICK f, g, R : f = Amount /\ g = Amount' /\ R = Q \cup {r}
  OBVIOUS
<1>1. /\ IsFiniteSet(R) /\ IsFiniteSet(Q) /\ r \in R /\ R \ {r} = Q
      /\ (\A t \in R : g[t] \in Int) /\ (\A t \in Q : g[t] = f[t] /\ f[t] \in Int)
      /\ g[r] = row'[r].amt
  <2>1. IsFiniteSet(R) /\ IsFiniteSet(Q)
    BY Sizes, FS_Subset
  <2>2. \A t \in Row : f[t] = row[t].amt /\ g[t] = row'[t].amt /\ f[t] \in Int /\ g[t] \in Int
    BY DEF Amount, TypeOK
  <2> QED BY <2>1, <2>2
<1>2. SumFunctionOnSet(g, R) = g[r] + SumFunctionOnSet(g, Q)
  BY <1>1, SumTakes
<1>3. SumFunctionOnSet(g, Q) = SumFunctionOnSet(f, Q)
  BY <1>1, SumSame
<1>4. SumFunctionOnSet(f, Q) \in Int /\ g[r] \in Int
  BY <1>1, SumNumber
<1>5. SumFunctionOnSet(g, R) = SumFunctionOnSet(f, Q) + g[r]
  BY <1>2, <1>3, <1>4
<1> QED BY <1>1, <1>5 DEF Worth

LEMMA WorthShrinks ==
    ASSUME TypeOK, TypeOK', NEW R \in SUBSET Row, NEW Q \in SUBSET R, \A r \in Q : row'[r].amt <= row[r].amt
    PROVE  Worth(Q)' <= Worth(R)
<1> PICK f, g : f = Amount /\ g = Amount'
  OBVIOUS
<1>1. IsFiniteSet(Q) /\ IsFiniteSet(R)
  BY Sizes, FS_Subset
<1>2. \A r \in Row : f[r] = row[r].amt /\ g[r] = row'[r].amt /\ f[r] \in Nat /\ g[r] \in Nat
  BY DEF Amount, TypeOK
<1>3. (\A r \in R : f[r] \in Nat /\ g[r] \in Nat) /\ \A r \in Q : f[r] \in Int /\ g[r] \in Int /\ g[r] <= f[r]
  BY <1>2
<1>4. SumFunctionOnSet(g, Q) <= SumFunctionOnSet(f, Q)
  BY <1>1, <1>3, SumAtMost
<1>5. SumFunctionOnSet(f, Q) <= SumFunctionOnSet(f, R)
  BY <1>1, <1>3, SumGrows
<1>6. SumFunctionOnSet(f, Q) \in Int /\ SumFunctionOnSet(g, Q) \in Int /\ SumFunctionOnSet(f, R) \in Int
  <2>1. \A r \in R : f[r] \in Int
    BY <1>3
  <2> QED BY <1>1, <1>3, <2>1, SumNumber
<1>7. SumFunctionOnSet(g, Q) <= SumFunctionOnSet(f, R)
  BY <1>4, <1>5, <1>6
<1> QED BY <1>7 DEF Worth

----------------------------------------------------------------------------
(* Settlements stay within the worth of their sale: the amount that goes in   *)
(* is capped by what is left of the sale after every row there is, those of   *)
(* the passes included, and nothing else makes a settlement worth more.       *)

TillRows(o) == Counted(o) \cap Tills

LEMMA TillRowsAre ==
    ASSUME NEW o
    PROVE  /\ \A r : r \in TillRows(o) <=> r \in Row /\ row[r].st = "completed" /\ row[r].ord = o /\ row[r].kind = "settle"
           /\ \A r : r \in TillRows(o)' <=> r \in Row /\ row'[r].st = "completed" /\ row'[r].ord = o /\ row'[r].kind = "settle"
           /\ TillRows(o) \in SUBSET Counted(o) /\ Counted(o) \in SUBSET Row
BY DEF TillRows, Counted, Tills, Used

LEMMA WithinKept ==
    ASSUME TypeOK, TypeOK', NEW o, Worth(TillRows(o)) <= scene.price[o], UNCHANGED scene, o \in Order,
           \A r \in TillRows(o)' : r \in TillRows(o) /\ row'[r].amt <= row[r].amt
    PROVE  Worth(TillRows(o))' <= scene'.price[o]
<1> PICK Q, R : Q = TillRows(o)' /\ R = TillRows(o)
  OBVIOUS
<1>1. R \in SUBSET Row /\ Q \in SUBSET R /\ \A r \in Q : row'[r].amt <= row[r].amt
  BY TillRowsAre
<1>2. Worth(Q)' <= Worth(R)
  BY <1>1, WorthShrinks
<1>3. Worth(Q)' \in Int /\ Worth(R) \in Int /\ scene.price[o] \in Int
  <2>1. IsFiniteSet(Q) /\ \A r \in Q : Amount'[r] \in Int
    BY <1>1, Sizes, FS_Subset DEF Amount, TypeOK
  <2>2. SumFunctionOnSet(Amount', Q) \in Int
    <3> PICK g : g = Amount'
      OBVIOUS
    <3> QED BY <2>1, SumNumber
  <2>3. Worth(R) \in Int
    BY <1>1, WorthNumber
  <2> QED BY <2>2, <2>3, Prices DEF Worth
<1>4. Worth(TillRows(o))' = Worth(Q)' /\ Worth(TillRows(o)) = Worth(R)
  OBVIOUS
<1> PICK x, y, z : x = Worth(Q)' /\ y = Worth(R) /\ z = scene.price[o]
  OBVIOUS
<1>5. x <= y /\ y <= z /\ x \in Int /\ y \in Int /\ z \in Int
  BY <1>2, <1>3, <1>4
<1>6. x <= z
  BY <1>5
<1> QED BY <1>4, <1>6

\* A row that becomes v does not add to what is settled of any order.
LEMMA WithinRow ==
    ASSUME TypeOK, TypeOK', SettlesWithinWorth, UNCHANGED scene, NEW r \in Row, NEW v, row' = [row EXCEPT ![r] = v],
           v.st = "completed" /\ v.kind = "settle" =>
               row[r].st = "completed" /\ row[r].kind = "settle" /\ v.ord = row[r].ord /\ v.amt <= row[r].amt
    PROVE  SettlesWithinWorth'
<1>1. row'[r] = v /\ \A t \in Row : t # r => row'[t] = row[t]
  BY Puts DEF TypeOK
<1>2. ASSUME NEW o \in Order PROVE Worth(TillRows(o))' <= scene'.price[o]
  <2>1. ASSUME NEW t \in TillRows(o)' PROVE t \in TillRows(o) /\ row'[t].amt <= row[t].amt
    <3>1. t \in Row /\ row'[t].st = "completed" /\ row'[t].ord = o /\ row'[t].kind = "settle"
      BY <2>1, TillRowsAre
    <3>2. row[t].st = "completed" /\ row[t].ord = o /\ row[t].kind = "settle" /\ row'[t].amt <= row[t].amt
      <4>1. CASE t = r
        BY <1>1, <3>1, <4>1
      <4>2. CASE t # r
        <5>1. row[t].amt \in Nat /\ row'[t] = row[t]
          BY <1>1, <3>1, <4>2 DEF TypeOK
        <5> QED BY <3>1, <5>1
      <4> QED BY <4>1, <4>2
    <3> QED BY <3>1, <3>2, TillRowsAre
  <2>2. Worth(TillRows(o)) <= scene.price[o]
    BY DEF SettlesWithinWorth, TillRows
  <2> QED BY <2>1, <2>2, WithinKept
<1> QED BY <1>2 DEF SettlesWithinWorth, TillRows

LEMMA WithinSame == ASSUME SettlesWithinWorth, UNCHANGED <<scene, row>> PROVE SettlesWithinWorth'
BY DEF SettlesWithinWorth, Worth, Amount, Counted, Tills, Used

LEMMA WithinInsert ==
    ASSUME TypeOK, TypeOK', SettlesWithinWorth, NEW p \in Proc, InsertSettlement(p)
    PROVE  SettlesWithinWorth'
<1>1. UNCHANGED scene
  BY DEF InsertSettlement
<1>2. CASE UNCHANGED row
  BY <1>1, <1>2, WithinSame
<1>3. ASSUME FreshOutstanding(p) > 0, NEW r \in Row, New(r),
             row' = [row EXCEPT ![r] = [NoRow EXCEPT !.st = "completed", !.ord = proc[p].ord,
                                                     !.amt = Lesser(proc[p].amt, FreshOutstanding(p))]]
      PROVE  SettlesWithinWorth'
  <2> PICK k \in Order : k = proc[p].ord
    BY DEF TypeOK
  <2>1. PICK a : a = Lesser(proc[p].amt, FreshOutstanding(p))
    OBVIOUS
  <2>2. PICK v : v = [NoRow EXCEPT !.st = "completed", !.ord = k, !.amt = a]
    OBVIOUS
  <2>3. v.st = "completed" /\ v.kind = "settle" /\ v.ord = k /\ v.amt = a
    BY <2>2 DEF NoRow
  <2>4. row' = [row EXCEPT ![r] = v] /\ row[r].st = "none"
    BY <1>3, <2>1, <2>2 DEF New
  <2>5. row'[r] = v /\ \A t \in Row : t # r => row'[t] = row[t]
    BY <2>4, Puts DEF TypeOK
  <2>6. ASSUME NEW o \in Order PROVE Worth(TillRows(o))' <= scene'.price[o]
    <3>1. Worth(TillRows(o)) <= scene.price[o]
      BY DEF SettlesWithinWorth, TillRows
    <3>2. CASE o # k
      <4>1. ASSUME NEW t \in TillRows(o)' PROVE t \in TillRows(o) /\ row'[t].amt <= row[t].amt
        <5>1. t \in Row /\ row'[t].st = "completed" /\ row'[t].ord = o /\ row'[t].kind = "settle"
          BY <4>1, TillRowsAre
        <5>2. row'[t] = row[t]
          BY <2>3, <2>5, <3>2, <5>1
        <5>3. row[t].amt \in Nat
          BY <5>1 DEF TypeOK
        <5> QED BY <5>1, <5>2, <5>3, TillRowsAre
      <4> QED BY <1>1, <3>1, <4>1, WithinKept
    <3>3. CASE o = k
      <4> PICK Q, C : Q = TillRows(k) /\ C = Counted(k)
        OBVIOUS
      <4>1. Q \in SUBSET Row /\ C \in SUBSET Row /\ Q \in SUBSET C /\ r \notin Q
        BY <2>4, TillRowsAre
      <4>2. TillRows(k)' = Q \cup {r}
        <5>1. ASSUME NEW t PROVE t \in TillRows(k)' <=> t \in Q \cup {r}
          BY <2>3, <2>5, TillRowsAre
        <5> QED BY <5>1
      <4>3. \A t \in Q : row'[t].amt = row[t].amt
        BY <2>5, <4>1
      <4>4. Worth(Q \cup {r})' = Worth(Q) + row'[r].amt
        BY <4>1, <4>3, WorthJoins
      <4>5. Worth(Q) <= Worth(C)
        <5>1. \A t \in C : Amount[t] \in Nat
          BY <4>1, Amounts
        <5>2. IsFiniteSet(C)
          BY <4>1, Sizes, FS_Subset
        <5> PICK f : f = Amount
          OBVIOUS
        <5> QED BY <4>1, <5>1, <5>2, SumGrows DEF Worth
      <4> PICK w, q, c, n, m : /\ w = Worth(Q \cup {r})' /\ q = Worth(Q) /\ c = Worth(C)
                               /\ n = scene.price[k] /\ m = proc[p].amt
        OBVIOUS
      <4>6. q \in Int /\ c \in Int /\ n \in Int /\ m \in Int
        BY <4>1, WorthNumber, Prices DEF TypeOK
      <4>7. a = Lesser(m, n - c) /\ w = q + a /\ q <= c
        BY <2>1, <2>3, <2>5, <4>4, <4>5 DEF FreshOutstanding, Collected
      <4>8. w <= n
        BY <4>6, <4>7 DEF Lesser
      <4> QED BY <1>1, <3>3, <4>2, <4>8
    <3> QED BY <3>2, <3>3
  <2> QED BY <2>6 DEF SettlesWithinWorth, TillRows
<1> QED BY <1>2, <1>3 DEF InsertSettlement

LEMMA WithinMark ==
    ASSUME TypeOK, TypeOK', SafeInv, SettlesWithinWorth, NEW p \in Proc, MarkSynced(p)
    PROVE  SettlesWithinWorth'
<1> PICK r, i : r = proc[p].row /\ i = KeptId(p)
  OBVIOUS
<1>1. UNCHANGED scene /\ r \in Row /\ IsRow(row[r]) /\ row[r].amt \in Nat
  BY DEF MarkSynced, SafeInv, Facts, Holds, Books, TypeOK
<1>2. CASE UNCHANGED row
  BY <1>1, <1>2, WithinSame
<1>3. CASE row' = [row EXCEPT ![r].synced = TRUE, ![r].id = i]
  <2>1. PICK v : v = [[row[r] EXCEPT !.synced = TRUE] EXCEPT !.id = i]
    OBVIOUS
  <2>2. v.st = row[r].st /\ v.ord = row[r].ord /\ v.kind = row[r].kind /\ v.amt = row[r].amt
    BY <1>1, <2>1 DEF IsRow
  <2>3. row' = [row EXCEPT ![r] = v]
    BY <1>1, <1>3, <2>1 DEF SafeInv, Books
  <2>4. v.st = "completed" /\ v.kind = "settle" =>
           row[r].st = "completed" /\ row[r].kind = "settle" /\ v.ord = row[r].ord /\ v.amt <= row[r].amt
    BY <1>1, <2>2
  <2> QED BY <1>1, <2>3, <2>4, WithinRow
<1> QED BY <1>2, <1>3 DEF MarkSynced

LEMMA WithinVoiding ==
    ASSUME TypeOK, TypeOK', SafeInv, SettlesWithinWorth, NEW p \in Proc, VoidPayment(p)
    PROVE  SettlesWithinWorth'
<1> PICK r : r = proc[p].row
  OBVIOUS
<1>1. UNCHANGED scene /\ r \in Row /\ IsRow(row[r])
  BY DEF VoidPayment, SafeInv, Facts, Holds, Books
<1>2. PICK v : v = [[[row[r] EXCEPT !.st = "voided"] EXCEPT !.id = proc[p].id] EXCEPT !.synced = proc[p].synced]
  OBVIOUS
<1>3. v.st = "voided"
  BY <1>1, <1>2 DEF IsRow
<1>4. row' = [row EXCEPT ![r] = v]
  BY <1>1, <1>2 DEF VoidPayment, SafeInv, Books
<1> QED BY <1>1, <1>3, <1>4, WithinRow

LEMMA WithinApply ==
    ASSUME TypeOK, TypeOK', SettlesWithinWorth, NEW p \in Proc, ApplyReconcileSettlement(p)
    PROVE  SettlesWithinWorth'
<1>1. UNCHANGED scene
  BY DEF ApplyReconcileSettlement
<1>2. CASE UNCHANGED row
  BY <1>1, <1>2, WithinSame
<1>3. ASSUME NEW r \in Row, NEW o \in Order, NEW a, a = ShareOf(proc[p].due[o], proc[p].amt),
             row' = [row EXCEPT ![r] = [NoRow EXCEPT !.st = "completed", !.kind = "recon", !.ord = o,
                                                     !.amt = a, !.ref = proc[p].ref]]
      PROVE  SettlesWithinWorth'
  <2>1. PICK v : v = [NoRow EXCEPT !.st = "completed", !.kind = "recon", !.ord = o, !.amt = a, !.ref = proc[p].ref]
    OBVIOUS
  <2>2. v.kind = "recon"
    BY <2>1 DEF NoRow
  <2>3. v.st = "completed" /\ v.kind = "settle" =>
           row[r].st = "completed" /\ row[r].kind = "settle" /\ v.ord = row[r].ord /\ v.amt <= row[r].amt
    BY <2>2
  <2>4. row' = [row EXCEPT ![r] = v]
    BY <1>3, <2>1
  <2> QED BY <1>1, <2>3, <2>4, WithinRow
<1> QED BY <1>2, <1>3 DEF ApplyReconcileSettlement

LEMMA WithinUndo ==
    ASSUME TypeOK, TypeOK', SafeInv, SettlesWithinWorth, NEW p \in Proc, UnreconcilePhantom(p)
    PROVE  SettlesWithinWorth'
<1>1. UNCHANGED scene
  BY DEF UnreconcilePhantom
<1>2. CASE UNCHANGED row
  BY <1>1, <1>2, WithinSame
<1>3. ASSUME NEW r \in Row, Undoes(p, r), NEW cut, row' = [row EXCEPT ![r].amt = @ - cut, ![r].undone = TRUE]
      PROVE  SettlesWithinWorth'
  <2>1. PICK v : v = [[row[r] EXCEPT !.amt = row[r].amt - cut] EXCEPT !.undone = TRUE]
    OBVIOUS
  <2>2. IsRow(row[r]) /\ row[r].kind = "recon"
    BY <1>3 DEF Undoes, SafeInv, Books
  <2>3. v.kind = "recon"
    BY <2>1, <2>2 DEF IsRow
  <2>4. row' = [row EXCEPT ![r] = v]
    BY <1>3, <2>1, <2>2 DEF SafeInv, Books, IsRow
  <2> QED BY <1>1, <2>3, <2>4, WithinRow
<1> QED BY <1>2, <1>3 DEF UnreconcilePhantom

LEMMA WithinStart == Init => SettlesWithinWorth
<1> SUFFICES ASSUME Init, NEW o \in Order PROVE Worth(TillRows(o)) <= scene.price[o]
  BY DEF SettlesWithinWorth, TillRows
<1>1. TillRows(o) = {}
  BY NoRowIs, TillRowsAre DEF Init
<1>2. Worth({}) = 0
  BY SumEmpty DEF Worth
<1>3. scene.price[o] \in Nat
  BY Prices, TypeStart
<1> QED BY <1>1, <1>2, <1>3

LEMMA WithinInductive == SafeInv /\ TypeOK /\ TypeOK' /\ SettlesWithinWorth /\ [Next]_vars => SettlesWithinWorth'
<1> SUFFICES ASSUME SafeInv, TypeOK, TypeOK', SettlesWithinWorth, [Next]_vars PROVE SettlesWithinWorth'
  OBVIOUS
<1>1. CASE UNCHANGED vars
  BY <1>1, WithinSame DEF vars
<1>2. CASE Treasury
  BY <1>2, WithinSame DEF Treasury, Receive, Withdraw, books
<1>3. ASSUME NEW p \in Proc, Till(p) PROVE SettlesWithinWorth'
  BY <1>3, WithinSame DEF Till, SettleCreditPayment, LoadForVoid, books
<1>4. ASSUME NEW p \in Proc, Serve(p) PROVE SettlesWithinWorth'
  <2>1. CASE RecomputePaidTotal(p) \/ RecordARPayment(p) \/ VoidARReceipt(p) \/ ReadOrders(p)
    BY <2>1, WithinSame DEF RecomputePaidTotal, RecordARPayment, VoidARReceipt, ReadOrders, books
  <2> QED BY <1>4, <2>1, WithinInsert, WithinMark, WithinVoiding, WithinApply, WithinUndo DEF Serve
<1>5. ASSUME NEW p \in Proc, Worker(p) PROVE SettlesWithinWorth'
  BY <1>5, WithinSame DEF Worker, RetrySync, BalanceUpdated, AuditOne, books
<1>6. ASSUME NEW p \in Proc, Crash(p) PROVE SettlesWithinWorth'
  BY <1>6, WithinSame DEF Crash, books
<1> QED BY <1>1, <1>2, <1>3, <1>4, <1>5, <1>6 DEF Next

\* Settlements of a sale never add up to more than it is worth, for any number of tills, workers and
\* passes at the same sale: the row lock and the check under it are enough (credit_settlement.go:157).
THEOREM SettlesStayWithin == Spec => []SettlesWithinWorth
BY Start, Inductive, TypeStart, TypeInductive, WithinStart, WithinInductive, PTL DEF Spec

----------------------------------------------------------------------------
(* What the orders show as settled was received.  The pass adds to an order  *)
(* what treasury's debt was short of what the orders show as open.  That is  *)
(* safe because at the time of the pass three sums fit together:             *)
(*   Owing    the debt it aims at, with everything treasury has recorded, is *)
(*            at least what the sales are worth, and what is recorded grows; *)
(*   Counting what an order has collected is in its paid total, but for rows *)
(*            a till has not recounted, what was missed by a recount that    *)
(*            failed, and what a pass has just paid in;                      *)
(*   Giving   what a pass may still add is covered by what was received and  *)
(*            what was missed.                                               *)

Fresh(x) == x.at = "recount" /\ x.then = "call"
Applying(x) == x.at = "apply" \/ (x.at = "recount" /\ x.then = "apply")
Passing(x) == x.at \in {"read", "apply", "undo"} \/ (x.at = "recount" /\ x.then \in {"apply", "undo"})

WorkFacts(x) ==
    /\ x.at # "voiding" /\ ~Reversing(x)
    /\ Holds(x) => row[x.row].kind = "settle"
    /\ Fresh(x) => row[x.row].st = "completed" /\ row[x.row].ord = x.ord /\ receipt[x.row] = "none"

Orderly ==
    /\ Apart
    /\ \A p, q \in Proc : p # q /\ Passing(proc[p]) => ~Passing(proc[q])
    /\ \A p \in Proc : WorkFacts(proc[p])
    /\ \A r \in Row : row[r].st # "voided"

KeptRow(t) == /\ row'[t].st = row[t].st /\ row'[t].kind = row[t].kind /\ row'[t].ord = row[t].ord
              /\ receipt'[t] = receipt[t]

\* As CalmMoved, for the order in which the work is done.
LEMMA OrderlyMoved ==
    ASSUME SafeInv, Orderly, NEW p \in Proc, NEW x, Goes(p, x), NEW h, h = 0 \/ h \in Row,
           proc[p].row \in {0, h}, x.row \in {0, h},
           \A q \in Proc : q # p /\ proc[q].row = h => h = 0,
           \A t \in Row : t # h => KeptRow(t), h # 0 => row'[h].st # "voided",
           WorkFacts(x)', Passing(x) /\ ~Passing(proc[p]) => \A q \in Proc : q # p => ~Passing(proc[q])
    PROVE  Orderly'
<1>1. proc'[p] = x /\ (\A q \in Proc : q # p => proc'[q] = proc[q])
  BY Puts DEF Goes, SafeInv, Requests
<1>2. ASSUME NEW a \in Proc, NEW b \in Proc, a # b, proc'[a].row = proc'[b].row PROVE proc'[a].row = 0
  <2>1. CASE a = p
    BY <1>1, <1>2, <2>1
  <2>2. CASE b = p
    BY <1>1, <1>2, <2>2
  <2>3. CASE a # p /\ b # p
    BY <1>1, <1>2, <2>3 DEF Orderly, Apart
  <2> QED BY <2>1, <2>2, <2>3
<1>3. ASSUME NEW q \in Proc PROVE WorkFacts(proc[q])'
  <2>1. CASE q = p
    BY <1>1, <2>1 DEF WorkFacts, Holds, Fresh, Reversing
  <2>2. CASE q # p
    <3> PICK y, t : y = proc[q] /\ t = y.row
      OBVIOUS
    <3>1. WorkFacts(y) /\ Facts(y) /\ proc'[q] = y /\ (t = h => h = 0)
      BY <1>1, <2>2 DEF Orderly, SafeInv
    <3>2. CASE Holds(y)
      <4>1. t \in Row /\ t # h
        BY <3>1, <3>2, Rows DEF Facts
      <4>2. KeptRow(t)
        BY <4>1
      <4> QED BY <3>1, <4>2 DEF WorkFacts, KeptRow, Holds, Fresh, Reversing
    <3>3. CASE ~Holds(y)
      BY <3>1, <3>3 DEF WorkFacts, Holds, Fresh, Reversing
    <3> QED BY <3>2, <3>3
  <2> QED BY <2>1, <2>2
<1>4. ASSUME NEW a \in Proc, NEW b \in Proc, a # b, Passing(proc'[a]) PROVE ~Passing(proc'[b])
  <2>1. \A c, d \in Proc : c # d /\ Passing(proc[c]) => ~Passing(proc[d])
    BY DEF Orderly
  <2>2. CASE a = p
    BY <1>1, <1>4, <2>1, <2>2
  <2>3. CASE b = p
    BY <1>1, <1>4, <2>1, <2>3
  <2>4. CASE a # p /\ b # p
    BY <1>1, <1>4, <2>1, <2>4
  <2> QED BY <2>2, <2>3, <2>4
<1>5. \A t \in Row : row'[t].st # "voided"
  BY Rows DEF Orderly, KeptRow
<1>6. Apart'
  BY <1>2 DEF Apart
<1>7. \A a, b \in Proc : a # b /\ Passing(proc[a])' => ~Passing(proc[b])'
  BY <1>4 DEF Passing
<1> QED BY <1>3, <1>5, <1>6, <1>7 DEF Orderly

LEMMA OrderlyElsewhere ==
    ASSUME SafeInv, Orderly, NEW p \in Proc, NEW x, Goes(p, x), proc[p].row = 0, x.row = 0, ~Holds(x),
           \A t \in Row : KeptRow(t),
           Passing(x) /\ ~Passing(proc[p]) => \A q \in Proc : q # p => ~Passing(proc[q])
    PROVE  Orderly'
<1>1. WorkFacts(x)'
  BY DEF WorkFacts, Holds, Fresh, Reversing
<1> PICK h : h = 0
  OBVIOUS
<1>2. h # 0 => row'[h].st # "voided"
  OBVIOUS
<1> QED BY <1>1, <1>2, OrderlyMoved

LEMMA KeptRows == ASSUME UNCHANGED <<row, receipt>> PROVE \A t \in Row : KeptRow(t)
BY DEF KeptRow

LEMMA OrderlyStays == ASSUME Orderly, UNCHANGED <<row, receipt, proc>> PROVE Orderly'
BY DEF Orderly, Apart, WorkFacts, Holds, Fresh, Reversing, Passing

----------------------------------------------------------------------------
(* The shape of each step: where the request goes, and which row changes.    *)

\* A settlement of a goes in as row r; a pass pays a into order k as row r; a pass takes back part of row r.
Settles(p, r, a, x, v) ==
    /\ row[r].st = "none" /\ row' = [row EXCEPT ![r] = v]
    /\ v.st = "completed" /\ v.kind = "settle" /\ v.ord = proc[p].ord /\ v.amt = a
    /\ Goes(p, x) /\ x.at = "recount" /\ x.then = "call" /\ x.row = r /\ x.ord = proc[p].ord
Pays(p, r, k, a, x, v) ==
    /\ row[r].st = "none" /\ row' = [row EXCEPT ![r] = v]
    /\ v.st = "completed" /\ v.kind = "recon" /\ v.ord = k /\ v.amt = a
    /\ Goes(p, x) /\ x.at = "recount" /\ x.then = "apply" /\ x.row = 0 /\ x.ord = k
    /\ x.amt = proc[p].amt /\ a = Share(x) /\ a <= proc[p].amt
Cuts(p, r, x, v) ==
    /\ row' = [row EXCEPT ![r] = v] /\ row[r].kind = "recon"
    /\ v.st = row[r].st /\ v.kind = row[r].kind /\ v.ord = row[r].ord /\ v.amt <= row[r].amt
    /\ Goes(p, x) /\ x.at = "recount" /\ x.then = "undo" /\ x.row = 0
\* A pass that pays nothing in goes on, or ends.
Skips(p, x) == Goes(p, x) /\ x.row = 0 /\ (x.at = "idle" \/ (x.at = "apply" /\ x.amt = proc[p].amt))
\* What a pass does with what it read.
Decides(p, x) == /\ Goes(p, x) /\ x.row = 0
                 /\ \/ x.at = "apply" /\ x.amt = PosOpen - proc[p].amt
                    \/ x.at \in {"undo", "idle"}

LEMMA InsertShape ==
    ASSUME TypeOK, SafeInv, NEW p \in Proc, InsertSettlement(p)
    PROVE  /\ UNCHANGED <<scene, missed, paid, receipt, direct, debt>> /\ proc[p].at = "insert" /\ proc[p].row = 0
           /\ \/ UNCHANGED row /\ Goes(p, Idle)
              \/ \E r \in Row, a \in Nat : \E x, v : Settles(p, r, a, x, v)
<1>1. UNCHANGED <<scene, missed, paid, receipt, direct, debt>> /\ proc[p].at = "insert" /\ proc[p].row = 0 /\ IsRequest(proc[p])
  BY DEF InsertSettlement, treasury, SafeInv, Requests, Facts, Holds
<1>2. CASE Ends(p) /\ UNCHANGED row
  BY <1>1, <1>2 DEF Ends
<1>3. ASSUME FreshOutstanding(p) > 0, NEW r \in Row, New(r),
             row' = [row EXCEPT ![r] = [NoRow EXCEPT !.st = "completed", !.ord = proc[p].ord,
                                                     !.amt = Lesser(proc[p].amt, FreshOutstanding(p))]],
             Goes(p, [proc[p] EXCEPT !.at = "recount", !.row = r, !.then = "call"])
      PROVE  \E a \in Nat : \E x, v : Settles(p, r, a, x, v)
  <2> PICK k \in Order : k = proc[p].ord
    BY DEF TypeOK
  <2>1. FreshOutstanding(p) \in Nat /\ proc[p].amt \in Nat
    <3>1. scene.price[k] \in Nat /\ Collected(k) \in Nat
      BY Prices, CollectedNumber
    <3> QED BY <1>3, <3>1 DEF FreshOutstanding, TypeOK
  <2>2. PICK a \in Nat : a = Lesser(proc[p].amt, FreshOutstanding(p))
    BY <2>1, LesserNumber
  <2>3. PICK x, v : /\ x = [proc[p] EXCEPT !.at = "recount", !.row = r, !.then = "call"]
                    /\ v = [NoRow EXCEPT !.st = "completed", !.ord = k, !.amt = a]
    OBVIOUS
  <2>4. v.st = "completed" /\ v.kind = "settle" /\ v.ord = k /\ v.amt = a
    BY <2>3 DEF NoRow
  <2>5. x.at = "recount" /\ x.then = "call" /\ x.row = r /\ x.ord = k
    BY <1>1, <2>3 DEF IsRequest
  <2>6. row[r].st = "none" /\ row' = [row EXCEPT ![r] = v] /\ Goes(p, x)
    BY <1>3, <2>2, <2>3 DEF New
  <2>7. Settles(p, r, a, x, v)
    BY <2>4, <2>5, <2>6 DEF Settles
  <2> QED BY <2>7
<1> QED BY <1>1, <1>2, <1>3 DEF InsertSettlement

LEMMA RecountShape ==
    ASSUME SafeInv, NEW p \in Proc, RecomputePaidTotal(p)
    PROVE  /\ UNCHANGED <<scene, row, receipt, direct, debt>> /\ proc[p].at = "recount"
           /\ \E x : /\ Goes(p, x) /\ SameWork(proc[p], x)
                     /\ \/ /\ Stores(proc[p].ord) /\ UNCHANGED missed
                           /\ x.amt = IF proc[p].then = "apply" THEN proc[p].amt - Share(proc[p]) ELSE proc[p].amt
                        \/ /\ Stores(proc[p].ord) \/ UNCHANGED paid
                           /\ missed' = [missed EXCEPT ![proc[p].ord] = @ + Recorded(proc[p])]
                           /\ x.amt = proc[p].amt
<1>1. UNCHANGED <<scene, row, receipt, direct, debt>> /\ proc[p].at = "recount" /\ IsRequest(proc[p])
  BY Recounts
<1> PICK x, z : x = AfterRecount(proc[p]) /\ z = AfterLostRecount(proc[p])
  OBVIOUS
<1>2. /\ SameWork(proc[p], x) /\ SameWork(proc[p], z) /\ z.amt = proc[p].amt
      /\ x.amt = IF proc[p].then = "apply" THEN proc[p].amt - Share(proc[p]) ELSE proc[p].amt
  BY <1>1, AfterEither
<1>3. \/ Stores(proc[p].ord) /\ Goes(p, x) /\ UNCHANGED missed
      \/ /\ Stores(proc[p].ord) \/ UNCHANGED paid
         /\ Goes(p, z) /\ missed' = [missed EXCEPT ![proc[p].ord] = @ + Recorded(proc[p])]
  BY DEF RecomputePaidTotal, StoreFails
<1> QED BY <1>1, <1>2, <1>3

LEMMA PostShape ==
    ASSUME SafeInv, NEW p \in Proc, RecordARPayment(p)
    PROVE  /\ UNCHANGED <<scene, missed, paid, row, direct>> /\ proc[p].at = "call" /\ proc[p].row \in Row
           /\ \E x : /\ Goes(p, x)
                     /\ x = Idle \/ (x.at = "mark" /\ x.row = proc[p].row)
                     /\ \/ UNCHANGED <<receipt, debt>>
                        \/ /\ Takes(proc[p].row) /\ receipt' = [receipt EXCEPT ![proc[p].row] = "live"]
                           /\ debt' = debt - row[proc[p].row].amt
<1>1. /\ UNCHANGED <<scene, missed, paid, row, direct>> /\ proc[p].at = "call" /\ proc[p].row \in Row /\ IsRequest(proc[p])
  BY DEF RecordARPayment, Post, books, treasury, SafeInv, Requests, Facts, Holds
<1> PICK x1, x2, x3 : x1 = [proc[p] EXCEPT !.at = "mark", !.id = TRUE] /\ x2 = [proc[p] EXCEPT !.at = "mark", !.id = FALSE]
                      /\ x3 = Idle
  OBVIOUS
<1>2. x1.at = "mark" /\ x1.row = proc[p].row /\ x2.at = "mark" /\ x2.row = proc[p].row
  BY <1>1 DEF IsRequest
<1>3. Goes(p, x1) \/ Goes(p, x2) \/ Goes(p, x3)
  BY DEF RecordARPayment, AfterRefusal, Ends
<1>4. \/ UNCHANGED <<receipt, debt>>
      \/ /\ Takes(proc[p].row) /\ receipt' = [receipt EXCEPT ![proc[p].row] = "live"]
         /\ debt' = debt - row[proc[p].row].amt
  BY DEF RecordARPayment, Post, treasury
<1> QED BY <1>1, <1>2, <1>3, <1>4

LEMMA MarkShape ==
    ASSUME SafeInv, NEW p \in Proc, MarkSynced(p)
    PROVE  /\ UNCHANGED <<scene, missed, paid, receipt, direct, debt>> /\ Goes(p, Idle) /\ proc[p].at = "mark" /\ proc[p].row \in Row
           /\ \/ UNCHANGED row
              \/ \E v : /\ row' = [row EXCEPT ![proc[p].row] = v]
                        /\ v.st = row[proc[p].row].st /\ v.kind = row[proc[p].row].kind
                        /\ v.ord = row[proc[p].row].ord /\ v.amt = row[proc[p].row].amt
<1> PICK r, i : r = proc[p].row /\ i = KeptId(p)
  OBVIOUS
<1>1. /\ UNCHANGED <<scene, missed, paid, receipt, direct, debt>> /\ Goes(p, Idle) /\ proc[p].at = "mark" /\ r \in Row /\ IsRow(row[r])
  BY DEF MarkSynced, Ends, treasury, SafeInv, Facts, Holds, Books
<1>2. CASE row' = [row EXCEPT ![r].synced = TRUE, ![r].id = i]
  <2>1. PICK v : v = [[row[r] EXCEPT !.synced = TRUE] EXCEPT !.id = i]
    OBVIOUS
  <2>2. v.st = row[r].st /\ v.ord = row[r].ord /\ v.kind = row[r].kind /\ v.amt = row[r].amt
    BY <1>1, <2>1 DEF IsRow
  <2>3. row' = [row EXCEPT ![r] = v]
    BY <1>1, <1>2, <2>1 DEF SafeInv, Books
  <2> QED BY <1>1, <2>2, <2>3
<1> QED BY <1>1, <1>2 DEF MarkSynced

LEMMA RetryShape ==
    ASSUME SafeInv, NEW p \in Proc, NEW r \in Row, RetrySync(p, r)
    PROVE  /\ UNCHANGED <<scene, missed, paid, row, receipt, direct, debt>> /\ proc[p] = Idle /\ ~AtRow(r)
           /\ row[r].kind = "settle"
           /\ \E x : Goes(p, x) /\ x.at = "call" /\ x.row = r
<1>1. PICK x : x = [[[Idle EXCEPT !.at = "call"] EXCEPT !.row = r] EXCEPT !.ord = row[r].ord]
  OBVIOUS
<1>2. x.at = "call" /\ x.row = r
  BY <1>1, IdleIs DEF IsRequest
<1>3. Goes(p, x) /\ UNCHANGED <<scene, missed, paid, row, receipt, direct, debt>> /\ proc[p] = Idle /\ ~AtRow(r)
  BY <1>1, IdleIs DEF RetrySync, Goes, books, treasury, IsRequest
<1>4. row[r].kind = "settle"
  BY DEF RetrySync, Candidate, Unsynced
<1> QED BY <1>2, <1>3, <1>4

LEMMA BeginShape ==
    ASSUME NEW p \in Proc, (\E e \in mail : BalanceUpdated(p, e)) \/ AuditOne(p)
    PROVE  /\ UNCHANGED <<scene, missed, paid, row, receipt, direct, debt>> /\ proc[p] = Idle /\ Alone
           /\ \/ UNCHANGED proc
              \/ \E x : Goes(p, x) /\ x.at = "read" /\ x.row = 0 /\ x.amt = debt
<1>1. UNCHANGED <<scene, missed, paid, row, receipt, direct, debt>> /\ proc[p] = Idle /\ Alone
  BY DEF BalanceUpdated, AuditOne, books, treasury
<1>2. ASSUME NEW e, Goes(p, [Idle EXCEPT !.at = "read", !.ref = e, !.amt = debt])
      PROVE  \E x : Goes(p, x) /\ x.at = "read" /\ x.row = 0 /\ x.amt = debt
  <2>1. PICK x : x = [Idle EXCEPT !.at = "read", !.ref = e, !.amt = debt]
    OBVIOUS
  <2>2. x.at = "read" /\ x.row = 0 /\ x.amt = debt
    BY <2>1 DEF Idle
  <2> QED BY <1>2, <2>1, <2>2
<1>3. ASSUME Goes(p, [Idle EXCEPT !.at = "read", !.amt = debt])
      PROVE  \E x : Goes(p, x) /\ x.at = "read" /\ x.row = 0 /\ x.amt = debt
  <2>1. PICK x : x = [Idle EXCEPT !.at = "read", !.amt = debt]
    OBVIOUS
  <2>2. x.at = "read" /\ x.row = 0 /\ x.amt = debt
    BY <2>1 DEF Idle
  <2> QED BY <1>3, <2>1, <2>2
<1> QED BY <1>1, <1>2, <1>3 DEF BalanceUpdated, AuditOne

LEMMA ReadShape ==
    ASSUME SafeInv, NEW p \in Proc, ReadOrders(p)
    PROVE  /\ UNCHANGED <<scene, missed, paid, row, receipt, direct, debt>> /\ proc[p].at = "read" /\ proc[p].row = 0
           /\ \E x : Decides(p, x)
<1>1. UNCHANGED <<scene, missed, paid, row, receipt, direct, debt>> /\ IsRequest(proc[p]) /\ proc[p].row = 0 /\ proc[p].at = "read"
  BY DEF ReadOrders, books, treasury, SafeInv, Requests, Facts, Holds
<1>3. ASSUME NEW due, Goes(p, [proc[p] EXCEPT !.at = "apply", !.amt = PosOpen - proc[p].amt, !.due = due]) PROVE \E x : Decides(p, x)
  <2>1. PICK x, n : n = PosOpen - proc[p].amt /\ x = [proc[p] EXCEPT !.at = "apply", !.amt = n, !.due = due]
    OBVIOUS
  <2>2. x.at = "apply" /\ x.row = 0 /\ x.amt = n
    BY <1>1, <2>1 DEF IsRequest
  <2>3. Goes(p, x)
    BY <1>3, <2>1
  <2>4. Decides(p, x)
    BY <2>1, <2>2, <2>3 DEF Decides
  <2> QED BY <2>4
<1>4. ASSUME NEW a, Goes(p, [proc[p] EXCEPT !.at = "undo", !.amt = a]) PROVE \E x : Decides(p, x)
  <2>1. PICK x : x = [proc[p] EXCEPT !.at = "undo", !.amt = a]
    OBVIOUS
  <2>2. x.at = "undo" /\ x.row = 0 /\ Goes(p, x)
    BY <1>1, <1>4, <2>1 DEF IsRequest
  <2>3. Decides(p, x)
    BY <2>2 DEF Decides
  <2> QED BY <2>3
<1>5. CASE Ends(p)
  <2>1. PICK x : x = Idle
    OBVIOUS
  <2>2. x.at = "idle" /\ x.row = 0 /\ Goes(p, x)
    BY <1>5, <2>1, IdleIs DEF Ends
  <2>3. Decides(p, x)
    BY <2>2 DEF Decides
  <2> QED BY <1>1, <2>3
<1> QED BY <1>1, <1>3, <1>4, <1>5 DEF ReadOrders

LEMMA ApplyShape ==
    ASSUME TypeOK, SafeInv, NEW p \in Proc, ApplyReconcileSettlement(p)
    PROVE  /\ UNCHANGED <<scene, missed, paid, receipt, direct, debt>> /\ proc[p].at = "apply" /\ proc[p].row = 0
           /\ \/ UNCHANGED row /\ \E x : Skips(p, x)
              \/ \E r \in Row, k \in Order, a \in Nat : \E x, v : Pays(p, r, k, a, x, v)
<1>1. /\ UNCHANGED <<scene, missed, paid, receipt, direct, debt>> /\ IsRequest(proc[p]) /\ proc[p].row = 0 /\ proc[p].at = "apply"
      /\ proc[p].amt \in Nat
  BY DEF ApplyReconcileSettlement, treasury, SafeInv, Requests, Facts, Holds, TypeOK
<1>2. CASE Ends(p) /\ UNCHANGED row
  <2>1. PICK x : x = Idle
    OBVIOUS
  <2>2. x.at = "idle" /\ x.row = 0 /\ Goes(p, x)
    BY <1>2, <2>1, IdleIs DEF Ends
  <2>3. Skips(p, x)
    BY <2>2 DEF Skips
  <2> QED BY <1>1, <1>2, <2>3
<1>3. ASSUME NEW o \in Order, UNCHANGED row, Goes(p, [proc[p] EXCEPT !.due[o] = 0]) PROVE \E x : Skips(p, x)
  <2>1. PICK x : x = [proc[p] EXCEPT !.due = [proc[p].due EXCEPT ![o] = 0]]
    OBVIOUS
  <2>2. x.at = "apply" /\ x.row = 0 /\ x.amt = proc[p].amt
    BY <1>1, <2>1 DEF IsRequest
  <2>3. Goes(p, x)
    BY <1>1, <1>3, <2>1 DEF IsRequest
  <2>4. Skips(p, x)
    BY <2>2, <2>3 DEF Skips
  <2> QED BY <2>4
<1>4. ASSUME NEW o \in Order, NEW r \in Row, NEW share, share = ShareOf(proc[p].due[o], proc[p].amt), New(r),
             row' = [row EXCEPT ![r] = [NoRow EXCEPT !.st = "completed", !.kind = "recon", !.ord = o,
                                                     !.amt = share, !.ref = proc[p].ref]],
             Goes(p, [proc[p] EXCEPT !.at = "recount", !.then = "apply", !.ord = o])
      PROVE  \E k \in Order, a \in Nat : \E x, v : Pays(p, r, k, a, x, v)
  <2>1. share \in Nat /\ share <= proc[p].amt
    <3>1. proc[p].due[o] \in Nat
      BY DEF TypeOK
    <3> QED BY <1>1, <1>4, <3>1, LesserNumber DEF ShareOf
  <2>2. PICK x, v : /\ x = [proc[p] EXCEPT !.at = "recount", !.then = "apply", !.ord = o]
                    /\ v = [NoRow EXCEPT !.st = "completed", !.kind = "recon", !.ord = o, !.amt = share, !.ref = proc[p].ref]
    OBVIOUS
  <2>3. /\ x.at = "recount" /\ x.then = "apply" /\ x.row = 0 /\ x.ord = o
        /\ x.amt = proc[p].amt /\ x.due = proc[p].due
    BY <1>1, <2>2 DEF IsRequest
  <2>4. share = Share(x)
    BY <1>4, <2>3 DEF Share
  <2>5. Goes(p, x)
    BY <1>4, <2>2
  <2>6. v.st = "completed" /\ v.kind = "recon" /\ v.ord = o /\ v.amt = share
    BY <2>2 DEF NoRow
  <2>7. row[r].st = "none" /\ row' = [row EXCEPT ![r] = v]
    BY <1>4, <2>2 DEF New
  <2>8. Pays(p, r, o, share, x, v)
    BY <2>1, <2>3, <2>4, <2>5, <2>6, <2>7 DEF Pays
  <2> QED BY <2>1, <2>8
<1> QED BY <1>1, <1>2, <1>3, <1>4 DEF ApplyReconcileSettlement

LEMMA UndoShape ==
    ASSUME TypeOK, SafeInv, NEW p \in Proc, UnreconcilePhantom(p)
    PROVE  /\ UNCHANGED <<scene, missed, paid, receipt, direct, debt>> /\ proc[p].at = "undo" /\ proc[p].row = 0
           /\ \/ UNCHANGED row /\ Goes(p, Idle)
              \/ \E r \in Row : \E x, v : Cuts(p, r, x, v)
<1>1. UNCHANGED <<scene, missed, paid, receipt, direct, debt>> /\ IsRequest(proc[p]) /\ proc[p].row = 0 /\ proc[p].at = "undo"
  BY DEF UnreconcilePhantom, treasury, SafeInv, Requests, Facts, Holds
<1>3. ASSUME NEW r \in Row, Undoes(p, r), NEW cut, cut = Lesser(row[r].amt, proc[p].amt),
             row' = [row EXCEPT ![r].amt = @ - cut, ![r].undone = TRUE],
             Goes(p, [proc[p] EXCEPT !.at = "recount", !.then = "undo", !.ord = row[r].ord, !.amt = @ - cut])
      PROVE  \E x, v : Cuts(p, r, x, v)
  <2>1. PICK x, v : /\ x = [proc[p] EXCEPT !.at = "recount", !.then = "undo", !.ord = row[r].ord, !.amt = proc[p].amt - cut]
                    /\ v = [[row[r] EXCEPT !.amt = row[r].amt - cut] EXCEPT !.undone = TRUE]
    OBVIOUS
  <2>2. IsRow(row[r]) /\ row[r].kind = "recon"
    BY <1>3 DEF Undoes, SafeInv, Books
  <2>3. v.st = row[r].st /\ v.kind = row[r].kind /\ v.ord = row[r].ord /\ v.amt = row[r].amt - cut
    BY <2>1, <2>2 DEF IsRow
  <2>4. v.amt <= row[r].amt
    <3>1. row[r].amt \in Nat /\ proc[p].amt \in Nat
      BY DEF TypeOK
    <3>2. cut \in Nat
      BY <1>3, <3>1, LesserNumber
    <3> QED BY <2>3, <3>1, <3>2
  <2>5. row' = [row EXCEPT ![r] = v]
    BY <1>3, <2>1, <2>2 DEF SafeInv, Books, IsRow
  <2>6. x.at = "recount" /\ x.then = "undo" /\ x.row = 0
    BY <1>1, <2>1 DEF IsRequest
  <2>7. Goes(p, x)
    BY <1>1, <1>3, <2>1 DEF IsRequest
  <2>8. Cuts(p, r, x, v)
    BY <2>2, <2>3, <2>4, <2>5, <2>6, <2>7 DEF Cuts
  <2> QED BY <2>8
<1> QED BY <1>1, <1>3 DEF UnreconcilePhantom, Ends

----------------------------------------------------------------------------
(* The sums and what a step does to them.                                    *)

SettledOf(price, coll) == [o \in Order |-> Lesser(price[o], coll[o])]
Total == SumFunctionOnSet(scene.price, Order)
Collections == [o \in Order |-> Collected(o)]
AllSettled == SumFunctionOnSet(SettledOf(scene.price, Collections), Order)
Elsewhere == SumFunctionOnSet([d \in Direct |-> direct[d].amt], Direct)
Missed == SumFunctionOnSet(missed, Order)
\* What there is to show for what the orders show as settled.
Backing == Worth(Tills) + Elsewhere + Missed
Posted == {r \in Tills : receipt[r] # "none"}
BeingCounted(r) == \E q \in Proc : Fresh(proc[q]) /\ proc[q].row = r
Uncounted == {r \in Tills : BeingCounted(r)}
UncountedOf(o) == {r \in Uncounted : row[r].ord = o}
\* What the paid total of an order has, or is known to lack.
Known(o) == paid[o] + Worth(UncountedOf(o)) + missed[o]
\* A pass that has paid into an order what it has not counted yet, and what it may still pay in.
Finishing(x, o) == x.at = "recount" /\ x.then = "apply" /\ x.ord = o
Left(x) == IF x.at = "recount" THEN x.amt - Share(x) ELSE x.amt

\* The two sides of a disjoint union.
LEMMA SumUnion ==
    ASSUME NEW f, NEW A, NEW B, IsFiniteSet(A), IsFiniteSet(B), A \cap B = {}, \A x \in A \cup B : f[x] \in Int
    PROVE  SumFunctionOnSet(f, A \cup B) = SumFunctionOnSet(f, A) + SumFunctionOnSet(f, B)
<1> DEFINE T == {s \in SUBSET A : SumFunctionOnSet(f, s \cup B) # SumFunctionOnSet(f, s) + SumFunctionOnSet(f, B)}
<1>1. ASSUME NEW s \in T, \A u \in SUBSET s : u # s => u \notin T PROVE FALSE
  <2>1. s \in SUBSET A /\ SumFunctionOnSet(f, s \cup B) # SumFunctionOnSet(f, s) + SumFunctionOnSet(f, B)
    OBVIOUS
  <2>2. IsFiniteSet(s) /\ IsFiniteSet(s \cup B)
    BY <2>1, FS_Subset, FS_Union
  <2>3. s # {}
    <3>1. {} \cup B = B /\ SumFunctionOnSet(f, {}) = 0 /\ SumFunctionOnSet(f, B) \in Int
      BY SumEmpty, SumNumber
    <3>2. SumFunctionOnSet(f, {} \cup B) = SumFunctionOnSet(f, {}) + SumFunctionOnSet(f, B)
      BY <3>1
    <3> QED BY <2>1, <3>2
  <2>4. PICK y \in s : TRUE
    BY <2>3
  <2> PICK u, v : u = s \ {y} /\ v = s \cup B
    OBVIOUS
  <2>5. u \in SUBSET s /\ u # s /\ v \ {y} = u \cup B /\ y \in v /\ u \in SUBSET A
    BY <2>1, <2>4
  <2>6. SumFunctionOnSet(f, u \cup B) = SumFunctionOnSet(f, u) + SumFunctionOnSet(f, B)
    BY <1>1, <2>5
  <2>7. SumFunctionOnSet(f, s) = f[y] + SumFunctionOnSet(f, u)
    <3>1. \A x \in s : f[x] \in Int
      BY <2>1
    <3> QED BY <2>2, <2>4, <3>1, SumTakes
  <2>8. SumFunctionOnSet(f, v) = f[y] + SumFunctionOnSet(f, u \cup B)
    <3>1. \A x \in v : f[x] \in Int
      BY <2>1
    <3>2. IsFiniteSet(v)
      BY <2>2
    <3> QED BY <2>5, <3>1, <3>2, SumTakes
  <2>9. f[y] \in Int /\ SumFunctionOnSet(f, u) \in Int /\ SumFunctionOnSet(f, B) \in Int
    <3>1. IsFiniteSet(u) /\ (\A x \in u : f[x] \in Int) /\ (\A x \in B : f[x] \in Int) /\ f[y] \in Int
      BY <2>1, <2>2, <2>4, <2>5, FS_Subset
    <3> QED BY <3>1, SumNumber
  <2> QED BY <2>1, <2>6, <2>7, <2>8, <2>9
<1>2. T \subseteq SUBSET A
  OBVIOUS
<1> HIDE DEF T
<1>3. T = {}
  BY <1>1, <1>2, Least
<1> QED BY <1>3 DEF T

\* An order that collects a more is settled by at most a more.
LEMMA SettledStep ==
    ASSUME NEW price \in [Order -> Nat], NEW c \in [Order -> Nat], NEW d \in [Order -> Nat], NEW k \in Order, NEW a \in Nat,
           \A o \in Order : o # k => d[o] <= c[o], d[k] <= c[k] + a
    PROVE  /\ SumFunctionOnSet(SettledOf(price, c), Order) \in Nat /\ SumFunctionOnSet(SettledOf(price, d), Order) \in Nat
           /\ SumFunctionOnSet(SettledOf(price, d), Order) <= SumFunctionOnSet(SettledOf(price, c), Order) + a
<1> PICK f, g : f = SettledOf(price, c) /\ g = SettledOf(price, d)
  OBVIOUS
<1>0. \A o \in Order : f[o] = Lesser(price[o], c[o]) /\ g[o] = Lesser(price[o], d[o])
  BY DEF SettledOf
<1>1. \A o \in Order : f[o] \in Nat /\ g[o] \in Nat
  BY <1>0, LesserNumber
<1> PICK e : e = [o \in Order |-> IF o = k THEN f[o] + a ELSE f[o]]
  OBVIOUS
<1>2. \A o \in Order : e[o] \in Int /\ f[o] \in Int /\ g[o] \in Int /\ g[o] <= e[o] /\ (o # k => e[o] = f[o])
  <2> SUFFICES ASSUME NEW o \in Order PROVE e[o] \in Int /\ f[o] \in Int /\ g[o] \in Int /\ g[o] <= e[o] /\ (o # k => e[o] = f[o])
    OBVIOUS
  <2> QED BY <1>0, <1>1 DEF Lesser
<1>3. SumFunctionOnSet(e, Order) = SumFunctionOnSet(f, Order) + e[k] - f[k]
  BY <1>2, Sizes, SumChanges
<1>4. SumFunctionOnSet(g, Order) <= SumFunctionOnSet(e, Order)
  BY <1>2, Sizes, SumAtMost
<1>5. SumFunctionOnSet(f, Order) \in Nat /\ SumFunctionOnSet(g, Order) \in Nat
  BY <1>1, Sizes, SumNumber
<1>6. e[k] = f[k] + a /\ f[k] \in Nat
  BY <1>1
<1> QED BY <1>3, <1>4, <1>5, <1>6

\* Where every order has collected no more than it counts as paid and not yet counted, what is settled
\* and what shows as open are together no more than the sales and what is not counted yet.
LEMMA SettledAndOpen ==
    ASSUME NEW price \in [Order -> Nat], NEW c \in [Order -> Nat], NEW pd \in [Order -> Nat], NEW u \in [Order -> Nat],
           \A o \in Order : c[o] <= pd[o] + u[o],
           NEW open, open = [o \in Order |-> IF price[o] > pd[o] THEN price[o] - pd[o] ELSE 0]
    PROVE  SumFunctionOnSet(SettledOf(price, c), Order) + SumFunctionOnSet(open, Order)
             <= SumFunctionOnSet(price, Order) + SumFunctionOnSet(u, Order)
<1> PICK f : f = SettledOf(price, c)
  OBVIOUS
<1> PICK l, r : l = [o \in Order |-> f[o] + open[o]] /\ r = [o \in Order |-> price[o] + u[o]]
  OBVIOUS
<1>1. \A o \in Order : /\ f[o] \in Int /\ open[o] \in Int /\ price[o] \in Int /\ u[o] \in Int
                       /\ l[o] = f[o] + open[o] /\ r[o] = price[o] + u[o] /\ l[o] \in Int /\ r[o] \in Int /\ l[o] <= r[o]
  <2> SUFFICES ASSUME NEW o \in Order
               PROVE  /\ f[o] \in Int /\ open[o] \in Int /\ price[o] \in Int /\ u[o] \in Int
                      /\ l[o] = f[o] + open[o] /\ r[o] = price[o] + u[o] /\ l[o] \in Int /\ r[o] \in Int /\ l[o] <= r[o]
    OBVIOUS
  <2>1. f[o] = Lesser(price[o], c[o])
    BY DEF SettledOf
  <2>2. c[o] <= pd[o] + u[o] /\ price[o] \in Nat /\ c[o] \in Nat /\ pd[o] \in Nat /\ u[o] \in Nat
    OBVIOUS
  <2>3. open[o] = (IF price[o] > pd[o] THEN price[o] - pd[o] ELSE 0) /\ l[o] = f[o] + open[o] /\ r[o] = price[o] + u[o]
    OBVIOUS
  <2> QED BY <2>1, <2>2, <2>3 DEF Lesser
<1>2. SumFunctionOnSet(l, Order) = SumFunctionOnSet(f, Order) + SumFunctionOnSet(open, Order)
  <2>1. \A o \in Order : f[o] \in Int /\ open[o] \in Int /\ l[o] = f[o] + open[o]
    BY <1>1
  <2>2. IsFiniteSet(Order)
    BY Sizes
  <2> QED BY <2>1, <2>2, SumAdds
<1>3. SumFunctionOnSet(r, Order) = SumFunctionOnSet(price, Order) + SumFunctionOnSet(u, Order)
  BY <1>1, Sizes, SumAdds
<1>4. SumFunctionOnSet(l, Order) <= SumFunctionOnSet(r, Order)
  BY <1>1, Sizes, SumAtMost
<1>5. SumFunctionOnSet(f, Order) \in Int /\ SumFunctionOnSet(open, Order) \in Int /\ SumFunctionOnSet(price, Order) \in Int
      /\ SumFunctionOnSet(u, Order) \in Int
  BY <1>1, Sizes, SumNumber
<1> QED BY <1>2, <1>3, <1>4, <1>5

Numbers ==
    /\ {AllSettled, Total, Elsewhere, Missed, Backing, Worth(Tills), Worth(Posted), Worth(Uncounted)} \subseteq Nat
    /\ \A o \in Order : {Collected(o), Worth(UncountedOf(o)), Known(o), paid[o], missed[o]} \subseteq Nat

LEMMA NumbersAre == TypeOK => Numbers
<1> SUFFICES ASSUME TypeOK PROVE Numbers
  OBVIOUS
<1>1. Tills \in SUBSET Row /\ Posted \in SUBSET Row /\ Uncounted \in SUBSET Row /\ \A o : UncountedOf(o) \in SUBSET Row
  BY DEF Tills, Used, Posted, Uncounted, UncountedOf
<1>2. Worth(Tills) \in Nat /\ Worth(Posted) \in Nat /\ Worth(Uncounted) \in Nat
  BY <1>1, WorthNumber
<1>3. ASSUME NEW o \in Order
      PROVE  Collected(o) \in Nat /\ Worth(UncountedOf(o)) \in Nat /\ Known(o) \in Nat /\ paid[o] \in Nat /\ missed[o] \in Nat
  <2>1. Collected(o) \in Nat /\ Worth(UncountedOf(o)) \in Nat
    BY <1>1, WorthNumber, CollectedNumber
  <2>2. paid[o] \in Nat /\ missed[o] \in Nat
    BY DEF TypeOK
  <2> QED BY <2>1, <2>2 DEF Known
<1>4. Total \in Nat
  <2> PICK f : f = scene.price
    OBVIOUS
  <2>1. \A o \in Order : f[o] \in Nat
    BY Prices
  <2> QED BY <2>1, Sizes, SumNumber DEF Total
<1>5. Elsewhere \in Nat
  <2> PICK f : f = [d \in Direct |-> direct[d].amt]
    OBVIOUS
  <2>1. \A d \in Direct : f[d] \in Nat
    BY DEF TypeOK
  <2> QED BY <2>1, NamesAssumption, SumNumber DEF Elsewhere
<1>6. AllSettled \in Nat
  <2> PICK f : f = SettledOf(scene.price, Collections)
    OBVIOUS
  <2>1. ASSUME NEW o \in Order PROVE f[o] \in Nat
    <3>1. f[o] = Lesser(scene.price[o], Collected(o))
      BY DEF SettledOf, Collections
    <3>2. scene.price[o] \in Nat /\ Collected(o) \in Nat
      BY <1>3, Prices
    <3> QED BY <3>1, <3>2, LesserNumber
  <2> QED BY <2>1, Sizes, SumNumber DEF AllSettled
<1>7. Missed \in Nat
  <2>1. \A o \in Order : missed[o] \in Nat
    BY <1>3
  <2> QED BY <2>1, Sizes, SumNumber DEF Missed
<1>8. Backing \in Nat
  BY <1>2, <1>5, <1>7 DEF Backing
<1> QED BY <1>2, <1>3, <1>4, <1>5, <1>6, <1>7, <1>8 DEF Numbers

LEMMA NumbersNext == TypeOK' => Numbers'
BY NumbersAre, PTL

----------------------------------------------------------------------------
(* How rows change, and what that does to the sums.                           *)

\* Rows keep their place and become no more worth; settlements keep their worth.
Trimmed ==
    /\ UNCHANGED scene
    /\ \A t \in Row : row'[t].st = row[t].st /\ row'[t].kind = row[t].kind /\ row'[t].ord = row[t].ord
    /\ \A t \in Row : row'[t].amt <= row[t].amt /\ (row[t].kind = "settle" => row'[t].amt = row[t].amt)
\* Row r comes in as v.
Joined(r, v) ==
    /\ UNCHANGED scene
    /\ row[r].st = "none" /\ v.st = "completed" /\ v.ord \in Order /\ v.amt \in Nat
    /\ row'[r] = v /\ \A t \in Row : t # r => row'[t] = row[t]

LEMMA TrimmedSame == ASSUME TypeOK, UNCHANGED <<scene, row>> PROVE Trimmed
<1>1. \A t \in Row : row[t].amt \in Nat
  BY DEF TypeOK
<1> QED BY <1>1 DEF Trimmed

LEMMA TrimmedBy ==
    ASSUME TypeOK, TypeOK', UNCHANGED scene, NEW r \in Row, NEW v, row' = [row EXCEPT ![r] = v],
           v.st = row[r].st, v.kind = row[r].kind, v.ord = row[r].ord, v.amt <= row[r].amt,
           row[r].kind = "settle" => v.amt = row[r].amt
    PROVE  Trimmed
<1>1. row'[r] = v /\ \A t \in Row : t # r => row'[t] = row[t]
  BY Puts DEF TypeOK
<1>2. ASSUME NEW t \in Row
      PROVE  /\ row'[t].st = row[t].st /\ row'[t].kind = row[t].kind /\ row'[t].ord = row[t].ord
             /\ row'[t].amt <= row[t].amt /\ (row[t].kind = "settle" => row'[t].amt = row[t].amt)
  <2>1. row[t].amt \in Nat
    BY DEF TypeOK
  <2>2. CASE t = r
    BY <1>1, <2>2
  <2>3. CASE t # r
    BY <1>1, <2>1, <2>3
  <2> QED BY <2>2, <2>3
<1> QED BY <1>2 DEF Trimmed

LEMMA JoinedBy ==
    ASSUME TypeOK, UNCHANGED scene, NEW r \in Row, NEW v, row' = [row EXCEPT ![r] = v], row[r].st = "none",
           v.st = "completed", v.ord \in Order, v.amt \in Nat
    PROVE  Joined(r, v)
BY Puts DEF TypeOK, Joined

\* No order shows more as settled.
LEMMA SettledAtMost ==
    ASSUME TypeOK, TypeOK', UNCHANGED scene, NEW k \in Order, NEW a \in Nat,
           NEW c, NEW d, c = Collections, d = Collections', \A o \in Order : o # k => d[o] <= c[o], d[k] <= c[k] + a
    PROVE  AllSettled' <= AllSettled + a
<1> PICK pr : pr = scene.price
  OBVIOUS
<1>1. pr \in [Order -> Nat] /\ scene'.price = pr
  BY Prices
<1>2. c \in [Order -> Nat]
  BY CollectedNumber DEF Collections
<1>3. d \in [Order -> Nat]
  <2>1. Numbers'
    BY NumbersNext
  <2> QED BY <2>1 DEF Numbers, Collections
<1>4. SumFunctionOnSet(SettledOf(pr, d), Order) <= SumFunctionOnSet(SettledOf(pr, c), Order) + a
  BY <1>1, <1>2, <1>3, SettledStep
<1>5. AllSettled = SumFunctionOnSet(SettledOf(pr, c), Order) /\ AllSettled' = SumFunctionOnSet(SettledOf(pr, d), Order)
  BY <1>1 DEF AllSettled, SettledOf
<1> QED BY <1>4, <1>5

LEMMA CountedAre ==
    ASSUME NEW o
    PROVE  /\ \A r : r \in Counted(o) <=> r \in Row /\ row[r].st = "completed" /\ row[r].ord = o
           /\ \A r : r \in Counted(o)' <=> r \in Row /\ row'[r].st = "completed" /\ row'[r].ord = o
           /\ Counted(o) \in SUBSET Row /\ Counted(o)' \in SUBSET Row
BY DEF Counted, Used

LEMMA TillsAre ==
    /\ \A r : r \in Tills <=> r \in Row /\ row[r].st # "none" /\ row[r].kind = "settle"
    /\ \A r : r \in Tills' <=> r \in Row /\ row'[r].st # "none" /\ row'[r].kind = "settle"
    /\ Tills \in SUBSET Row /\ Posted \in SUBSET Tills /\ Uncounted \in SUBSET Tills
    /\ \A o : UncountedOf(o) \in SUBSET Uncounted
BY DEF Tills, Used, Posted, Uncounted, UncountedOf

LEMMA TrimmedSums ==
    ASSUME TypeOK, TypeOK', Trimmed
    PROVE  /\ Total' = Total /\ Tills' = Tills
           /\ \A o \in Order : Collected(o)' <= Collected(o)
           /\ AllSettled' <= AllSettled
           /\ \A Q \in SUBSET Tills : Worth(Q)' = Worth(Q)
<1>1. Total' = Total /\ UNCHANGED scene
  BY DEF Trimmed, Total
<1>2. Tills' = Tills
  <2>1. ASSUME NEW t PROVE t \in Tills' <=> t \in Tills
    BY TillsAre DEF Trimmed
  <2> QED BY <2>1
<1>3. ASSUME NEW o \in Order PROVE Collected(o)' <= Collected(o)
  <2> PICK Q, R : Q = Counted(o)' /\ R = Counted(o)
    OBVIOUS
  <2>1. R \in SUBSET Row /\ Q \in SUBSET R /\ \A t \in Q : row'[t].amt <= row[t].amt
    BY CountedAre DEF Trimmed
  <2>2. Worth(Q)' <= Worth(R)
    BY <2>1, WorthShrinks
  <2> QED BY <2>2 DEF Collected
<1>4. AllSettled' <= AllSettled
  <2> PICK c, d : c = Collections /\ d = Collections'
    OBVIOUS
  <2>0. \A o \in Order : c[o] = Collected(o) /\ d[o] = Collected(o)'
    BY DEF Collections
  <2>1. \A o \in Order : d[o] <= c[o]
    BY <1>3, <2>0
  <2>2. 1 \in Order /\ c[1] \in Nat /\ d[1] <= c[1] + 0
    <3>1. 1 \in Order
      BY Sizes
    <3>2. c[1] \in Nat
      BY <2>0, <3>1, CollectedNumber
    <3>3. d[1] <= c[1]
      BY <2>1, <3>1
    <3> PICK x, y : x = c[1] /\ y = d[1]
      OBVIOUS
    <3>4. x + 0 = x
      BY <3>2
    <3> QED BY <3>1, <3>2, <3>3, <3>4
  <2>3. AllSettled' <= AllSettled + 0
    BY <1>1, <2>1, <2>2, SettledAtMost
  <2>4. AllSettled \in Nat
    BY NumbersAre DEF Numbers
  <2> PICK x, y : x = AllSettled /\ y = AllSettled'
    OBVIOUS
  <2>5. x + 0 = x
    BY <2>4
  <2> QED BY <2>3, <2>5
<1>5. ASSUME NEW Q \in SUBSET Tills PROVE Worth(Q)' = Worth(Q)
  <2>1. Q \in SUBSET Row /\ \A t \in Q : row'[t].amt = row[t].amt
    BY TillsAre DEF Trimmed
  <2> QED BY <2>1, WorthSame
<1> QED BY <1>1, <1>2, <1>3, <1>4, <1>5

LEMMA JoinedSums ==
    ASSUME TypeOK, TypeOK', NEW r \in Row, NEW v, Joined(r, v)
    PROVE  /\ Total' = Total
           /\ \A o \in Order : o # v.ord => Collected(o)' = Collected(o)
           /\ Collected(v.ord)' = Collected(v.ord) + v.amt
           /\ AllSettled' <= AllSettled + v.amt
           /\ r \notin Tills /\ Tills' = IF v.kind = "settle" THEN Tills \cup {r} ELSE Tills
           /\ \A Q \in SUBSET Tills : Worth(Q)' = Worth(Q) /\ Worth(Q \cup {r})' = Worth(Q) + v.amt
<1>1. Total' = Total /\ UNCHANGED scene
  BY DEF Joined, Total
<1>2. \A t \in Row : t # r => row'[t] = row[t]
  BY DEF Joined
<1>3. row[r].st = "none" /\ v.st = "completed" /\ v.ord \in Order /\ v.amt \in Nat /\ row'[r] = v
  BY DEF Joined
<1>4. ASSUME NEW o \in Order, o # v.ord PROVE Collected(o)' = Collected(o)
  <2> PICK Q : Q = Counted(o)
    OBVIOUS
  <2>1. ASSUME NEW t PROVE t \in Counted(o)' <=> t \in Q
    BY <1>2, <1>3, <1>4, CountedAre
  <2>2. Q \in SUBSET Row /\ r \notin Q /\ Counted(o)' = Q
    BY <1>3, <2>1, CountedAre
  <2>3. \A t \in Q : row'[t].amt = row[t].amt
    BY <1>2, <2>2
  <2>4. Worth(Q)' = Worth(Q)
    BY <2>2, <2>3, WorthSame
  <2> QED BY <2>2, <2>4 DEF Collected
<1>5. Collected(v.ord)' = Collected(v.ord) + v.amt
  <2> PICK k \in Order : k = v.ord
    BY <1>3
  <2> PICK Q : Q = Counted(k)
    OBVIOUS
  <2>1. ASSUME NEW t PROVE t \in Counted(k)' <=> t \in Q \cup {r}
    BY <1>2, <1>3, CountedAre
  <2>2. Q \in SUBSET Row /\ r \notin Q /\ Counted(k)' = Q \cup {r}
    BY <1>3, <2>1, CountedAre
  <2>3. \A t \in Q : row'[t].amt = row[t].amt
    BY <1>2, <2>2
  <2>4. Worth(Q \cup {r})' = Worth(Q) + row'[r].amt
    BY <2>2, <2>3, WorthJoins
  <2> QED BY <1>3, <2>2, <2>4 DEF Collected
<1>6. AllSettled' <= AllSettled + v.amt
  <2> PICK k \in Order, a \in Nat : k = v.ord /\ a = v.amt
    BY <1>3
  <2> PICK c, d : c = Collections /\ d = Collections'
    OBVIOUS
  <2>0. \A o \in Order : c[o] = Collected(o) /\ d[o] = Collected(o)'
    BY DEF Collections
  <2>1. \A o \in Order : c[o] \in Nat
    BY <2>0, CollectedNumber
  <2>2. ASSUME NEW o \in Order, o # k PROVE d[o] <= c[o]
    <3>1. d[o] = c[o] /\ c[o] \in Nat
      BY <1>4, <2>0, <2>1, <2>2
    <3> QED BY <3>1
  <2>3. d[k] <= c[k] + a
    <3>1. d[k] = c[k] + a /\ c[k] \in Nat
      BY <1>5, <2>0, <2>1
    <3> QED BY <3>1
  <2>4. AllSettled' <= AllSettled + a
    BY <1>1, <2>2, <2>3, SettledAtMost
  <2> QED BY <2>4
<1>7. r \notin Tills /\ Tills' = IF v.kind = "settle" THEN Tills \cup {r} ELSE Tills
  <2>1. ASSUME NEW t PROVE t \in Tills' <=> t \in (IF v.kind = "settle" THEN Tills \cup {r} ELSE Tills)
    BY <1>2, <1>3, TillsAre
  <2>2. r \notin Tills
    BY <1>3, TillsAre
  <2> QED BY <2>1, <2>2
<1>8. ASSUME NEW Q \in SUBSET Tills PROVE Worth(Q)' = Worth(Q) /\ Worth(Q \cup {r})' = Worth(Q) + v.amt
  <2>1. Q \in SUBSET Row /\ r \notin Q
    BY <1>7, TillsAre
  <2>2. \A t \in Q : row'[t].amt = row[t].amt
    BY <1>2, <2>1
  <2>3. Worth(Q)' = Worth(Q) /\ Worth(Q \cup {r})' = Worth(Q) + row'[r].amt
    BY <2>1, <2>2, WorthSame, WorthJoins
  <2> QED BY <1>3, <2>3
<1> QED BY <1>1, <1>4, <1>5, <1>6, <1>7, <1>8

----------------------------------------------------------------------------
(* The three claims, and the steps that keep them.                           *)

Owing ==
    /\ debt + Elsewhere + Worth(Posted) >= Total
    /\ \A q \in Proc : proc[q].at = "read" => proc[q].amt + Elsewhere + Worth(Posted) >= Total
Counting == \A o \in Order : \/ Collected(o) <= Known(o)
                             \/ \E q \in Proc : Finishing(proc[q], o) /\ Collected(o) <= Known(o) + Share(proc[q])
Giving ==
    /\ AllSettled <= Backing
    /\ \A q \in Proc : Applying(proc[q]) => AllSettled + Left(proc[q]) <= Backing

LEMMA OwesStill ==
    ASSUME NEW b \in Nat, NEW e \in Nat, NEW w \in Nat, NEW t \in Nat, NEW b2 \in Nat, NEW e2 \in Nat, NEW w2 \in Nat,
           NEW gain \in Nat, b + e + w >= t, e2 + w2 = e + w + gain, b2 + gain >= b
    PROVE  b2 + e2 + w2 >= t
OBVIOUS

LEMMA OwingStep ==
    ASSUME TypeOK, TypeOK', Owing, Total' = Total, NEW gain \in Nat,
           Elsewhere' + Worth(Posted)' = Elsewhere + Worth(Posted) + gain, debt' + gain >= debt,
           \A q \in Proc : proc'[q].at = "read" => (proc[q].at = "read" /\ proc'[q].amt = proc[q].amt) \/ proc'[q].amt = debt'
    PROVE  Owing'
<1> PICK b, e, w, t, b2, e2, w2 : /\ b = debt /\ e = Elsewhere /\ w = Worth(Posted) /\ t = Total
                                  /\ b2 = debt' /\ e2 = Elsewhere' /\ w2 = Worth(Posted)'
  OBVIOUS
<1>1. b \in Nat /\ e \in Nat /\ w \in Nat /\ t \in Nat /\ b2 \in Nat /\ e2 \in Nat /\ w2 \in Nat
  BY NumbersAre, NumbersNext DEF Numbers, TypeOK
<1>2. b + e + w >= t /\ e2 + w2 = e + w + gain /\ b2 + gain >= b
  BY DEF Owing
<1>3. b2 + e2 + w2 >= t
  BY ONLY <1>1, <1>2, gain \in Nat, OwesStill
<1>4. ASSUME NEW q \in Proc, proc'[q].at = "read" PROVE proc'[q].amt + e2 + w2 >= t
  <2> PICK a, a2 : a = proc[q].amt /\ a2 = proc'[q].amt
    OBVIOUS
  <2>1. a \in Nat /\ a2 \in Nat
    BY DEF TypeOK
  <2>2. CASE a2 = b2
    BY <1>3, <2>2
  <2>3. CASE proc[q].at = "read" /\ a2 = a
    <3>1. a + e + w >= t
      BY <2>3 DEF Owing
    <3>2. a2 + e2 + w2 >= t
      BY <1>1, <1>2, <2>1, <2>3, <3>1
    <3> QED BY <3>2
  <2> QED BY <1>4, <2>2, <2>3
<1>5. Total' = t
  OBVIOUS
<1> QED BY <1>3, <1>4, <1>5 DEF Owing

LEMMA LeftNumber ==
    ASSUME NEW x \in RequestType
    PROVE  Left(x) \in Nat
BY ShareNumber DEF Left

\* The orders show a more, and there is a more to show for it; g more was missed, and may be given again.
LEMMA GivingGrows ==
    ASSUME TypeOK, TypeOK', Giving, NEW a \in Nat, NEW g \in Nat, AllSettled' <= AllSettled + a, Backing' >= Backing + a + g,
           \A q \in Proc : Applying(proc'[q]) => Applying(proc[q]) /\ Left(proc'[q]) <= Left(proc[q]) + g
    PROVE  Giving'
<1> PICK s, b, s2, b2 : s = AllSettled /\ b = Backing /\ s2 = AllSettled' /\ b2 = Backing'
  OBVIOUS
<1>1. s \in Nat /\ b \in Nat /\ s2 \in Nat /\ b2 \in Nat
  BY NumbersAre, NumbersNext DEF Numbers
<1>2. s <= b /\ s2 <= s + a /\ b2 >= b + a + g
  BY DEF Giving
<1>3. s2 <= b2
  BY ONLY <1>1, <1>2, a \in Nat, g \in Nat
<1>4. ASSUME NEW q \in Proc, Applying(proc'[q]) PROVE s2 + Left(proc'[q]) <= b2
  <2> PICK n, n2 : n = Left(proc[q]) /\ n2 = Left(proc'[q])
    OBVIOUS
  <2>1. n \in Nat /\ n2 \in Nat
    <3>1. proc[q] \in RequestType /\ proc'[q] \in RequestType
      BY DEF TypeOK, RequestType
    <3> QED BY <3>1, LeftNumber
  <2>2. s + n <= b /\ n2 <= n + g
    BY <1>4 DEF Giving
  <2>3. s2 + n2 <= b2
    BY ONLY <1>1, <1>2, <2>1, <2>2, a \in Nat, g \in Nat
  <2> QED BY <2>3
<1> QED BY <1>3, <1>4 DEF Giving, Applying, Left, Share

LEMMA GivingStep ==
    ASSUME TypeOK, TypeOK', Giving, NEW a \in Nat, AllSettled' <= AllSettled + a, Backing' >= Backing + a,
           \A q \in Proc : Applying(proc'[q]) => proc'[q] = proc[q]
    PROVE  Giving'
<1> PICK g \in Nat : g = 0
  OBVIOUS
<1>1. Backing' >= Backing + a + g
  <2> PICK b, b2 : b = Backing /\ b2 = Backing'
    OBVIOUS
  <2>1. b \in Nat /\ b2 \in Nat
    BY NumbersAre, NumbersNext DEF Numbers
  <2> QED BY <2>1
<1>2. ASSUME NEW q \in Proc, Applying(proc'[q]) PROVE Applying(proc[q]) /\ Left(proc'[q]) <= Left(proc[q]) + g
  <2>1. proc[q] \in RequestType
    BY DEF TypeOK, RequestType
  <2>2. proc'[q] = proc[q] /\ Left(proc[q]) \in Nat
    BY <1>2, <2>1, LeftNumber
  <2> QED BY <1>2, <2>2
<1> QED BY <1>1, <1>2, GivingGrows

\* While no recount fails.
LEMMA MissedSame ==
    ASSUME TypeOK, UNCHANGED missed
    PROVE  Missed' = Missed /\ \A o \in Order : missed'[o] >= missed[o]
BY DEF TypeOK, Missed

LEMMA BackingSame ==
    ASSUME TypeOK, UNCHANGED missed, Worth(Tills)' = Worth(Tills), Elsewhere' = Elsewhere
    PROVE  Backing' = Backing /\ Backing' >= Backing + 0
BY MissedSame, NumbersAre DEF Backing, Numbers

LEMMA Others ==
    ASSUME SafeInv, NEW p \in Proc, NEW x, Goes(p, x)
    PROVE  proc'[p] = x /\ \A q \in Proc : q # p => proc'[q] = proc[q]
BY Puts DEF Goes, SafeInv, Requests

\* Nothing is received, posted or owed.
LEMMA OwingMoves ==
    ASSUME TypeOK, TypeOK', SafeInv, Owing, Total' = Total, UNCHANGED <<direct, debt>>, Posted' = Posted,
           Worth(Posted)' = Worth(Posted), NEW p \in Proc, NEW x, Goes(p, x), x.at = "read" => x.amt = debt
    PROVE  Owing'
<1>1. Elsewhere' = Elsewhere
  BY DEF Elsewhere
<1> PICK e, w, b : e = Elsewhere /\ w = Worth(Posted) /\ b = debt
  OBVIOUS
<1>2. e \in Nat /\ w \in Nat /\ b \in Nat
  BY NumbersAre DEF Numbers, TypeOK
<1>3. e + w = e + w + 0 /\ b + 0 >= b
  BY <1>2
<1>4. Elsewhere' + Worth(Posted)' = Elsewhere + Worth(Posted) + 0 /\ debt' + 0 >= debt
  BY <1>1, <1>3
<1>5. ASSUME NEW q \in Proc, proc'[q].at = "read"
      PROVE  (proc[q].at = "read" /\ proc'[q].amt = proc[q].amt) \/ proc'[q].amt = debt'
  BY <1>5, Others
<1> QED BY <1>4, <1>5, OwingStep

\* What is still to be counted: all of it, or all but the row of the request that moves on.
LEMMA UncountedLeaves ==
    ASSUME TypeOK, TypeOK', SafeInv, Trimmed, NEW p \in Proc, NEW x, Goes(p, x), NEW o \in Order
    PROVE  \/ Worth(UncountedOf(o)) <= Worth(UncountedOf(o))'
           \/ /\ Fresh(proc[p]) /\ proc[p].row \in Row /\ row[proc[p].row].ord = o
              /\ Worth(UncountedOf(o)) <= Worth(UncountedOf(o))' + row[proc[p].row].amt
<1> PICK A, B, r, f : A = UncountedOf(o) /\ B = UncountedOf(o)' /\ r = proc[p].row /\ f = Amount
  OBVIOUS
<1>1. A \in SUBSET Tills /\ B \in SUBSET Tills /\ Tills \in SUBSET Row /\ Worth(B)' = Worth(B)
  <2>1. A \in SUBSET Tills /\ Tills \in SUBSET Row
    BY TillsAre
  <2>2. B \in SUBSET Tills' /\ Tills' = Tills
    BY TrimmedSums DEF UncountedOf, Uncounted
  <2> QED BY <2>1, <2>2, TrimmedSums
<1>2. ASSUME NEW t \in A PROVE t \in B \/ (Fresh(proc[p]) /\ t = r)
  <2>1. t \in Tills /\ row[t].ord = o /\ \E q \in Proc : Fresh(proc[q]) /\ proc[q].row = t
    BY <1>2 DEF UncountedOf, Uncounted, BeingCounted
  <2>2. PICK q \in Proc : Fresh(proc[q]) /\ proc[q].row = t
    BY <2>1
  <2>3. CASE q # p
    <3>1. proc'[q] = proc[q]
      BY <2>3, Others
    <3>2. BeingCounted(t)'
      BY <2>2, <3>1 DEF BeingCounted, Fresh
    <3>3. t \in Tills' /\ row'[t].ord = o
      BY <1>1, <2>1, TrimmedSums DEF Trimmed
    <3> QED BY <3>2, <3>3 DEF UncountedOf, Uncounted
  <2> QED BY <2>2, <2>3
<1>3. IsFiniteSet(A) /\ IsFiniteSet(B) /\ \A t \in Row : f[t] \in Nat /\ f[t] \in Int /\ f[t] = row[t].amt
  BY <1>1, Sizes, FS_Subset, Amounts
<1>4. \A C \in SUBSET B : SumFunctionOnSet(f, C) <= SumFunctionOnSet(f, B)
  <2>1. \A t \in B : f[t] \in Nat
    BY <1>1, <1>3
  <2> QED BY <1>3, <2>1, SumGrows
<1>5. Worth(A) = SumFunctionOnSet(f, A) /\ Worth(B)' = SumFunctionOnSet(f, B)
  BY <1>1 DEF Worth
<1>6. CASE A \subseteq B
  BY <1>4, <1>5, <1>6
<1>7. CASE ~(A \subseteq B)
  <2>1. r \in A /\ Fresh(proc[p]) /\ A \ {r} \in SUBSET B
    BY <1>2, <1>7
  <2>2. SumFunctionOnSet(f, A) = f[r] + SumFunctionOnSet(f, A \ {r})
    <3>1. \A t \in A : f[t] \in Int
      BY <1>1, <1>3
    <3> QED BY <1>3, <2>1, <3>1, SumTakes
  <2>3. SumFunctionOnSet(f, A \ {r}) \in Int /\ SumFunctionOnSet(f, B) \in Int
    <3>1. IsFiniteSet(A \ {r}) /\ (\A t \in A \ {r} : f[t] \in Int) /\ \A t \in B : f[t] \in Int
      BY <1>1, <1>3, FS_Subset
    <3> QED BY <1>3, <3>1, SumNumber
  <2>4. r \in Row /\ row[r].ord = o
    BY <1>1, <2>1 DEF UncountedOf
  <2> PICK wa, wb, wc, n : /\ wa = SumFunctionOnSet(f, A) /\ wb = SumFunctionOnSet(f, B)
                           /\ wc = SumFunctionOnSet(f, A \ {r}) /\ n = f[r]
    OBVIOUS
  <2>5. wa = n + wc /\ wc <= wb /\ wb \in Int /\ wc \in Int /\ n \in Int
    BY <1>3, <1>4, <2>1, <2>2, <2>3, <2>4
  <2>6. wa <= wb + n
    BY ONLY <2>5
  <2> QED BY <1>3, <1>5, <2>1, <2>4, <2>6
<1> QED BY <1>6, <1>7

\* A request that only moves on, and may recount, with or without success.
LEMMA CountingMoves ==
    ASSUME TypeOK, TypeOK', SafeInv, Counting, Trimmed, NEW p \in Proc, NEW x, Goes(p, x),
           \A o \in Order : paid'[o] = paid[o] \/ paid'[o] = Collected(o),
           \A o \in Order : missed'[o] >= missed[o],
           proc[p].at = "recount" => \/ paid'[proc[p].ord] = Collected(proc[p].ord)
                                    \/ missed'[proc[p].ord] >= missed[proc[p].ord] + Recorded(proc[p]),
           Fresh(proc[p]) => row[proc[p].row].ord = proc[p].ord
    PROVE  Counting'
<1> SUFFICES ASSUME NEW o \in Order
             PROVE  \/ Collected(o)' <= Known(o)'
                    \/ \E q \in Proc : Finishing(proc'[q], o) /\ Collected(o)' <= Known(o)' + Share(proc'[q])
  BY DEF Counting, Finishing, Share
<1>1. \A q \in Proc : q # p => proc'[q] = proc[q]
  BY Others
<1> PICK c, c2, u, u2, d, d2, m, m2, k, k2 :
       /\ c = Collected(o) /\ c2 = Collected(o)' /\ d = paid[o] /\ d2 = paid'[o] /\ m = missed[o] /\ m2 = missed'[o]
       /\ u = Worth(UncountedOf(o)) /\ u2 = Worth(UncountedOf(o))' /\ k = Known(o) /\ k2 = Known(o)'
  OBVIOUS
<1>2. /\ c \in Nat /\ c2 \in Nat /\ d \in Nat /\ d2 \in Nat /\ u \in Nat /\ u2 \in Nat /\ m \in Nat /\ m2 \in Nat
      /\ k \in Nat /\ k2 \in Nat
  BY NumbersAre, NumbersNext DEF Numbers
<1>3. c2 <= c /\ m2 >= m /\ k = d + u + m /\ k2 = d2 + u2 + m2
  BY TrimmedSums DEF Known
<1>4. CASE d2 = c
  <2>1. c2 <= k2
    BY ONLY <1>2, <1>3, <1>4
  <2> QED BY <2>1
<1>5. CASE d2 # c
  <2>1. d2 = d
    BY <1>5
  <2>2. CASE Fresh(proc[p]) /\ proc[p].row \in Row /\ row[proc[p].row].ord = o
    <3> PICK n : n = row[proc[p].row].amt
      OBVIOUS
    <3>1. proc[p].at = "recount" /\ proc[p].ord = o /\ Recorded(proc[p]) = n /\ proc[p].then = "call"
      BY <2>2 DEF Fresh, Recorded
    <3>2. m2 >= m + n
      BY <1>5, <3>1
    <3>3. n \in Nat /\ (u <= u2 \/ u <= u2 + n)
      BY <2>2, Amounts, UncountedLeaves
    <3>4. k2 >= k
      BY ONLY <1>2, <1>3, <2>1, <3>2, <3>3
    <3>5. ~Finishing(proc[p], o)
      BY <3>1 DEF Finishing
    <3>6. CASE c <= k
      <4>1. c2 <= k2
        BY ONLY <1>2, <1>3, <3>4, <3>6
      <4> QED BY <4>1
    <3>7. ASSUME NEW q \in Proc, Finishing(proc[q], o), c <= k + Share(proc[q])
          PROVE  Finishing(proc'[q], o) /\ c2 <= k2 + Share(proc'[q])
      <4>1. proc'[q] = proc[q]
        BY <1>1, <3>5, <3>7
      <4>2. PICK h : h = Share(proc[q])
        OBVIOUS
      <4>3. h \in Nat
        BY <4>2, ShareNumber DEF TypeOK, RequestType
      <4>4. c2 <= k2 + h
        BY ONLY <1>2, <1>3, <3>4, <3>7, <4>2, <4>3
      <4> QED BY <3>7, <4>1, <4>2, <4>4
    <3> QED BY <3>6, <3>7 DEF Counting
  <2>3. CASE ~(Fresh(proc[p]) /\ proc[p].row \in Row /\ row[proc[p].row].ord = o)
    <3>1. u <= u2
      BY <2>3, UncountedLeaves
    <3>2. CASE c <= k
      <4>1. c2 <= k2
        BY ONLY <1>2, <1>3, <2>1, <3>1, <3>2
      <4> QED BY <4>1
    <3>3. ASSUME NEW q \in Proc, Finishing(proc[q], o), c <= k + Share(proc[q])
          PROVE  \/ c2 <= k2
                 \/ Finishing(proc'[q], o) /\ c2 <= k2 + Share(proc'[q])
      <4>1. PICK h : h = Share(proc[q])
        OBVIOUS
      <4>2. h \in Nat
        BY <4>1, ShareNumber DEF TypeOK, RequestType
      <4>3. CASE q = p
        <5>1. proc[p].at = "recount" /\ proc[p].ord = o /\ Recorded(proc[p]) = h
          BY <3>3, <4>1, <4>3 DEF Finishing, Recorded
        <5>2. m2 >= m + h
          BY <1>5, <5>1
        <5>3. c2 <= k2
          BY ONLY <1>2, <1>3, <2>1, <3>1, <3>3, <4>1, <4>2, <5>2
        <5> QED BY <5>3
      <4>4. CASE q # p
        <5>1. proc'[q] = proc[q]
          BY <1>1, <4>4
        <5>2. c2 <= k2 + h
          BY ONLY <1>2, <1>3, <2>1, <3>1, <3>3, <4>1, <4>2
        <5> QED BY <3>3, <4>1, <5>1, <5>2
      <4> QED BY <4>3, <4>4
    <3> QED BY <3>2, <3>3 DEF Counting
  <2> QED BY <2>2, <2>3
<1> QED BY <1>4, <1>5

\* A row comes in: a settlement that is still to be counted, or one of a pass that is.
LEMMA CountingJoins ==
    ASSUME TypeOK, TypeOK', SafeInv, Counting, NEW r \in Row, NEW v, Joined(r, v), UNCHANGED <<paid, missed>>,
           NEW p \in Proc, NEW x, Goes(p, x), proc[p].at # "recount",
           \/ v.kind = "settle" /\ Fresh(x) /\ x.row = r
           \/ /\ v.kind # "settle" /\ Finishing(x, v.ord) /\ v.amt = Share(x)
              /\ \A q \in Proc : ~Finishing(proc[q], v.ord)
    PROVE  Counting'
<1> SUFFICES ASSUME NEW o \in Order
             PROVE  \/ Collected(o)' <= Known(o)'
                    \/ \E q \in Proc : Finishing(proc'[q], o) /\ Collected(o)' <= Known(o)' + Share(proc'[q])
  BY DEF Counting, Finishing, Share
<1>1. proc'[p] = x /\ \A q \in Proc : q # p => proc'[q] = proc[q]
  BY Others
<1> PICK c, c2, u, u2, d, m, k, k2, a : /\ c = Collected(o) /\ c2 = Collected(o)' /\ d = paid[o] /\ m = missed[o] /\ a = v.amt
                                        /\ u = Worth(UncountedOf(o)) /\ u2 = Worth(UncountedOf(o))'
                                        /\ k = Known(o) /\ k2 = Known(o)'
  OBVIOUS
<1>2. /\ c \in Nat /\ c2 \in Nat /\ d \in Nat /\ u \in Nat /\ u2 \in Nat /\ m \in Nat /\ k \in Nat /\ k2 \in Nat
      /\ k = d + u + m /\ k2 = d + u2 + m /\ a \in Nat
  BY NumbersAre, NumbersNext DEF Numbers, Known, Joined
<1>3. ASSUME NEW e \in Nat, c2 = c + e, u2 = u + e
      PROVE  \/ c2 <= k2
             \/ \E q \in Proc : Finishing(proc'[q], o) /\ c2 <= k2 + Share(proc'[q])
  <2>1. CASE c <= k
    <3>1. c2 <= k2
      BY ONLY <1>2, <1>3, <2>1
    <3> QED BY <3>1
  <2>2. ASSUME NEW q \in Proc, Finishing(proc[q], o), c <= k + Share(proc[q])
        PROVE  Finishing(proc'[q], o) /\ c2 <= k2 + Share(proc'[q])
    <3>1. PICK h : h = Share(proc[q])
      OBVIOUS
    <3>2. h \in Nat
      BY <3>1, ShareNumber DEF TypeOK, RequestType
    <3>3. proc'[q] = proc[q]
      BY <1>1, <2>2 DEF Finishing
    <3>4. c2 <= k2 + h
      BY ONLY <1>2, <1>3, <2>2, <3>1, <3>2
    <3> QED BY <2>2, <3>1, <3>3, <3>4
  <2> QED BY <2>1, <2>2 DEF Counting
<1>5. ASSUME NEW t \in Row, t # r PROVE BeingCounted(t)' <=> BeingCounted(t)
  <2>1. ASSUME NEW q \in Proc, Fresh(proc[q]), proc[q].row = t PROVE BeingCounted(t)'
    <3>1. proc'[q] = proc[q]
      BY <1>1, <2>1 DEF Fresh
    <3> QED BY <2>1, <3>1 DEF BeingCounted, Fresh
  <2>2. ASSUME NEW q \in Proc, Fresh(proc'[q]), proc'[q].row = t PROVE BeingCounted(t)
    <3>1. q # p
      BY <1>1, <1>5, <2>2 DEF Fresh, Finishing
    <3>2. proc'[q] = proc[q]
      BY <1>1, <3>1
    <3> QED BY <2>2, <3>2 DEF BeingCounted
  <2> QED BY <2>1, <2>2 DEF BeingCounted, Fresh
<1>6. row'[r] = v /\ \A t \in Row : t # r => row'[t] = row[t]
  BY DEF Joined
<1>7. UncountedOf(o) \in SUBSET Tills /\ r \notin Tills /\ Tills \in SUBSET Row
  BY TillsAre, JoinedSums
<1>8. CASE o = v.ord /\ v.kind = "settle"
  <2>1. Fresh(x) /\ x.row = r
    BY <1>8
  <2>2. UncountedOf(o)' = UncountedOf(o) \cup {r}
    <3>1. Tills' = Tills \cup {r}
      BY <1>8, JoinedSums
    <3>2. BeingCounted(r)'
      BY <1>1, <2>1 DEF BeingCounted, Fresh
    <3>3. ASSUME NEW t PROVE t \in UncountedOf(o)' <=> t \in UncountedOf(o) \cup {r}
      <4>1. CASE t = r
        BY <1>6, <1>8, <3>1, <3>2, <4>1 DEF UncountedOf, Uncounted
      <4>2. CASE t # r
        BY <1>5, <1>6, <1>7, <3>1, <4>2 DEF UncountedOf, Uncounted
      <4> QED BY <4>1, <4>2
    <3> QED BY <3>3
  <2>3. u2 = u + a
    BY <1>7, <2>2, JoinedSums
  <2>4. c2 = c + a
    BY <1>8, JoinedSums
  <2> QED BY <1>2, <1>3, <2>3, <2>4
<1>9. ASSUME o # v.ord \/ v.kind # "settle" PROVE u2 = u
  <2>1. UncountedOf(o)' = UncountedOf(o)
    <3>1. ASSUME NEW t PROVE t \in UncountedOf(o)' <=> t \in UncountedOf(o)
      <4>1. CASE t = r
        <5>1. v.kind # "settle" => r \notin Tills'
          BY <1>7, JoinedSums
        <5> QED BY <1>6, <1>7, <1>9, <4>1, <5>1 DEF UncountedOf, Uncounted
      <4>2. CASE t # r
        <5>1. t \in Tills' <=> t \in Tills
          BY <4>2, JoinedSums
        <5> QED BY <1>5, <1>6, <1>7, <4>2, <5>1 DEF UncountedOf, Uncounted
      <4> QED BY <4>1, <4>2
    <3> QED BY <3>1
  <2> QED BY <1>7, <2>1, JoinedSums
<1>10. CASE o # v.ord
  <2>1. u2 = u + 0 /\ c2 = c + 0
    BY <1>2, <1>9, <1>10, JoinedSums
  <2> QED BY <1>3, <2>1
<1>11. CASE o = v.ord /\ v.kind # "settle"
  <2>1. c <= k
    BY <1>11 DEF Counting
  <2>2. c2 = c + a /\ u2 = u
    BY <1>9, <1>11, JoinedSums
  <2>3. c2 <= k2 + a
    BY ONLY <1>2, <2>1, <2>2
  <2> QED BY <1>1, <1>11, <2>3
<1> QED BY <1>8, <1>10, <1>11

----------------------------------------------------------------------------
(* One lemma per action.                                                     *)

SoundFacts == Orderly /\ Owing /\ Counting /\ Giving

\* A request moves on; g more is missed, and may be given once more.
LEMMA SoundMisses ==
    ASSUME TypeOK, TypeOK', SafeInv, SoundFacts, Trimmed, UNCHANGED <<receipt, direct, debt>>,
           NEW p \in Proc, NEW x, Goes(p, x), x.at = "read" => x.amt = debt,
           NEW g \in Nat, Missed' = Missed + g, Applying(x) => Applying(proc[p]) /\ Left(x) <= Left(proc[p]) + g,
           \A o \in Order : paid'[o] = paid[o] \/ paid'[o] = Collected(o),
           \A o \in Order : missed'[o] >= missed[o],
           proc[p].at = "recount" => \/ paid'[proc[p].ord] = Collected(proc[p].ord)
                                    \/ missed'[proc[p].ord] >= missed[proc[p].ord] + Recorded(proc[p])
    PROVE  Owing' /\ Counting' /\ Giving'
<1>1. Posted' = Posted /\ Worth(Posted)' = Worth(Posted) /\ Worth(Tills)' = Worth(Tills) /\ Elsewhere' = Elsewhere
  <2>1. Posted \in SUBSET Tills /\ Tills \in SUBSET Tills
    BY TillsAre
  <2>2. Tills' = Tills /\ Posted' = Posted
    BY TrimmedSums DEF Posted
  <2>3. Worth(Posted)' = Worth(Posted) /\ Worth(Tills)' = Worth(Tills)
    BY <2>1, <2>2, TrimmedSums
  <2> QED BY <2>2, <2>3 DEF Elsewhere
<1>2. Owing'
  BY <1>1, OwingMoves, TrimmedSums DEF SoundFacts
<1>3. Fresh(proc[p]) => row[proc[p].row].ord = proc[p].ord
  BY DEF SoundFacts, Orderly, WorkFacts
<1>4. Counting'
  BY <1>3, CountingMoves DEF SoundFacts
<1> PICK z \in Nat : z = 0
  OBVIOUS
<1>5. AllSettled' <= AllSettled + z /\ Backing' >= Backing + z + g
  <2> PICK s, s2, w, e, m : s = AllSettled /\ s2 = AllSettled' /\ w = Worth(Tills) /\ e = Elsewhere /\ m = Missed
    OBVIOUS
  <2>1. s \in Nat /\ s2 \in Nat /\ w \in Nat /\ e \in Nat /\ m \in Nat /\ s2 <= s
    BY NumbersAre, NumbersNext, TrimmedSums DEF Numbers
  <2>2. s2 <= s + z /\ w + e + (m + g) >= (w + e + m) + z + g
    BY ONLY <2>1, g \in Nat, z = 0
  <2>3. Backing = w + e + m /\ Backing' = w + e + (m + g)
    BY <1>1 DEF Backing
  <2> QED BY <2>2, <2>3
<1>6. ASSUME NEW q \in Proc, Applying(proc'[q]) PROVE Applying(proc[q]) /\ Left(proc'[q]) <= Left(proc[q]) + g
  <2>1. CASE q = p
    BY <1>6, <2>1, Others
  <2>2. CASE q # p
    <3>1. proc'[q] = proc[q] /\ Left(proc[q]) \in Nat
      BY <2>2, Others, LeftNumber DEF TypeOK, RequestType
    <3> QED BY <1>6, <3>1
  <2> QED BY <2>1, <2>2
<1>7. Giving'
  BY <1>5, <1>6, GivingGrows DEF SoundFacts
<1> QED BY <1>2, <1>4, <1>7

LEMMA SoundMoves ==
    ASSUME TypeOK, TypeOK', SafeInv, SoundFacts, Trimmed, UNCHANGED <<missed, receipt, direct, debt>>,
           NEW p \in Proc, NEW x, Goes(p, x), x.at = "read" => x.amt = debt,
           Applying(x) => Applying(proc[p]) /\ Left(x) = Left(proc[p]),
           \A o \in Order : paid'[o] = paid[o] \/ paid'[o] = Collected(o),
           proc[p].at = "recount" => paid'[proc[p].ord] = Collected(proc[p].ord)
    PROVE  Owing' /\ Counting' /\ Giving'
<1> PICK g \in Nat : g = 0
  OBVIOUS
<1>1. Missed' = Missed + g /\ \A o \in Order : missed'[o] >= missed[o]
  <2>1. Missed \in Nat
    BY NumbersAre DEF Numbers
  <2> QED BY <2>1, MissedSame
<1>2. Applying(x) => Applying(proc[p]) /\ Left(x) <= Left(proc[p]) + g
  <2>1. Left(proc[p]) \in Nat
    BY LeftNumber DEF TypeOK, RequestType
  <2> QED BY <2>1
<1> QED BY <1>1, <1>2, SoundMisses

LEMMA OneAtRow ==
    ASSUME SafeInv, Orderly, NEW p \in Proc
    PROVE  \A q \in Proc : q # p /\ proc[q].row = proc[p].row => proc[p].row = 0
BY DEF Orderly, Apart

\* A request at rest, or one that was at no row, takes up nothing that matters here.
LEMMA SoundElsewhere ==
    ASSUME TypeOK, TypeOK', SafeInv, SoundFacts, UNCHANGED <<scene, missed, row, receipt, direct, debt>>,
           NEW p \in Proc, NEW x, Goes(p, x), proc[p].row = 0, x.row = 0, proc[p].at # "recount", x.at # "recount", ~Holds(x),
           x.at = "read" => x.amt = debt, x.at = "apply" => proc[p].at = "apply" /\ x.amt = proc[p].amt,
           Passing(x) /\ ~Passing(proc[p]) => \A q \in Proc : q # p => ~Passing(proc[q]),
           \A o \in Order : paid'[o] = paid[o] \/ paid'[o] = Collected(o)
    PROVE  SoundFacts'
<1>1. Orderly'
  BY KeptRows, OrderlyElsewhere DEF SoundFacts
<1>2. Trimmed
  BY TrimmedSame
<1>3. Applying(x) => Applying(proc[p]) /\ Left(x) = Left(proc[p])
  BY DEF Applying, Left
<1>4. Owing' /\ Counting' /\ Giving'
  BY <1>2, <1>3, SoundMoves
<1> QED BY <1>1, <1>4 DEF SoundFacts

LEMMA SoundSettle ==
    ASSUME TypeOK, TypeOK', SafeInv, SoundFacts, NEW p \in Proc, NEW o \in Order, NEW a, SettleCreditPayment(p, o, a)
    PROVE  SoundFacts'
<1>1. UNCHANGED <<scene, missed, row, receipt, direct, debt>> /\ proc[p] = Idle /\ proc[p].row = 0 /\ proc[p].at = "idle"
  BY IdleIs DEF SettleCreditPayment, treasury
<1>2. \A k \in Order : paid'[k] = paid[k] \/ paid'[k] = Collected(k)
  <2>1. Stores(o) \/ UNCHANGED paid
    BY DEF SettleCreditPayment, StoreFails
  <2> QED BY <2>1 DEF Stores, TypeOK
<1>3. \E x : Goes(p, x) /\ x.row = 0 /\ x.at \in {"idle", "insert"}
  <2>1. CASE UNCHANGED proc
    <3> PICK x : x = Idle
      OBVIOUS
    <3>1. Goes(p, x) /\ x.row = 0 /\ x.at = "idle"
      BY <1>1, <2>1 DEF Goes, SafeInv, Requests
    <3> QED BY <3>1
  <2>2. ASSUME NEW b, Goes(p, [Idle EXCEPT !.at = "insert", !.ord = o, !.amt = b])
        PROVE  \E x : Goes(p, x) /\ x.row = 0 /\ x.at \in {"idle", "insert"}
    <3> PICK x : x = [Idle EXCEPT !.at = "insert", !.ord = o, !.amt = b]
      OBVIOUS
    <3>1. x.row = 0 /\ x.at = "insert"
      BY DEF Idle
    <3> QED BY <2>2, <3>1
  <2> QED BY <2>1, <2>2 DEF SettleCreditPayment
<1>4. PICK x : Goes(p, x) /\ x.row = 0 /\ x.at \in {"idle", "insert"}
  BY <1>3
<1>5. ~Holds(x) /\ ~Passing(x) /\ x.at # "recount" /\ x.at # "read" /\ x.at # "apply"
  BY <1>4 DEF Holds, Passing
<1> QED BY <1>1, <1>2, <1>4, <1>5, SoundElsewhere

LEMMA SoundRecount ==
    ASSUME TypeOK, TypeOK', SafeInv, SoundFacts, NEW p \in Proc, RecomputePaidTotal(p)
    PROVE  SoundFacts'
<1>1. UNCHANGED <<scene, row, receipt, direct, debt>> /\ proc[p].at = "recount"
  BY RecountShape
<1>1a. PICK x : /\ Goes(p, x) /\ SameWork(proc[p], x)
                /\ \/ /\ Stores(proc[p].ord) /\ UNCHANGED missed
                      /\ x.amt = IF proc[p].then = "apply" THEN proc[p].amt - Share(proc[p]) ELSE proc[p].amt
                   \/ /\ Stores(proc[p].ord) \/ UNCHANGED paid
                      /\ missed' = [missed EXCEPT ![proc[p].ord] = @ + Recorded(proc[p])]
                      /\ x.amt = proc[p].amt
  BY RecountShape
<1>2. Goes(p, x) /\ x.at = proc[p].then /\ x.then = proc[p].then /\ x.row = proc[p].row /\ x.ord = proc[p].ord
  BY <1>1a DEF SameWork
<1>3. /\ WorkFacts(proc[p]) /\ Facts(proc[p]) /\ proc[p].then \in {"call", "unreceipt", "apply", "undo"}
      /\ proc[p].row \in {0} \cup Row /\ proc[p].ord \in Order
  BY <1>1 DEF SoundFacts, Orderly, SafeInv, Facts, TypeOK
<1>4. x.at \in {"call", "apply", "undo"}
  BY <1>1, <1>2, <1>3 DEF WorkFacts, Reversing
<1>5. Orderly'
  <2> PICK h : h = proc[p].row
    OBVIOUS
  <2>1. \A t \in Row : KeptRow(t)
    BY <1>1, KeptRows
  <2>2. h = 0 \/ h \in Row
    BY <1>3
  <2>3. h # 0 => row'[h].st # "voided"
    BY <1>1, <2>2 DEF SoundFacts, Orderly
  <2>4. WorkFacts(x)'
    <3>1. Holds(x) => Holds(proc[p])
      BY <1>1, <1>2, <1>4 DEF Holds
    <3>2. ~Fresh(x) /\ ~Reversing(x) /\ x.at # "voiding"
      BY <1>4 DEF Fresh, Reversing
    <3> QED BY <1>1, <1>2, <1>3, <3>1, <3>2 DEF WorkFacts, Holds, Fresh, Reversing
  <2>5. Passing(x) => Passing(proc[p])
    BY <1>1, <1>2, <1>4 DEF Passing
  <2>6. \A q \in Proc : q # p /\ proc[q].row = h => h = 0
    BY OneAtRow DEF SoundFacts
  <2> QED BY <1>2, <2>1, <2>2, <2>3, <2>4, <2>5, <2>6, OrderlyMoved DEF SoundFacts
<1>6. x.at # "read" /\ (Applying(x) => Applying(proc[p]) /\ proc[p].then = "apply") /\ Left(x) = x.amt
      /\ Left(proc[p]) = proc[p].amt - Share(proc[p])
  BY <1>1, <1>2, <1>4 DEF Applying, Left
<1>7. \A k \in Order : paid'[k] = paid[k] \/ paid'[k] = Collected(k)
  BY <1>1a DEF Stores, TypeOK
<1>8. Trimmed
  BY <1>1, TrimmedSame
<1>9. CASE /\ Stores(proc[p].ord) /\ UNCHANGED missed
           /\ x.amt = IF proc[p].then = "apply" THEN proc[p].amt - Share(proc[p]) ELSE proc[p].amt
  <2>1. paid'[proc[p].ord] = Collected(proc[p].ord)
    BY <1>3, <1>9 DEF Stores, TypeOK
  <2>2. Owing' /\ Counting' /\ Giving'
    BY <1>1, <1>2, <1>6, <1>7, <1>8, <1>9, <2>1, SoundMoves
  <2> QED BY <1>5, <2>2 DEF SoundFacts
<1>10. CASE missed' = [missed EXCEPT ![proc[p].ord] = @ + Recorded(proc[p])] /\ x.amt = proc[p].amt
  <2>1. PICK k \in Order, g \in Nat : k = proc[p].ord /\ g = Recorded(proc[p])
    BY <1>1, <1>3, RecordedNumber
  <2>2. missed'[k] = missed[k] + g /\ \A o \in Order : o # k => missed'[o] = missed[o]
    BY <1>10, <2>1 DEF TypeOK
  <2>3. \A o \in Order : missed[o] \in Nat /\ missed'[o] \in Nat
    BY DEF TypeOK
  <2>4. \A o \in Order : missed'[o] >= missed[o]
    BY <2>2, <2>3
  <2>5. Missed' = Missed + g
    <3> PICK f, h : f = missed /\ h = missed'
      OBVIOUS
    <3>1. (\A o \in Order : f[o] \in Int /\ h[o] \in Int) /\ (\A o \in Order : o # k => h[o] = f[o]) /\ h[k] = f[k] + g
      BY <2>2, <2>3
    <3>2. SumFunctionOnSet(h, Order) = SumFunctionOnSet(f, Order) + h[k] - f[k]
      BY <3>1, Sizes, SumChanges
    <3>3. SumFunctionOnSet(f, Order) \in Int /\ f[k] \in Int
      BY <3>1, Sizes, SumNumber
    <3>4. SumFunctionOnSet(h, Order) = SumFunctionOnSet(f, Order) + g
      BY <3>1, <3>2, <3>3
    <3> QED BY <3>4 DEF Missed
  <2>6. Applying(x) => Applying(proc[p]) /\ Left(x) <= Left(proc[p]) + g
    <3> SUFFICES ASSUME Applying(x) PROVE Left(x) <= Left(proc[p]) + g
      BY <1>6
    <3>1. g = Share(proc[p])
      BY <1>6, <2>1 DEF Recorded
    <3>2. PICK n : n = proc[p].amt
      OBVIOUS
    <3>3. n \in Nat /\ Left(x) = n /\ Left(proc[p]) = n - g
      BY <1>6, <1>10, <3>1, <3>2 DEF TypeOK
    <3>4. n <= (n - g) + g
      BY ONLY <3>3, g \in Nat
    <3> QED BY <3>3, <3>4
  <2>7. Owing' /\ Counting' /\ Giving'
    BY <1>1, <1>2, <1>6, <1>7, <1>8, <2>1, <2>2, <2>3, <2>4, <2>5, <2>6, SoundMisses
  <2> QED BY <1>5, <2>7 DEF SoundFacts
<1> QED BY <1>1a, <1>9, <1>10

LEMMA SoundMark ==
    ASSUME TypeOK, TypeOK', SafeInv, SoundFacts, NEW p \in Proc, MarkSynced(p)
    PROVE  SoundFacts'
<1> PICK r, x : r = proc[p].row /\ x = Idle
  OBVIOUS
<1>1. /\ UNCHANGED <<scene, missed, paid, receipt, direct, debt>> /\ Goes(p, x) /\ proc[p].at = "mark" /\ r \in Row
      /\ x.at = "idle" /\ x.row = 0
  BY MarkShape, IdleIs
<1>2. Trimmed
  <2>1. CASE UNCHANGED row
    BY <1>1, <2>1, TrimmedSame
  <2>2. ASSUME NEW v, row' = [row EXCEPT ![r] = v], v.st = row[r].st, v.kind = row[r].kind,
               v.ord = row[r].ord, v.amt = row[r].amt
        PROVE  Trimmed
    <3>1. v.amt <= row[r].amt
      <4>1. row[r].amt \in Nat
        BY <1>1 DEF TypeOK
      <4> QED BY <2>2, <4>1
    <3> QED BY <1>1, <2>2, <3>1, TrimmedBy
  <2> QED BY <2>1, <2>2, MarkShape
<1>3. \A t \in Row : KeptRow(t)
  BY <1>1, <1>2 DEF Trimmed, KeptRow
<1>4. Orderly'
  <2>1. WorkFacts(x)' /\ ~Passing(x)
    BY <1>1 DEF WorkFacts, Holds, Fresh, Reversing, Passing
  <2>2. row'[r].st # "voided"
    BY <1>1, <1>3 DEF KeptRow, SoundFacts, Orderly
  <2>3. \A q \in Proc : q # p /\ proc[q].row = r => r = 0
    BY OneAtRow DEF SoundFacts
  <2> QED BY <1>1, <1>3, <2>1, <2>2, <2>3, OrderlyMoved DEF SoundFacts
<1>5. ~Fresh(x) /\ ~Applying(x)
  BY <1>1 DEF Fresh, Applying
<1>6. Owing' /\ Counting' /\ Giving'
  BY <1>1, <1>2, <1>5, SoundMoves
<1> QED BY <1>4, <1>6 DEF SoundFacts

LEMMA SoundRetry ==
    ASSUME TypeOK, TypeOK', SafeInv, SoundFacts, NEW p \in Proc, NEW r \in Row, RetrySync(p, r)
    PROVE  SoundFacts'
<1>1. /\ UNCHANGED <<scene, missed, paid, row, receipt, direct, debt>> /\ proc[p] = Idle /\ ~AtRow(r)
      /\ row[r].kind = "settle" /\ proc[p].row = 0 /\ proc[p].at = "idle"
  BY RetryShape, IdleIs
<1>2. PICK x : Goes(p, x) /\ x.at = "call" /\ x.row = r
  BY RetryShape
<1>3. \A t \in Row : KeptRow(t)
  BY <1>1, KeptRows
<1>4. Orderly'
  <2>1. WorkFacts(x)' /\ ~Passing(x)
    BY <1>1, <1>2 DEF WorkFacts, Holds, Fresh, Reversing, Passing
  <2>2. row'[r].st # "voided"
    BY <1>1 DEF SoundFacts, Orderly
  <2>3. \A q \in Proc : q # p /\ proc[q].row = r => r = 0
    BY <1>1 DEF AtRow
  <2> QED BY <1>1, <1>2, <1>3, <2>1, <2>2, <2>3, OrderlyMoved DEF SoundFacts
<1>5. ~Fresh(x) /\ ~Applying(x) /\ x.at # "read"
  BY <1>2 DEF Fresh, Applying
<1>6. Trimmed
  BY <1>1, TrimmedSame
<1>7. Owing' /\ Counting' /\ Giving'
  BY <1>1, <1>2, <1>5, <1>6, SoundMoves
<1> QED BY <1>4, <1>7 DEF SoundFacts

LEMMA SoundBegin ==
    ASSUME TypeOK, TypeOK', SafeInv, SoundFacts, ~May("overlap"), NEW p \in Proc,
           (\E e \in mail : BalanceUpdated(p, e)) \/ AuditOne(p)
    PROVE  SoundFacts'
<1>1. /\ UNCHANGED <<scene, missed, paid, row, receipt, direct, debt>> /\ proc[p] = Idle /\ Alone
      /\ proc[p].row = 0 /\ proc[p].at = "idle"
  BY BeginShape, IdleIs
<1>2. \A q \in Proc : ~Passing(proc[q])
  BY <1>1 DEF Alone, PassRunning, Passing
<1>3. \E x : Goes(p, x) /\ x.row = 0 /\ (x.at = "idle" \/ (x.at = "read" /\ x.amt = debt))
  <2>1. CASE UNCHANGED proc
    <3> PICK x : x = Idle
      OBVIOUS
    <3>1. Goes(p, x) /\ x.row = 0 /\ x.at = "idle"
      BY <1>1, <2>1 DEF Goes, SafeInv, Requests
    <3> QED BY <3>1
  <2> QED BY <2>1, BeginShape
<1>4. PICK x : Goes(p, x) /\ x.row = 0 /\ (x.at = "idle" \/ (x.at = "read" /\ x.amt = debt))
  BY <1>3
<1>5. ~Holds(x) /\ x.at # "recount" /\ x.at # "apply"
  BY <1>4 DEF Holds
<1> QED BY <1>1, <1>2, <1>4, <1>5, SoundElsewhere

LEMMA SoundPost ==
    ASSUME TypeOK, TypeOK', SafeInv, SoundFacts, NEW p \in Proc, RecordARPayment(p)
    PROVE  SoundFacts'
<1> PICK r \in Row : r = proc[p].row
  BY PostShape
<1>1. UNCHANGED <<scene, missed, paid, row, direct>> /\ proc[p].at = "call"
  BY PostShape
<1>2. PICK x : /\ Goes(p, x)
               /\ x = Idle \/ (x.at = "mark" /\ x.row = r)
               /\ \/ UNCHANGED <<receipt, debt>>
                  \/ /\ Takes(r) /\ receipt' = [receipt EXCEPT ![r] = "live"]
                     /\ debt' = debt - row[r].amt
  BY PostShape
<1>3. x.row \in {0, r} /\ x.at \in {"idle", "mark"} /\ (Holds(x) => x.row = r)
  BY <1>2, IdleIs DEF Holds
<1>4. ~Fresh(x) /\ ~Applying(x) /\ ~Passing(x) /\ ~Reversing(x) /\ x.at # "voiding" /\ x.at # "read"
  BY <1>3 DEF Fresh, Applying, Passing, Reversing
<1>5. row[r].kind = "settle" /\ row[r].st # "none" /\ row[r].st # "voided"
  BY <1>1, Rows DEF SoundFacts, Orderly, WorkFacts, Holds, SafeInv, Facts
<1>6. Orderly'
  <2>1. \A t \in Row : t # r => KeptRow(t)
    <3>1. \A t \in Row : t # r => receipt'[t] = receipt[t]
      BY <1>2 DEF TypeOK
    <3> QED BY <1>1, <3>1 DEF KeptRow
  <2>2. WorkFacts(x)' /\ row'[r].st # "voided"
    BY <1>1, <1>3, <1>4, <1>5 DEF WorkFacts, Holds, Fresh, Reversing
  <2>3. \A q \in Proc : q # p /\ proc[q].row = r => r = 0
    BY OneAtRow DEF SoundFacts
  <2> QED BY <1>2, <1>3, <1>4, <2>1, <2>2, <2>3, OrderlyMoved DEF SoundFacts
<1>7. Trimmed
  BY <1>1, TrimmedSame
<1>8. CASE UNCHANGED <<receipt, debt>>
  <2>1. Owing' /\ Counting' /\ Giving'
    BY <1>1, <1>2, <1>4, <1>7, <1>8, SoundMoves
  <2> QED BY <1>6, <2>1 DEF SoundFacts
<1>9. CASE Takes(r) /\ receipt' = [receipt EXCEPT ![r] = "live"] /\ debt' = debt - row[r].amt
  <2>1. receipt[r] = "none" /\ receipt'[r] = "live" /\ (\A t \in Row : t # r => receipt'[t] = receipt[t])
    BY <1>9 DEF Takes, TypeOK
  <2>2. Tills' = Tills /\ Worth(Tills)' = Worth(Tills) /\ Elsewhere' = Elsewhere /\ Total' = Total /\ AllSettled' <= AllSettled
    <3>1. Tills \in SUBSET Tills
      OBVIOUS
    <3> QED BY <1>1, <1>7, <3>1, TrimmedSums DEF Elsewhere
  <2>3. Posted' = Posted \cup {r} /\ r \notin Posted /\ Posted \in SUBSET Row
    <3>1. ASSUME NEW t PROVE t \in Posted' <=> t \in Posted \cup {r}
      <4>1. r \in Tills
        BY <1>5, TillsAre
      <4> QED BY <2>1, <2>2, <4>1, TillsAre DEF Posted
    <3> QED BY <2>1, <3>1, TillsAre DEF Posted
  <2>4. Worth(Posted)' = Worth(Posted) + row'[r].amt
    <3> PICK Q : Q = Posted
      OBVIOUS
    <3>1. \A t \in Q : row'[t].amt = row[t].amt
      BY <1>1
    <3>2. Worth(Q \cup {r})' = Worth(Q) + row'[r].amt
      BY <2>3, <3>1, WorthJoins
    <3> QED BY <2>3, <3>2
  <2>5. PICK a \in Nat : a = row[r].amt
    BY DEF TypeOK
  <2>6. Elsewhere' + Worth(Posted)' = Elsewhere + Worth(Posted) + a /\ debt' + a >= debt
    <3> PICK e, w, w2, b, b2 : e = Elsewhere /\ w = Worth(Posted) /\ w2 = Worth(Posted)' /\ b = debt /\ b2 = debt'
      OBVIOUS
    <3>1. e \in Nat /\ w \in Nat /\ b \in Nat /\ w2 = w + a /\ b2 = b - a
      BY <1>1, <1>9, <2>4, <2>5, NumbersAre DEF Numbers, TypeOK
    <3>2. e + w2 = e + w + a /\ b2 + a >= b
      BY ONLY <3>1, a \in Nat
    <3> QED BY <2>2, <3>2
  <2>7. \A q \in Proc : proc'[q].at = "read" => (proc[q].at = "read" /\ proc'[q].amt = proc[q].amt) \/ proc'[q].amt = debt'
    BY <1>2, <1>4, Others
  <2>8. Owing'
    BY <2>2, <2>6, <2>7, OwingStep DEF SoundFacts
  <2>9. Counting'
    BY <1>1, <1>2, <1>7, MissedSame, CountingMoves DEF SoundFacts, Fresh
  <2>10. AllSettled' <= AllSettled + 0 /\ Backing' >= Backing + 0
    <3> PICK s, s2 : s = AllSettled /\ s2 = AllSettled'
      OBVIOUS
    <3>1. s \in Nat /\ s2 \in Nat /\ s2 <= s
      BY <2>2, NumbersAre, NumbersNext DEF Numbers
    <3>2. s2 <= s + 0
      BY ONLY <3>1
    <3> QED BY <1>1, <2>2, <3>2, BackingSame
  <2>11. \A q \in Proc : Applying(proc'[q]) => proc'[q] = proc[q]
    BY <1>2, <1>4, Others
  <2>12. Giving'
    BY <2>10, <2>11, GivingStep DEF SoundFacts
  <2> QED BY <1>6, <2>8, <2>9, <2>12 DEF SoundFacts
<1> QED BY <1>2, <1>8, <1>9

\* A row that comes in is in nobody's hands, and treasury has no receipt for it.
LEMMA NewRow ==
    ASSUME SafeInv, NEW r \in Row, row[r].st = "none"
    PROVE  receipt[r] = "none" /\ \A q \in Proc : proc[q].row # r
BY Rows DEF SafeInv, RowFacts, Facts

LEMMA OrderlyJoins ==
    ASSUME TypeOK, SafeInv, Orderly, NEW r \in Row, NEW v, Joined(r, v), UNCHANGED receipt,
           NEW p \in Proc, NEW x, Goes(p, x), proc[p].row = 0, x.row \in {0, r}, WorkFacts(x)', Passing(x) => Passing(proc[p])
    PROVE  Orderly'
<1>1. \A t \in Row : t # r => KeptRow(t)
  BY DEF Joined, KeptRow
<1>2. row'[r].st # "voided"
  BY DEF Joined
<1>3. \A q \in Proc : q # p /\ proc[q].row = r => r = 0
  BY NewRow DEF Joined
<1>4. proc[p].row \in {0, r}
  OBVIOUS
<1> QED BY <1>1, <1>2, <1>3, <1>4, OrderlyMoved

LEMMA PostedJoins ==
    ASSUME TypeOK, TypeOK', SafeInv, NEW r \in Row, NEW v, Joined(r, v), UNCHANGED receipt
    PROVE  Posted' = Posted /\ Worth(Posted)' = Worth(Posted)
<1>1. receipt[r] = "none"
  BY NewRow DEF Joined
<1>2. Tills' = Tills \/ Tills' = Tills \cup {r}
  BY JoinedSums
<1>3. ASSUME NEW t PROVE t \in Posted' <=> t \in Posted
  BY <1>1, <1>2 DEF Posted
<1>4. Posted' = Posted
  BY <1>3
<1>5. Posted \in SUBSET Tills
  BY TillsAre
<1>6. Worth(Posted)' = Worth(Posted)
  <2> PICK Q : Q = Posted
    OBVIOUS
  <2>1. Worth(Q)' = Worth(Q)
    BY <1>5, JoinedSums
  <2> QED BY <1>4, <2>1
<1> QED BY <1>4, <1>6

LEMMA SoundInsert ==
    ASSUME TypeOK, TypeOK', SafeInv, SoundFacts, NEW p \in Proc, InsertSettlement(p)
    PROVE  SoundFacts'
<1>1. UNCHANGED <<scene, missed, paid, receipt, direct, debt>> /\ proc[p].at = "insert" /\ proc[p].row = 0
  BY InsertShape
<1>2. CASE UNCHANGED row /\ Goes(p, Idle)
  <2>1. ~Holds(Idle) /\ ~Passing(Idle) /\ Idle.at = "idle" /\ Idle.row = 0
    BY IdleIs DEF Holds, Passing
  <2> PICK x : x = Idle
    OBVIOUS
  <2>2. \A o \in Order : paid'[o] = paid[o] \/ paid'[o] = Collected(o)
    BY <1>1
  <2> QED BY <1>1, <1>2, <2>1, <2>2, SoundElsewhere
<1>3. ASSUME NEW r \in Row, NEW a \in Nat, NEW x, NEW v, Settles(p, r, a, x, v) PROVE SoundFacts'
  <2>1. /\ row[r].st = "none" /\ row' = [row EXCEPT ![r] = v]
        /\ v.st = "completed" /\ v.kind = "settle" /\ v.ord = proc[p].ord /\ v.amt = a
        /\ Goes(p, x) /\ x.at = "recount" /\ x.then = "call" /\ x.row = r /\ x.ord = proc[p].ord
    BY <1>3 DEF Settles
  <2>2. v.ord \in Order /\ v.amt \in Nat
    BY <2>1 DEF TypeOK
  <2>3. Joined(r, v)
    BY <1>1, <2>1, <2>2, JoinedBy
  <2>4. Fresh(x) /\ ~Passing(x) /\ ~Applying(x) /\ ~Reversing(x)
    BY <2>1 DEF Fresh, Passing, Applying, Reversing
  <2>5. Orderly'
    <3>1. receipt'[r] = "none" /\ row'[r] = v
      BY <1>1, <2>1, <2>3, NewRow DEF Joined
    <3>2. WorkFacts(x)'
      BY <2>1, <2>4, <3>1 DEF WorkFacts, Holds, Fresh, Reversing
    <3> QED BY <1>1, <2>1, <2>3, <2>4, <3>2, OrderlyJoins DEF SoundFacts
  <2>6. Posted' = Posted /\ Worth(Posted)' = Worth(Posted) /\ Total' = Total
    BY <1>1, <2>3, PostedJoins, JoinedSums
  <2>7. Owing'
    BY <1>1, <2>1, <2>6, OwingMoves DEF SoundFacts
  <2>8. Counting'
    BY <1>1, <2>1, <2>3, <2>4, CountingJoins DEF SoundFacts
  <2>9. AllSettled' <= AllSettled + a /\ Backing' >= Backing + a
    <3>1. Worth(Tills)' = Worth(Tills) + a
      <4> PICK Q : Q = Tills
        OBVIOUS
      <4>1. Tills' = Q \cup {r} /\ Worth(Q \cup {r})' = Worth(Q) + a
        BY <2>1, <2>3, JoinedSums
      <4> QED BY <4>1
    <3>2. Elsewhere' = Elsewhere
      BY <1>1 DEF Elsewhere
    <3> PICK w, e, m : w = Worth(Tills) /\ e = Elsewhere /\ m = Missed
      OBVIOUS
    <3>3. w \in Nat /\ e \in Nat /\ m \in Nat
      BY NumbersAre DEF Numbers
    <3>4. (w + a) + e + m >= (w + e + m) + a
      BY ONLY <3>3, a \in Nat
    <3>5. AllSettled' <= AllSettled + a
      BY <2>1, <2>3, JoinedSums
    <3>6. Backing = w + e + m /\ Backing' = (w + a) + e + m
      BY <1>1, <3>1, <3>2, MissedSame DEF Backing
    <3> QED BY <3>4, <3>5, <3>6
  <2>10. \A q \in Proc : Applying(proc'[q]) => proc'[q] = proc[q]
    BY <2>1, <2>4, Others
  <2>11. Giving'
    BY <2>9, <2>10, GivingStep DEF SoundFacts
  <2> QED BY <2>5, <2>7, <2>8, <2>11 DEF SoundFacts
<1> QED BY <1>2, <1>3, InsertShape

LEMMA SoundApply ==
    ASSUME TypeOK, TypeOK', SafeInv, SoundFacts, NEW p \in Proc, ApplyReconcileSettlement(p)
    PROVE  SoundFacts'
<1>1. UNCHANGED <<scene, missed, paid, receipt, direct, debt>> /\ proc[p].at = "apply" /\ proc[p].row = 0
  BY ApplyShape
<1>2. ASSUME UNCHANGED row, NEW x, Skips(p, x) PROVE SoundFacts'
  <2>1. Goes(p, x) /\ x.row = 0 /\ (x.at = "idle" \/ (x.at = "apply" /\ x.amt = proc[p].amt))
    BY <1>2 DEF Skips
  <2>2. ~Holds(x) /\ Passing(proc[p]) /\ x.at # "recount" /\ x.at # "read"
    BY <1>1, <2>1 DEF Holds, Passing
  <2>3. \A o \in Order : paid'[o] = paid[o] \/ paid'[o] = Collected(o)
    BY <1>1
  <2> QED BY <1>1, <1>2, <2>1, <2>2, <2>3, SoundElsewhere
<1>3. ASSUME NEW r \in Row, NEW k \in Order, NEW a \in Nat, NEW x, NEW v, Pays(p, r, k, a, x, v) PROVE SoundFacts'
  <2>1. /\ row[r].st = "none" /\ row' = [row EXCEPT ![r] = v]
        /\ v.st = "completed" /\ v.kind = "recon" /\ v.ord = k /\ v.amt = a
        /\ Goes(p, x) /\ x.at = "recount" /\ x.then = "apply" /\ x.row = 0 /\ x.ord = k
        /\ x.amt = proc[p].amt /\ a = Share(x) /\ a <= proc[p].amt
    BY <1>3 DEF Pays
  <2>3. Joined(r, v)
    BY <1>1, <2>1, JoinedBy
  <2>4. ~Fresh(x) /\ ~Holds(x) /\ ~Reversing(x) /\ x.at # "voiding" /\ Passing(proc[p]) /\ Applying(proc[p])
    BY <1>1, <2>1 DEF Fresh, Passing, Applying, Holds, Reversing
  <2>5. Orderly'
    <3>1. WorkFacts(x)'
      BY <2>4 DEF WorkFacts, Holds, Fresh, Reversing
    <3> QED BY <1>1, <2>1, <2>3, <2>4, <3>1, OrderlyJoins DEF SoundFacts
  <2>6. Posted' = Posted /\ Worth(Posted)' = Worth(Posted) /\ Total' = Total
    BY <1>1, <2>3, PostedJoins, JoinedSums
  <2>7. Owing'
    BY <1>1, <2>1, <2>6, OwingMoves DEF SoundFacts
  <2>8. Counting'
    <3>1. \A q \in Proc : ~Finishing(proc[q], k)
      <4>1. \A q \in Proc : q # p => ~Passing(proc[q])
        BY <2>4 DEF SoundFacts, Orderly
      <4> QED BY <1>1, <4>1 DEF Finishing, Passing
    <3>2. Finishing(x, k)
      BY <2>1 DEF Finishing
    <3> QED BY <1>1, <2>1, <2>3, <3>1, <3>2, CountingJoins DEF SoundFacts
  <2>9. Backing' = Backing /\ AllSettled' <= AllSettled + a
    <3> PICK Q : Q = Tills
      OBVIOUS
    <3>1. Tills' = Q /\ Worth(Q)' = Worth(Q) /\ AllSettled' <= AllSettled + a
      BY <2>1, <2>3, JoinedSums
    <3>2. Elsewhere' = Elsewhere
      BY <1>1 DEF Elsewhere
    <3> QED BY <1>1, <3>1, <3>2, BackingSame
  <2>10. Giving'
    <3> PICK s, s2, b, n, m : s = AllSettled /\ s2 = AllSettled' /\ b = Backing /\ n = proc[p].amt /\ m = Left(x)
      OBVIOUS
    <3>1. s \in Nat /\ s2 \in Nat /\ b \in Nat /\ n \in Nat /\ s2 <= s + a /\ m = n - a /\ a <= n
      BY <2>1, <2>9, NumbersAre, NumbersNext DEF Numbers, TypeOK, Left
    <3>3. s + n <= b
      BY <1>1, <2>4 DEF SoundFacts, Giving, Left
    <3>4. s2 <= b /\ s2 + m <= b
      BY ONLY <3>1, <3>3, a \in Nat
    <3>5. \A q \in Proc : Applying(proc'[q]) => q = p
      <4>1. \A q \in Proc : q # p => ~Passing(proc[q])
        BY <2>4 DEF SoundFacts, Orderly
      <4>2. \A q \in Proc : Applying(proc[q]) => Passing(proc[q])
        BY DEF Applying, Passing
      <4> QED BY <2>1, <4>1, <4>2, Others
    <3>6. proc'[p] = x
      BY <2>1, Others
    <3>7. \A q \in Proc : Applying(proc'[q]) => s2 + Left(proc'[q]) <= b
      BY <3>4, <3>5, <3>6
    <3> QED BY <2>9, <3>4, <3>7 DEF Giving, Applying, Left, Share
  <2> QED BY <2>5, <2>7, <2>8, <2>10 DEF SoundFacts
<1> QED BY <1>2, <1>3, ApplyShape

LEMMA SoundUndo ==
    ASSUME TypeOK, TypeOK', SafeInv, SoundFacts, NEW p \in Proc, UnreconcilePhantom(p)
    PROVE  SoundFacts'
<1>1. UNCHANGED <<scene, missed, paid, receipt, direct, debt>> /\ proc[p].at = "undo" /\ proc[p].row = 0
  BY UndoShape
<1>2. CASE UNCHANGED row /\ Goes(p, Idle)
  <2>1. ~Holds(Idle) /\ ~Passing(Idle) /\ Idle.at = "idle" /\ Idle.row = 0
    BY IdleIs DEF Holds, Passing
  <2> PICK x : x = Idle
    OBVIOUS
  <2>2. \A o \in Order : paid'[o] = paid[o] \/ paid'[o] = Collected(o)
    BY <1>1
  <2> QED BY <1>1, <1>2, <2>1, <2>2, SoundElsewhere
<1>3. ASSUME NEW r \in Row, NEW x, NEW v, Cuts(p, r, x, v) PROVE SoundFacts'
  <2>1. /\ row' = [row EXCEPT ![r] = v] /\ row[r].kind = "recon"
        /\ v.st = row[r].st /\ v.kind = row[r].kind /\ v.ord = row[r].ord /\ v.amt <= row[r].amt
        /\ Goes(p, x) /\ x.at = "recount" /\ x.then = "undo" /\ x.row = 0
    BY <1>3 DEF Cuts
  <2>2. Trimmed
    BY <1>1, <2>1, TrimmedBy
  <2>3. ~Fresh(x) /\ ~Holds(x) /\ ~Applying(x) /\ Passing(proc[p])
    BY <1>1, <2>1 DEF Fresh, Passing, Applying, Holds
  <2>4. Orderly'
    <3>1. \A t \in Row : KeptRow(t)
      BY <1>1, <2>2 DEF Trimmed, KeptRow
    <3> QED BY <1>1, <2>1, <2>3, <3>1, OrderlyElsewhere DEF SoundFacts
  <2>5. Owing' /\ Counting' /\ Giving'
    BY <1>1, <2>1, <2>2, <2>3, SoundMoves
  <2> QED BY <2>4, <2>5 DEF SoundFacts
<1> QED BY <1>2, <1>3, UndoShape

LEMMA CountingStays ==
    ASSUME Counting, UNCHANGED <<missed, paid, row, proc>>
    PROVE  Counting'
<1>1. ASSUME NEW o \in Order PROVE Collected(o)' = Collected(o) /\ Known(o)' = Known(o)
  <2>1. UncountedOf(o)' = UncountedOf(o) /\ Counted(o)' = Counted(o) /\ Amount' = Amount
    BY DEF UncountedOf, Uncounted, BeingCounted, Fresh, Tills, Used, Counted, Amount
  <2> QED BY <2>1 DEF Collected, Known, Worth
<1> QED BY <1>1 DEF Counting, Finishing, Share

\* What the pass may add: at most what was received and no order shows yet.
LEMMA Reconcilable ==
    ASSUME TypeOK, SafeInv, SoundFacts, NEW p \in Proc, proc[p].at = "read"
    PROVE  AllSettled + PosOpen <= Backing + proc[p].amt
<1> PICK price, c, pd, un : /\ price = scene.price /\ c = Collections /\ pd = paid
                            /\ un = [o \in Order |-> Worth(UncountedOf(o))]
  OBVIOUS
<1> PICK u : u = [o \in Order |-> un[o] + missed[o]]
  OBVIOUS
<1>0. \A o \in Order : un[o] \in Nat /\ missed[o] \in Nat /\ u[o] = un[o] + missed[o] /\ un[o] = Worth(UncountedOf(o))
  BY NumbersAre DEF Numbers
<1>1. price \in [Order -> Nat] /\ c \in [Order -> Nat] /\ pd \in [Order -> Nat] /\ u \in [Order -> Nat]
  <2>1. \A o \in Order : u[o] \in Nat
    BY <1>0
  <2> QED BY <2>1, Prices, NumbersAre DEF Numbers, Collections, TypeOK
<1>2. ASSUME NEW o \in Order PROVE c[o] <= pd[o] + u[o]
  <2>1. \A q \in Proc : ~Finishing(proc[q], o)
    <3>1. \A q \in Proc : q # p => ~Passing(proc[q])
      BY DEF Passing, SoundFacts, Orderly
    <3> QED BY <3>1 DEF Finishing, Passing
  <2>2. Collected(o) <= Known(o)
    BY <2>1 DEF SoundFacts, Counting
  <2>3. c[o] = Collected(o) /\ pd[o] = paid[o]
    BY DEF Collections
  <2>4. pd[o] \in Nat /\ c[o] \in Nat
    BY <1>1
  <2>5. pd[o] + u[o] = Known(o)
    BY <1>0, <2>3, <2>4 DEF Known
  <2> QED BY <2>2, <2>3, <2>5
<1>3. PICK open : open = [o \in Order |-> IF price[o] > pd[o] THEN price[o] - pd[o] ELSE 0]
  OBVIOUS
<1>4. SumFunctionOnSet(SettledOf(price, c), Order) + SumFunctionOnSet(open, Order)
        <= SumFunctionOnSet(price, Order) + SumFunctionOnSet(u, Order)
  BY <1>1, <1>2, <1>3, SettledAndOpen
<1>5. PosOpen = SumFunctionOnSet(open, Order)
  <2>1. open = [o \in Order |-> Due(o)]
    BY <1>3 DEF Due
  <2>2. DOMAIN open = Order
    BY <2>1
  <2> QED BY <2>1, <2>2 DEF PosOpen, SumFunction
<1>6a. SumFunctionOnSet(un, Order) = Worth(Uncounted)
  <2> PICK f, S, k : f = Amount /\ S = Uncounted /\ k = [r \in Row |-> row[r].ord]
    OBVIOUS
  <2>1. S \in SUBSET Row /\ IsFiniteSet(S)
    BY TillsAre, Sizes, FS_Subset
  <2>2. \A r \in S : f[r] \in Int /\ k[r] \in Order
    BY <2>1 DEF Amount, TypeOK
  <2>3. SumFunctionOnSet(ByClass(f, k, Order, S), Order) = SumFunctionOnSet(f, S)
    <3>1. IsFiniteSet(Order)
      BY Sizes
    <3> QED BY ONLY <2>1, <2>2, <3>1, SumByClass
  <2>4. ASSUME NEW o \in Order PROVE {r \in S : k[r] = o} = UncountedOf(o)
    BY <2>1 DEF UncountedOf
  <2>5. ByClass(f, k, Order, S) = un
    BY <2>4 DEF ByClass, Worth
  <2> QED BY <2>3, <2>5 DEF Worth
<1>6. SumFunctionOnSet(u, Order) = Worth(Uncounted) + Missed
  <2> PICK m : m = missed
    OBVIOUS
  <2>1. \A o \in Order : un[o] \in Int /\ m[o] \in Int /\ u[o] = un[o] + m[o]
    BY <1>0
  <2>2. SumFunctionOnSet(u, Order) = SumFunctionOnSet(un, Order) + SumFunctionOnSet(m, Order)
    BY <2>1, Sizes, SumAdds
  <2> QED BY <1>6a, <2>2 DEF Missed
<1>7. Worth(Uncounted) + Worth(Posted) <= Worth(Tills)
  <2> PICK f, A, B, C : f = Amount /\ A = Uncounted /\ B = Posted /\ C = Tills
    OBVIOUS
  <2>1. A \in SUBSET C /\ B \in SUBSET C /\ C \in SUBSET Row /\ IsFiniteSet(A) /\ IsFiniteSet(B) /\ IsFiniteSet(C)
    BY TillsAre, Sizes, FS_Subset
  <2>2. \A r \in C : f[r] \in Nat /\ f[r] \in Int
    BY <2>1, Amounts
  <2>3. A \cap B = {}
    <3>1. ASSUME NEW r \in A, r \in B PROVE FALSE
      <4>1. PICK q \in Proc : Fresh(proc[q]) /\ proc[q].row = r
        BY <3>1 DEF Uncounted, BeingCounted
      <4>2. receipt[r] = "none"
        BY <4>1 DEF SoundFacts, Orderly, WorkFacts
      <4> QED BY <3>1, <4>2 DEF Posted
    <3> QED BY <3>1
  <2>4. SumFunctionOnSet(f, A \cup B) = SumFunctionOnSet(f, A) + SumFunctionOnSet(f, B)
    <3>1. \A r \in A \cup B : f[r] \in Int
      BY <2>1, <2>2
    <3> QED BY <2>1, <2>3, <3>1, SumUnion
  <2>5. SumFunctionOnSet(f, A \cup B) <= SumFunctionOnSet(f, C)
    <3>1. A \cup B \in SUBSET C
      BY <2>1
    <3> QED BY <2>1, <2>2, <3>1, SumGrows
  <2> QED BY <2>4, <2>5 DEF Worth
<1>8. proc[p].amt + Elsewhere + Worth(Posted) >= Total
  BY DEF SoundFacts, Owing
<1> PICK s, n, t, w, wp, wu, e, m, l : /\ s = AllSettled /\ n = PosOpen /\ t = Total /\ w = Worth(Tills) /\ wp = Worth(Posted)
                                       /\ wu = Worth(Uncounted) /\ e = Elsewhere /\ m = proc[p].amt /\ l = Missed
  OBVIOUS
<1>9. /\ s \in Nat /\ n \in Nat /\ t \in Nat /\ w \in Nat /\ wp \in Nat /\ wu \in Nat /\ e \in Nat /\ m \in Nat /\ l \in Nat
      /\ s + n <= t + (wu + l) /\ wu + wp <= w /\ m + e + wp >= t
  BY <1>4, <1>5, <1>6, <1>7, <1>8, NumbersAre, PosOpenNumber DEF Numbers, TypeOK, AllSettled, Total
<1>10. s + n <= (w + e + l) + m
  BY ONLY <1>9
<1> QED BY <1>10 DEF Backing

LEMMA SoundRead ==
    ASSUME TypeOK, TypeOK', SafeInv, SoundFacts, NEW p \in Proc, ReadOrders(p)
    PROVE  SoundFacts'
<1>1. UNCHANGED <<scene, missed, paid, row, receipt, direct, debt>> /\ proc[p].at = "read" /\ proc[p].row = 0
  BY ReadShape
<1>2. PICK x : Decides(p, x)
  BY ReadShape
<1>3. Goes(p, x) /\ x.row = 0
  BY <1>2 DEF Decides
<1>4. Passing(proc[p]) /\ \A o \in Order : paid'[o] = paid[o] \/ paid'[o] = Collected(o)
  BY <1>1 DEF Passing
<1>5. CASE x.at \in {"undo", "idle"}
  <2>1. ~Holds(x) /\ x.at # "recount" /\ x.at # "read" /\ x.at # "apply" /\ proc[p].at # "recount"
    BY <1>1, <1>5 DEF Holds
  <2> QED BY <1>1, <1>3, <1>4, <2>1, SoundElsewhere
<1>6. CASE x.at = "apply" /\ x.amt = PosOpen - proc[p].amt
  <2>1. ~Holds(x) /\ ~Fresh(x)
    BY <1>6 DEF Holds, Fresh
  <2>2. Orderly'
    BY <1>1, <1>3, <1>4, <2>1, KeptRows, OrderlyElsewhere DEF SoundFacts
  <2>3. Trimmed
    BY <1>1, TrimmedSame
  <2>4. Posted' = Posted /\ Worth(Posted)' = Worth(Posted) /\ Total' = Total /\ Worth(Tills)' = Worth(Tills)
        /\ Elsewhere' = Elsewhere /\ AllSettled' = AllSettled
    BY <1>1 DEF Posted, Worth, Amount, Tills, Used, Total, Elsewhere, AllSettled, Collections, Collected, Counted
  <2>5. Owing'
    BY <1>1, <1>3, <1>6, <2>4, OwingMoves DEF SoundFacts
  <2>6. Counting'
    BY <1>1, <1>3, <1>4, <2>3, MissedSame, CountingMoves DEF SoundFacts, Fresh
  <2>7. Giving'
    <3> PICK s, b, n, m, y : s = AllSettled /\ b = Backing /\ n = PosOpen /\ m = proc[p].amt /\ y = Left(x)
      OBVIOUS
    <3>1. s \in Nat /\ b \in Nat /\ n \in Nat /\ m \in Nat /\ s + n <= b + m /\ s <= b /\ y = n - m
      BY <1>1, <1>6, Reconcilable, NumbersAre, PosOpenNumber DEF Numbers, TypeOK, SoundFacts, Giving, Left
    <3>2. s + y <= b
      BY ONLY <3>1
    <3>3. \A q \in Proc : Applying(proc'[q]) => q = p
      <4>1. \A q \in Proc : q # p => ~Passing(proc[q])
        BY <1>4 DEF SoundFacts, Orderly
      <4>2. \A q \in Proc : Applying(proc[q]) => Passing(proc[q])
        BY DEF Applying, Passing
      <4> QED BY <1>3, <4>1, <4>2, Others
    <3>4. proc'[p] = x
      BY <1>3, Others
    <3>5. \A q \in Proc : Applying(proc'[q]) => s + Left(proc'[q]) <= b
      BY <3>2, <3>3, <3>4
    <3>6. Backing' = b
      BY <1>1, <2>4, BackingSame
    <3> QED BY <2>4, <3>1, <3>5, <3>6 DEF Giving, Applying, Left, Share
  <2> QED BY <2>2, <2>5, <2>6, <2>7 DEF SoundFacts
<1> QED BY <1>2, <1>5, <1>6 DEF Decides

\* A receipt treasury has not recorded is worth nothing.
Blank == \A d \in Direct : direct[d].st = "none" => direct[d].amt = 0

LEMMA BlankStart == Init => Blank
BY DEF Init, Blank

LEMMA BlankInductive == SafeInv /\ Blank /\ [Next]_vars => Blank'
<1> SUFFICES ASSUME SafeInv, Blank, [Next]_vars PROVE Blank'
  OBVIOUS
<1>1. CASE UNCHANGED direct
  BY <1>1 DEF Blank
<1>2. ASSUME NEW d \in Direct, NEW v, direct' = [direct EXCEPT ![d] = v], v.st # "none" PROVE Blank'
  BY <1>2, Puts DEF Blank, SafeInv, Books
<1>3. ASSUME NEW d \in Direct, NEW a \in Asked, Receive(d, a) PROVE Blank'
  <2>1. PICK v : v = [st |-> "live", amt |-> a]
    OBVIOUS
  <2>2. v.st = "live" /\ direct' = [direct EXCEPT ![d] = v]
    BY <1>3, <2>1 DEF Receive
  <2> QED BY <1>2, <2>2
<1>4. ASSUME NEW d \in Direct, Withdraw(d) PROVE Blank'
  <2>1. PICK v : v = [direct[d] EXCEPT !.st = "void"]
    OBVIOUS
  <2>2. v.st = "void"
    BY <2>1 DEF SafeInv, Books
  <2> QED BY <1>2, <1>4, <2>1, <2>2 DEF Withdraw
<1>5. ASSUME NEW p \in Proc, Till(p) \/ Serve(p) \/ Worker(p) \/ Crash(p) PROVE UNCHANGED direct
  BY <1>5 DEF Till, Serve, Worker, SettleCreditPayment, LoadForVoid, InsertSettlement,
         RecomputePaidTotal, RecordARPayment, Post, MarkSynced, VoidPayment, VoidARReceipt, ReadOrders, ApplyReconcileSettlement,
         UnreconcilePhantom, RetrySync, BalanceUpdated, AuditOne, Crash, treasury
<1> QED BY <1>1, <1>3, <1>4, <1>5 DEF Next, Treasury, vars

\* What treasury does on its own.
LEMMA SoundDirect ==
    ASSUME TypeOK, TypeOK', SafeInv, SoundFacts, Blank, NEW d \in Direct, (\E a \in Asked : Receive(d, a)) \/ Withdraw(d)
    PROVE  SoundFacts'
<1>1. UNCHANGED <<scene, missed, paid, row, receipt, proc>>
  BY DEF Receive, Withdraw, books
<1>2. Orderly'
  BY <1>1, OrderlyStays DEF SoundFacts
<1>3. Counting'
  BY <1>1, CountingStays DEF SoundFacts
<1>4. Posted' = Posted /\ Worth(Posted)' = Worth(Posted) /\ Total' = Total /\ Worth(Tills)' = Worth(Tills)
      /\ AllSettled' = AllSettled
  BY <1>1 DEF Posted, Worth, Amount, Tills, Used, Total, AllSettled, Collections, Collected, Counted
<1>5. \E a \in Nat : Elsewhere' = Elsewhere + a /\ debt' + a >= debt
  <2> PICK f, g : f = [x \in Direct |-> direct[x].amt] /\ g = [x \in Direct |-> direct'[x].amt]
    OBVIOUS
  <2>1. \A x \in Direct : f[x] \in Int /\ g[x] \in Int /\ f[x] \in Nat /\ f[x] = direct[x].amt /\ g[x] = direct'[x].amt
    BY DEF TypeOK
  <2>2. Elsewhere = SumFunctionOnSet(f, Direct) /\ Elsewhere' = SumFunctionOnSet(g, Direct)
    BY DEF Elsewhere
  <2>3. ASSUME NEW v, direct' = [direct EXCEPT ![d] = v], NEW a \in Nat, v.amt = a, NEW b \in Nat, b = direct[d].amt
        PROVE  Elsewhere' = Elsewhere + a - b
    <3>1. direct'[d] = v /\ \A x \in Direct : x # d => direct'[x] = direct[x]
      BY <2>3 DEF TypeOK
    <3>2. \A x \in Direct : x # d => g[x] = f[x]
      BY <2>1, <3>1
    <3>3. g[d] = a /\ f[d] = b
      BY <2>1, <2>3, <3>1
    <3>4. SumFunctionOnSet(g, Direct) = SumFunctionOnSet(f, Direct) + g[d] - f[d]
      BY <2>1, <3>2, NamesAssumption, SumChanges
    <3> QED BY <2>2, <3>3, <3>4
  <2>4. PICK b \in Nat : b = direct[d].amt
    BY DEF TypeOK
  <2> PICK e, n, n2 : e = Elsewhere /\ n = debt /\ n2 = debt'
    OBVIOUS
  <2>5. e \in Nat /\ n \in Nat
    BY NumbersAre DEF Numbers, TypeOK
  <2>6. ASSUME NEW a \in Asked, Receive(d, a) PROVE \E z \in Nat : Elsewhere' = Elsewhere + z /\ debt' + z >= debt
    <3>1. a \in Nat /\ b = 0
      BY <2>4, <2>6, BoundsAssumption DEF Receive, Blank
    <3>2. PICK v : v = [st |-> "live", amt |-> a]
      OBVIOUS
    <3>2a. v.amt = a /\ direct' = [direct EXCEPT ![d] = v] /\ n2 = n - a
      BY <2>6, <3>2 DEF Receive
    <3>3. Elsewhere' = e + a - b
      BY <2>3, <2>4, <3>1, <3>2a
    <3>4. e + a - b = e + a /\ (n - a) + a >= n
      BY ONLY <2>5, <3>1
    <3> QED BY <3>1, <3>2a, <3>3, <3>4
  <2>7. ASSUME Withdraw(d) PROVE \E z \in Nat : Elsewhere' = Elsewhere + z /\ debt' + z >= debt
    <3>1. PICK v : v = [direct[d] EXCEPT !.st = "void"]
      OBVIOUS
    <3>2. v.amt = b
      BY <2>4, <3>1 DEF TypeOK
    <3>2a. direct' = [direct EXCEPT ![d] = v] /\ n2 = n + b
      BY <2>4, <2>7, <3>1 DEF Withdraw, TypeOK
    <3>3. Elsewhere' = e + b - b
      BY <2>3, <2>4, <3>2, <3>2a
    <3>4. e + b - b = e + 0 /\ (n + b) + 0 >= n
      BY ONLY <2>5, b \in Nat
    <3> QED BY <3>2a, <3>3, <3>4
  <2> QED BY <2>6, <2>7
<1>6. PICK a \in Nat : Elsewhere' = Elsewhere + a /\ debt' + a >= debt
  BY <1>5
<1>7. Owing'
  <2> PICK e, w : e = Elsewhere /\ w = Worth(Posted)
    OBVIOUS
  <2>1. e \in Nat /\ w \in Nat
    BY NumbersAre DEF Numbers
  <2>2. (e + a) + w = e + w + a
    BY ONLY <2>1, a \in Nat
  <2>3. Elsewhere' + Worth(Posted)' = Elsewhere + Worth(Posted) + a
    BY <1>4, <1>6, <2>2
  <2>4. \A q \in Proc : proc'[q].at = "read" => (proc[q].at = "read" /\ proc'[q].amt = proc[q].amt) \/ proc'[q].amt = debt'
    BY <1>1
  <2> QED BY <1>4, <1>6, <2>3, <2>4, OwingStep DEF SoundFacts
<1>8. Giving'
  <2> PICK s, w, e, m : s = AllSettled /\ w = Worth(Tills) /\ e = Elsewhere /\ m = Missed
    OBVIOUS
  <2>1. s \in Nat /\ w \in Nat /\ e \in Nat /\ m \in Nat
    BY NumbersAre DEF Numbers
  <2>2. s <= s + 0 /\ w + (e + a) + m >= (w + e + m) + 0
    BY ONLY <2>1, a \in Nat
  <2>3. Backing = w + e + m /\ Backing' = w + (e + a) + m
    BY <1>1, <1>4, <1>6, MissedSame DEF Backing
  <2>4. AllSettled' <= AllSettled + 0 /\ Backing' >= Backing + 0
    BY <1>4, <2>2, <2>3
  <2>5. \A q \in Proc : Applying(proc'[q]) => proc'[q] = proc[q]
    BY <1>1
  <2> QED BY <2>4, <2>5, GivingStep DEF SoundFacts
<1> QED BY <1>2, <1>3, <1>7, <1>8 DEF SoundFacts

----------------------------------------------------------------------------
SoundInv == Sound => SoundFacts

LEMMA SoundStart == Init => SoundInv
<1> SUFFICES ASSUME Init PROVE SoundFacts
  BY DEF SoundInv
<1>1. TypeOK
  BY TypeStart
<1>2. (\A p \in Proc : proc[p].at = "idle" /\ proc[p].row = 0) /\ \A r \in Row : row[r].st = "none"
  BY IdleIs, NoRowIs DEF Init
<1>3. Orderly
  BY <1>2 DEF Orderly, Apart, WorkFacts, Holds, Fresh, Reversing, Passing
<1>4. Tills = {} /\ Posted = {} /\ \A o : Counted(o) = {}
  BY <1>2 DEF Tills, Posted, Counted, Used
<1>5. Worth({}) = 0 /\ \A o \in Order : Collected(o) = 0
  BY <1>4, SumEmpty DEF Worth, Collected
<1>6. Elsewhere = 0
  <2> PICK f : f = [d \in Direct |-> direct[d].amt]
    OBVIOUS
  <2>1. \A d \in Direct : f[d] = 0
    BY DEF Init
  <2> QED BY <2>1, NamesAssumption, SumZero DEF Elsewhere
<1>7. AllSettled = 0
  <2> PICK f : f = SettledOf(scene.price, Collections)
    OBVIOUS
  <2>1. ASSUME NEW o \in Order PROVE f[o] = 0
    <3>1. f[o] = Lesser(scene.price[o], 0) /\ scene.price[o] \in Nat
      BY <1>1, <1>5, Prices DEF SettledOf, Collections
    <3> QED BY <3>1 DEF Lesser
  <2> QED BY <2>1, Sizes, SumZero DEF AllSettled
<1>8. debt >= Total /\ debt \in Nat /\ Total \in Nat
  <2>1. Total \in Nat /\ debt \in Nat
    BY <1>1, NumbersAre DEF Numbers, TypeOK
  <2>2. SumFunction(scene.price) = Total
    BY <1>1, Prices DEF SumFunction, Total
  <2>3. debt = Total + 1 \/ debt = Total + 0
    BY <2>2 DEF Init
  <2> QED BY <2>1, <2>3
<1>9. Owing
  BY <1>2, <1>4, <1>5, <1>6, <1>8 DEF Owing
<1>10. Counting
  <2>1. ASSUME NEW o \in Order PROVE Collected(o) <= Known(o)
    <3>1. Known(o) \in Nat /\ Collected(o) = 0
      BY <1>1, <1>5, NumbersAre DEF Numbers
    <3> QED BY <3>1
  <2> QED BY <2>1 DEF Counting
<1>11. Giving
  <2>1. Backing \in Nat
    BY <1>1, NumbersAre DEF Numbers
  <2>2. \A q \in Proc : ~Applying(proc[q])
    BY <1>2 DEF Applying
  <2> QED BY <1>7, <2>1, <2>2 DEF Giving
<1> QED BY <1>3, <1>9, <1>10, <1>11 DEF SoundFacts

LEMMA NoHazard == ASSUME Sound PROVE ~May("void") /\ ~May("overlap") /\ ~Mishap("crash")
BY DEF Sound, Mishap, May

LEMMA SoundInductive == SafeInv /\ TypeOK /\ TypeOK' /\ Blank /\ SoundInv /\ [Next]_vars => SoundInv'
<1> SUFFICES ASSUME SafeInv, TypeOK, TypeOK', Blank, SoundInv, [Next]_vars, Sound' PROVE SoundFacts'
  BY DEF SoundInv
<1>1. UNCHANGED scene
  BY SceneStays
<1>2. Sound /\ SoundFacts /\ ~May("void") /\ ~May("overlap") /\ ~Mishap("crash")
  BY <1>1, NoHazard DEF Sound, SoundInv
<1>3. CASE UNCHANGED vars
  <2>1. Orderly'
    BY <1>2, <1>3, OrderlyStays DEF vars, SoundFacts
  <2>2. Owing' /\ Counting' /\ Giving'
    <3>1. Counting'
      BY <1>2, <1>3, CountingStays DEF vars, SoundFacts
    <3>2. /\ Posted' = Posted /\ Worth(Posted)' = Worth(Posted) /\ Worth(Tills)' = Worth(Tills) /\ Total' = Total
          /\ Elsewhere' = Elsewhere /\ AllSettled' = AllSettled /\ Backing' = Backing /\ proc' = proc /\ debt' = debt
      BY <1>3 DEF vars, Backing, Missed, Posted, Worth, Amount, Tills, Used, Total, Elsewhere, AllSettled, Collections,
         Collected, Counted
    <3> QED BY <1>2, <3>1, <3>2 DEF SoundFacts, Owing, Giving, Applying, Left, Share
  <2> QED BY <2>1, <2>2 DEF SoundFacts
<1>4. CASE Treasury
  BY <1>2, <1>4, SoundDirect DEF Treasury
<1>5. ASSUME NEW p \in Proc, Till(p) PROVE SoundFacts'
  BY <1>2, <1>5, SoundSettle DEF Till, LoadForVoid
<1>6. ASSUME NEW p \in Proc, Serve(p) PROVE SoundFacts'
  <2>1. ~VoidPayment(p) /\ ~VoidARReceipt(p)
    BY <1>2 DEF SoundFacts, Orderly, WorkFacts, Reversing, VoidPayment, VoidARReceipt
  <2> QED BY <1>2, <1>6, <2>1, SoundInsert, SoundRecount, SoundPost, SoundMark, SoundRead, SoundApply, SoundUndo DEF Serve
<1>7. ASSUME NEW p \in Proc, Worker(p) PROVE SoundFacts'
  BY <1>2, <1>7, SoundRetry, SoundBegin DEF Worker
<1>8. ASSUME NEW p \in Proc, Crash(p) PROVE SoundFacts'
  BY <1>2, <1>8 DEF Crash
<1> QED BY <1>3, <1>4, <1>5, <1>6, <1>7, <1>8 DEF Next

\* What the orders show as settled was received, for any number of orders, requests and receipts,
\* while nobody dies, nothing is voided and one pass runs at a time, but for what was recorded and then
\* missed by a recount that failed (ar_reconcile.go:171, 213; credit_settlement.go:208).
THEOREM SettledStaysReceived == Spec => []SettledWasReceived
<1>1. SafeInv /\ TypeOK /\ SoundInv => SettledWasReceived
  <2> SUFFICES ASSUME TypeOK, SoundInv, Sound PROVE SumFunction([o \in Order |-> Settled(o)]) <= Received + SumFunction(missed)
    BY DEF SettledWasReceived
  <2>1. SoundFacts
    BY DEF SoundInv
  <2>2. {r \in Tills : row[r].st = "completed"} = Tills
    <3>1. \A r \in Row : row[r].st \in {"none", "completed", "voided"}
      BY DEF TypeOK
    <3> QED BY <2>1, <3>1, TillsAre DEF SoundFacts, Orderly
  <2>3. Received = Worth(Tills) + Elsewhere
    <3> PICK f : f = [d \in Direct |-> direct[d].amt]
      OBVIOUS
    <3>1. DOMAIN f = Direct
      OBVIOUS
    <3> QED BY <2>2, <3>1 DEF Received, Elsewhere, SumFunction
  <2>4. SumFunction([o \in Order |-> Settled(o)]) = AllSettled
    <3> PICK f : f = [o \in Order |-> Settled(o)]
      OBVIOUS
    <3>1. DOMAIN f = Order /\ f = SettledOf(scene.price, Collections)
      BY DEF SettledOf, Collections, Settled
    <3> QED BY <3>1 DEF SumFunction, AllSettled
  <2>5. SumFunction(missed) = Missed
    <3>1. DOMAIN missed = Order
      BY DEF TypeOK
    <3> QED BY <3>1 DEF Missed, SumFunction
  <2> QED BY <2>1, <2>3, <2>4, <2>5 DEF SoundFacts, Giving, Backing
<1> QED BY Start, Inductive, TypeStart, TypeInductive, BlankStart, BlankInductive, SoundStart, SoundInductive, <1>1, PTL DEF Spec
=============================================================================
