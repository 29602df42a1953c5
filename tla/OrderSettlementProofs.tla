----------------------- MODULE OrderSettlementProofs -----------------------
(***************************************************************************)
(* What is proved of one order while it is paid for, for any requests,      *)
(* amounts and tolerance: type correctness with what a request's place says *)
(* of its row and lock (Shape), one completion claim per opening            *)
(* (ClaimInv), the till within the order's worth (TillInv), completion only *)
(* on payments that cover it (CoverInv), and that the sums the handlers     *)
(* read are those of the payment rows.                                      *)
(***************************************************************************)
EXTENDS OrderSettlement, FiniteSetTheorems, WellFoundedInduction, TLAPS

Shape == TypeOK /\ KindsInPlace /\ RowsInPlace

LEMMA GotoType ==
  ASSUME TypeOK, NEW r \in Req, NEW l \in Pcs, Goto(r, l)
  PROVE  rq' \in [Req -> Request]
  BY DEF TypeOK, Goto, Request

\* The updates of more than one field of a request that the actions make.
LEMMA SumsType ==
  ASSUME TypeOK, NEW r \in Req, NEW l \in Pcs, NEW c \in Int, NEW s \in Int,
         rq' = [rq EXCEPT ![r].pc = l, ![r].col = c, ![r].set = s]
  PROVE  rq' \in [Req -> Request]
<1>1. rq \in [Req -> Request]
  BY DEF TypeOK
<1>2. [[[rq[r] EXCEPT !.pc = l] EXCEPT !.col = c] EXCEPT !.set = s] \in Request
  BY <1>1 DEF Request
<1>3. rq' = [rq EXCEPT ![r] = [[[rq[r] EXCEPT !.pc = l] EXCEPT !.col = c] EXCEPT !.set = s]]
  BY <1>1
<1> QED BY <1>1, <1>2, <1>3

LEMMA ClampType ==
  ASSUME TypeOK, NEW r \in Req, NEW l \in Pcs, NEW n \in Nat, NEW a \in Nat,
         rq' = [rq EXCEPT ![r].pc = l, ![r].ret = n, ![r].amt = a]
  PROVE  rq' \in [Req -> Request]
<1>1. rq \in [Req -> Request]
  BY DEF TypeOK
<1>2. [[[rq[r] EXCEPT !.pc = l] EXCEPT !.ret = n] EXCEPT !.amt = a] \in Request
  BY <1>1 DEF Request
<1>3. rq' = [rq EXCEPT ![r] = [[[rq[r] EXCEPT !.pc = l] EXCEPT !.ret = n] EXCEPT !.amt = a]]
  BY <1>1
<1> QED BY <1>1, <1>2, <1>3

LEMMA ReturnsType ==
  ASSUME TypeOK, NEW r \in Req, NEW l \in Pcs, NEW n \in Nat,
         rq' = [rq EXCEPT ![r].pc = l, ![r].ret = n]
  PROVE  rq' \in [Req -> Request]
<1>1. rq \in [Req -> Request]
  BY DEF TypeOK
<1>2. [[rq[r] EXCEPT !.pc = l] EXCEPT !.ret = n] \in Request
  BY <1>1 DEF Request
<1>3. rq' = [rq EXCEPT ![r] = [[rq[r] EXCEPT !.pc = l] EXCEPT !.ret = n]]
  BY <1>1
<1> QED BY <1>1, <1>2, <1>3

LEMMA AmountType ==
  ASSUME TypeOK, NEW r \in Req, NEW l \in Pcs, NEW a \in Nat,
         rq' = [rq EXCEPT ![r].pc = l, ![r].amt = a]
  PROVE  rq' \in [Req -> Request]
<1>1. rq \in [Req -> Request]
  BY DEF TypeOK
<1>2. [[rq[r] EXCEPT !.pc = l] EXCEPT !.amt = a] \in Request
  BY <1>1 DEF Request
<1>3. rq' = [rq EXCEPT ![r] = [[rq[r] EXCEPT !.pc = l] EXCEPT !.amt = a]]
  BY <1>1
<1> QED BY <1>1, <1>2, <1>3

LEMMA SnapshotType ==
  ASSUME TypeOK, NEW r \in Req, NEW l \in Pcs, NEW st \in Status, NEW n \in Nat,
         rq' = [rq EXCEPT ![r].pc = l, ![r].stat = st, ![r].total = n]
  PROVE  rq' \in [Req -> Request]
<1>1. rq \in [Req -> Request]
  BY DEF TypeOK
<1>2. [[[rq[r] EXCEPT !.pc = l] EXCEPT !.stat = st] EXCEPT !.total = n] \in Request
  BY <1>1 DEF Request
<1>3. rq' = [rq EXCEPT ![r] = [[[rq[r] EXCEPT !.pc = l] EXCEPT !.stat = st] EXCEPT !.total = n]]
  BY <1>1
<1> QED BY <1>1, <1>2, <1>3

LEMMA BeginType ==
  ASSUME SettlementAssumption, TypeOK, NEW r \in Req, NEW k, NEW first \in Pcs, NEW amt \in Nat,
         NEW tgt \in Req \cup {NoReq}, Begin(r, k, first, amt, tgt)
  PROVE  TypeOK'
<1>1. k \in AllKinds
  BY DEF Begin, SettlementAssumption
<1>2. [pc |-> first, kind |-> k, stat |-> status, total |-> total,
       amt |-> amt, col |-> 0, set |-> 0, ret |-> 0, tgt |-> tgt] \in Request
  BY <1>1 DEF TypeOK, Request
<1>3. rq' \in [Req -> Request]
  BY <1>2 DEF TypeOK, Begin
<1> QED
  BY <1>3 DEF TypeOK, Begin, order, ghost

LEMMA SetStatusType ==
  ASSUME TypeOK, NEW s \in Status, SetStatus(s)
  PROVE  status' \in Status /\ reopened' \in Nat
  BY DEF TypeOK, SetStatus

LEMMA AddRowType ==
  ASSUME TypeOK, NEW r \in Req, rq[r].kind \in Tenders \cup {"settle"}, AddRow(r)
  PROVE  pay' \in [Req -> Row] /\ sums' \in [Method -> Int]
<1>1. MethodOf(rq[r].kind) \in Method
  BY DEF MethodOf, Method, Locked, Tenders
<1>2. rq[r].amt \in Nat
  BY DEF TypeOK, Request
<1> QED
  BY <1>1, <1>2 DEF TypeOK, AddRow, Row

LEMMA TypeStep ==
  ASSUME SettlementAssumption, Shape, Next
  PROVE  TypeOK'
<1> USE SettlementAssumption DEF Shape
<1>1. ASSUME NEW r \in Req, Begins(r) PROVE TypeOK'
  <2>1. CASE BeginTender(r)
    <3>1. PICK k \in Tenders, a \in Amounts : Begin(r, k, "read", a, NoReq)
      BY <2>1 DEF BeginTender
    <3> QED BY <3>1, BeginType DEF Pcs, SettlementAssumption
  <2>2. CASE BeginSettle(r)
    <3>1. PICK a \in Amounts : Begin(r, "settle", "read", a, NoReq)
      BY <2>2 DEF BeginSettle
    <3> QED BY <3>1, BeginType DEF Pcs, SettlementAssumption
  <2>3. CASE BeginVoidPayment(r)
    <3>1. PICK p \in Req : Begin(r, "void_payment", "mark", 0, p)
      BY <2>3 DEF BeginVoidPayment
    <3> QED BY <3>1, BeginType DEF Pcs
  <2>4. CASE BeginReprice(r)
    <3>1. PICK k \in Repricers : Begin(r, k, "reprice", 0, NoReq)
      BY <2>4 DEF BeginReprice
    <3> QED BY <3>1, BeginType DEF Pcs
  <2>5. CASE BeginSetStatus(r)
    BY <2>5, BeginType DEF BeginSetStatus, Pcs
  <2>6. CASE BeginVoidOrder(r)
    BY <2>6, BeginType DEF BeginVoidOrder, Pcs
  <2>7. CASE BeginDeleteDraft(r)
    BY <2>7, BeginType DEF BeginDeleteDraft, Pcs
  <2>8. CASE BeginRecheck(r)
    BY <2>8, BeginType DEF BeginRecheck, Pcs
  <2> QED
    BY <1>1, <2>1, <2>2, <2>3, <2>4, <2>5, <2>6, <2>7, <2>8 DEF Begins
<1>2. ASSUME NEW r \in Req, Continue(r) PROVE TypeOK'
  <2>1. CASE RecomputeRead(r)
    <3>1. Collected \in Int /\ Settled \in Int
      BY DEF TypeOK, Collected, Settled, Method
    <3>2. PICK l \in {"write", "rewrite"} :
            rq' = [rq EXCEPT ![r].pc = l, ![r].col = Collected, ![r].set = Settled]
      BY <2>1 DEF RecomputeRead, TypeOK, Request
    <3>3. rq' \in [Req -> Request]
      BY <3>1, <3>2, SumsType DEF Pcs
    <3> QED BY <2>1, <3>3 DEF TypeOK, RecomputeRead, order, ghost
  <2>2. CASE RecomputeWrite(r)
    <3>1. AfterRewrite(rq[r]) \in Pcs
      BY DEF AfterRewrite, Pcs
    <3>2. rq' \in [Req -> Request]
      BY <2>2, <3>1, GotoType DEF RecomputeWrite, Pcs
    <3>3. rq[r].col \in Int
      BY DEF TypeOK, Request
    <3> QED BY <2>2, <3>2, <3>3 DEF TypeOK, RecomputeWrite, ghost
  <2>3. CASE Clamp(r)
    <3> DEFINE outstanding == rq[r].total - rq[r].col - returned
    <3>1. outstanding \in Int /\ rq[r].amt \in Nat /\ Tol \in Nat
      BY DEF TypeOK, Request, SettlementAssumption
    <3>2. CASE NothingDue(rq[r], outstanding)
      <4>1. rq' \in [Req -> Request]
        BY <2>3, <3>2, GotoType DEF Clamp, Pcs
      <4> QED BY <2>3, <4>1 DEF TypeOK, Clamp, order, ghost
    <3>3. CASE ~NothingDue(rq[r], outstanding)
      <4>1. Clamped(rq[r], outstanding) \in Nat
        BY <3>1, <3>3 DEF Clamped, NothingDue
      <4>2. PICK next \in {"returns", "lock", "book", "insert"} :
              rq' = [rq EXCEPT ![r].pc = next, ![r].ret = returned,
                               ![r].amt = Clamped(rq[r], outstanding)]
        BY <2>3, <3>3 DEF Clamp
      <4>3. rq' \in [Req -> Request]
        <5>1. returned \in Nat /\ next \in Pcs
          BY DEF TypeOK, Pcs
        <5> QED BY <4>1, <4>2, <5>1, ClampType
      <4> QED BY <2>3, <4>3 DEF TypeOK, Clamp, order, ghost
    <3> QED BY <3>2, <3>3
  <2>4. CASE ReadReturns(r)
    <3>1. rq' \in [Req -> Request]
      BY <2>4, ReturnsType DEF TypeOK, ReadReturns, Pcs
    <3> QED BY <2>4, <3>1 DEF TypeOK, ReadReturns, order, ghost
  <2>5. CASE LockAndCheck(r)
    <3> DEFINE fresh == FreshOutstanding(rq[r])
    <3>1. fresh \in Int /\ rq[r].amt \in Nat /\ Tol \in Nat
      BY DEF TypeOK, Request, SettlementAssumption, FreshOutstanding, Collected, Method
    <3>2. CASE NothingDue(rq[r], fresh)
      <4>1. rq' \in [Req -> Request] /\ lock' = NoReq
        BY <2>5, <3>2, GotoType DEF LockAndCheck, Pcs, LockAfterReject
      <4> QED BY <2>5, <4>1 DEF TypeOK, LockAndCheck, order, ghost
    <3>3. CASE ~NothingDue(rq[r], fresh)
      <4> DEFINE amt == IF rq[r].amt > fresh + Tol THEN fresh ELSE rq[r].amt
      <4>1. amt \in Nat
        BY <3>1, <3>3 DEF NothingDue
      <4>2. lock' = r /\ rq' = [rq EXCEPT ![r].pc = "commit", ![r].amt = amt]
        BY <2>5, <3>3 DEF LockAndCheck
      <4> HIDE DEF amt
      <4>3. rq' \in [Req -> Request]
        BY <4>1, <4>2, AmountType DEF Pcs
      <4> QED BY <2>5, <4>2, <4>3 DEF TypeOK, LockAndCheck, order, ghost
    <3> QED BY <3>2, <3>3
  <2>6. CASE CommitLocked(r) \/ InsertRow(r)
    <3>1. rq[r].kind \in Tenders \cup {"settle"} /\ AddRow(r)
      BY <2>6 DEF CommitLocked, InsertRow, KindsInPlace, KindFits, BeforeRow, At
    <3>2. pay' \in [Req -> Row] /\ sums' \in [Method -> Int]
      BY <3>1, AddRowType
    <3>3. rq' \in [Req -> Request]
      BY <2>6, GotoType DEF CommitLocked, InsertRow, Pcs
    <3>4. lock' \in {lock, NoReq}
      BY <2>6 DEF CommitLocked, InsertRow
    <3>5. UNCHANGED <<order, returned, ghost>>
      BY <2>6 DEF CommitLocked, InsertRow
    <3> QED BY <3>2, <3>3, <3>4, <3>5 DEF TypeOK, order, ghost
  <2>7. CASE BookCredit(r)
    <3>1. rq' \in [Req -> Request]
      BY <2>7, GotoType DEF BookCredit, Pcs
    <3>2. onAccount' = TRUE \/ onAccount' = onAccount
      BY <2>7 DEF BookCredit
    <3>3. UNCHANGED <<status, total, paidTotal, pay, sums, returned, lock, ghost>>
      BY <2>7 DEF BookCredit
    <3>4. onAccount' \in BOOLEAN
      BY <3>2, Zenon DEF TypeOK
    <3> QED BY <3>1, <3>4, <3>3 DEF TypeOK, ghost
  <2>8. CASE ClaimCompletion(r)
    <3>1. rq' \in [Req -> Request]
      BY <2>8, GotoType DEF ClaimCompletion, Pcs
    <3>2. status' \in Status /\ reopened' \in Nat /\ dispatched' \in Nat
      BY <2>8, SetStatusType DEF ClaimCompletion, TypeOK, Status
    <3> QED BY <2>8, <3>1, <3>2 DEF TypeOK, ClaimCompletion
  <2>9. CASE MarkVoided(r)
    <3>1. rq' \in [Req -> Request]
      BY <2>9, GotoType DEF MarkVoided, Pcs
    <3>2. PICK p \in Req :
            /\ pay' = [pay EXCEPT ![p].st = "voided"]
            /\ sums' = [sums EXCEPT ![pay[p].meth] = @ - VoidedAmount(p)]
      BY <2>9 DEF MarkVoided, At, RowsInPlace, RowFits
    <3>3. VoidedAmount(p) \in Int
      BY DEF TypeOK, Row, VoidedAmount
    <3>4. pay' \in [Req -> Row] /\ sums' \in [Method -> Int]
      BY <3>2, <3>3 DEF TypeOK, Row
    <3> QED BY <2>9, <3>1, <3>4 DEF TypeOK, MarkVoided, order, ghost
  <2>10. CASE ReloadForReopen(r)
    <3>1. rq' \in [Req -> Request]
      BY <2>10, GotoType DEF ReloadForReopen, Pcs
    <3> QED BY <2>10, <3>1 DEF TypeOK, ReloadForReopen, order, ghost
  <2>11. CASE Reopen(r) \/ VoidOrder(r) \/ UpdateStatus(r)
    <3>1. rq' \in [Req -> Request]
      BY <2>11, GotoType DEF Reopen, VoidOrder, UpdateStatus, Pcs
    <3>2. PICK s \in Status : SetStatus(s)
      BY <2>11 DEF Reopen, VoidOrder, UpdateStatus, Status, SettlementAssumption
    <3>3. UNCHANGED <<total, paidTotal, onAccount, pay, sums, returned, lock, dispatched, peak>>
      BY <2>11 DEF Reopen, VoidOrder, UpdateStatus
    <3> QED BY <3>1, <3>2, <3>3, SetStatusType DEF TypeOK
  <2>12. CASE Reprice(r)
    <3>1. rq' \in [Req -> Request]
      BY <2>12, GotoType DEF Reprice, Pcs
    <3>2. total' \in Nat /\ peak' \in Nat
      BY <2>12 DEF Reprice, Greater, SettlementAssumption, TypeOK
    <3>3. status' \in Status /\ reopened' \in Nat
      BY <2>12, SetStatusType DEF Reprice, TypeOK, Status
    <3> QED BY <2>12, <3>1, <3>2, <3>3 DEF TypeOK, Reprice
  <2>13. CASE RefuseReprice(r) \/ OrderGone(r)
    <3>1. rq' \in [Req -> Request]
      BY <2>13, GotoType DEF RefuseReprice, OrderGone, Pcs
    <3> QED BY <2>13, <3>1 DEF TypeOK, RefuseReprice, OrderGone, order, ghost
  <2>14. CASE RecheckAfterReprice(r)
    <3>1. rq' \in [Req -> Request]
      BY <2>14, SnapshotType DEF RecheckAfterReprice, TypeOK, Pcs
    <3> QED BY <2>14, <3>1 DEF TypeOK, RecheckAfterReprice, order, ghost
  <2>15. CASE HardDeleteDraft(r)
    <3>1. rq' \in [Req -> Request]
      BY <2>15, GotoType DEF HardDeleteDraft, Pcs
    <3>2. status' \in Status /\ reopened' \in Nat
      BY <2>15, SetStatusType DEF HardDeleteDraft, Status
    <3>3. pay' \in [Req -> Row] /\ sums' \in [Method -> Int]
      BY <2>15 DEF HardDeleteDraft, Row, NoRow, Method
    <3> QED BY <2>15, <3>1, <3>2, <3>3 DEF TypeOK, HardDeleteDraft
  <2> QED
    BY <1>2, <2>1, <2>2, <2>3, <2>4, <2>5, <2>6, <2>7, <2>8, <2>9, <2>10, <2>11, <2>12,
       <2>13, <2>14, <2>15 DEF Continue
<1>3. ASSUME NEW r \in Req, Crash(r) PROVE TypeOK'
  <2>1. rq' \in [Req -> Request]
    BY <1>3, GotoType DEF Crash, Pcs
  <2> QED BY <1>3, <2>1 DEF TypeOK, Crash, order, ghost
<1>4. CASE ReleaseHeldOrder
  BY <1>4, SetStatusType DEF TypeOK, ReleaseHeldOrder, Status
<1>5. CASE CompleteReturn
  BY <1>5 DEF TypeOK, CompleteReturn, order, ghost, SettlementAssumption
<1> QED
  BY <1>1, <1>2, <1>3, <1>4, <1>5 DEF Next

----------------------------------------------------------------------------
(* What a request may change of the others, and of the rows.                *)

\* Only the request that acts moves, and its kind changes only when it begins.
LEMMA OthersStay ==
  ASSUME TypeOK, NEW r \in Req, Begins(r) \/ Continue(r) \/ Crash(r)
  PROVE  \A o \in Req \ {r} : rq'[o] = rq[o]
<1>1. CASE Begins(r)
  BY <1>1 DEF TypeOK, Begins, BeginTender, BeginSettle, BeginVoidPayment, BeginReprice,
     BeginSetStatus, BeginVoidOrder, BeginDeleteDraft, BeginRecheck, Begin
<1>2. CASE Continue(r)
  BY <1>2 DEF TypeOK, Continue, Goto, RecomputeRead, RecomputeWrite, Clamp, ReadReturns,
     LockAndCheck, CommitLocked, BookCredit, InsertRow, ClaimCompletion, MarkVoided,
     ReloadForReopen, Reopen, Reprice, RefuseReprice, RecheckAfterReprice, UpdateStatus,
     VoidOrder, HardDeleteDraft, OrderGone
<1>3. CASE Crash(r)
  BY <1>3 DEF TypeOK, Crash, Goto
<1> QED BY <1>1, <1>2, <1>3

\* A request that continues keeps its kind, and its place fits its kind.
LEMMA KindsStep ==
  ASSUME SettlementAssumption, Shape, Next
  PROVE  KindsInPlace'
<1> USE DEF Shape
<1>1. ASSUME NEW r \in Req, Begins(r) \/ Continue(r) \/ Crash(r), KindFits(rq'[r])
      PROVE  KindsInPlace'
  BY <1>1, OthersStay DEF KindsInPlace
<1>2. ASSUME NEW r \in Req, Begins(r) PROVE KindFits(rq'[r])
  BY <1>2 DEF TypeOK, Begins, BeginTender, BeginSettle, BeginVoidPayment, BeginReprice,
     BeginSetStatus, BeginVoidOrder, BeginDeleteDraft, BeginRecheck, Begin, KindFits,
     BeforeRow, Tenders, Locked
<1>3. ASSUME NEW r \in Req, Continue(r) PROVE KindFits(rq'[r])
  <2>1. KindFits(rq[r])
    BY DEF KindsInPlace
  <2>2. rq[r] \in Request /\ rq \in [Req -> Request]
    BY DEF TypeOK
  <2>3. CASE RecomputeRead(r)
    BY <2>1, <2>2, <2>3 DEF RecomputeRead, Request, KindFits, BeforeRow
  <2>4. CASE RecomputeWrite(r)
    BY <2>1, <2>2, <2>4 DEF RecomputeWrite, Goto, At, AfterRewrite, Request, KindFits, BeforeRow
  <2>5. CASE Clamp(r)
    BY <2>1, <2>2, <2>5 DEF Clamp, Goto, At, Request, KindFits, BeforeRow, Locked, Tenders
  <2>6. CASE ReadReturns(r)
    BY <2>1, <2>2, <2>6 DEF ReadReturns, At, Request, KindFits, BeforeRow
  <2>7. CASE LockAndCheck(r)
    BY <2>1, <2>2, <2>7 DEF LockAndCheck, Goto, At, Request, KindFits, BeforeRow
  <2>8. CASE BookCredit(r)
    BY <2>1, <2>2, <2>8 DEF BookCredit, Goto, At, Request, KindFits, BeforeRow
  <2>9. CASE RecheckAfterReprice(r)
    BY <2>1, <2>2, <2>9 DEF RecheckAfterReprice, Request, KindFits, BeforeRow
  <2>10. ASSUME NEW l \in Pcs \ BeforeRow, Goto(r, l) PROVE KindFits(rq'[r])
    BY <2>1, <2>2, <2>10 DEF Goto, Request, KindFits, BeforeRow
  <2>11. CASE CommitLocked(r) \/ InsertRow(r) \/ ClaimCompletion(r) \/ MarkVoided(r)
              \/ ReloadForReopen(r) \/ Reopen(r) \/ Reprice(r) \/ RefuseReprice(r)
              \/ UpdateStatus(r) \/ VoidOrder(r) \/ HardDeleteDraft(r) \/ OrderGone(r)
    <3>1. PICK l \in {"reread", "done", "reopen", "recheck"} : Goto(r, l)
      BY <2>11 DEF CommitLocked, InsertRow, ClaimCompletion, MarkVoided, ReloadForReopen,
         Reopen, Reprice, RefuseReprice, UpdateStatus, VoidOrder, HardDeleteDraft, OrderGone
    <3> QED BY <3>1, <2>10 DEF Pcs, BeforeRow
  <2> QED
    BY <1>3, <2>3, <2>4, <2>5, <2>6, <2>7, <2>8, <2>9, <2>11 DEF Continue
<1>4. ASSUME NEW r \in Req, Crash(r) PROVE KindFits(rq'[r])
  BY <1>4 DEF TypeOK, KindsInPlace, Crash, Goto, Request, KindFits, BeforeRow
<1>5. CASE ReleaseHeldOrder \/ CompleteReturn
  BY <1>5 DEF ReleaseHeldOrder, CompleteReturn, KindsInPlace
<1> QED
  BY <1>1, <1>2, <1>3, <1>4, <1>5 DEF Next

AddsRow(r) == CommitLocked(r) \/ InsertRow(r)

\* Every other step leaves the rows and their sums alone.
LEMMA RowsUntouched ==
  ASSUME NEW r \in Req, Begins(r) \/ Continue(r) \/ Crash(r), ~AddsRow(r),
         ~MarkVoided(r), ~HardDeleteDraft(r)
  PROVE  UNCHANGED <<pay, sums>>
BY DEF Begins, BeginTender, BeginSettle, BeginVoidPayment, BeginReprice,
   BeginSetStatus, BeginVoidOrder, BeginDeleteDraft, BeginRecheck, Begin, Continue, Crash,
   AddsRow, RecomputeRead, RecomputeWrite, Clamp, ReadReturns, LockAndCheck, BookCredit,
   ClaimCompletion, ReloadForReopen, Reopen, Reprice, RefuseReprice, UpdateStatus,
   VoidOrder, RecheckAfterReprice, OrderGone

\* The payment rows change in three ways only: the acting request inserts its row, a row
\* that exists is marked, or the deleted order takes all of them.
LEMMA PayMoves ==
  ASSUME Shape, NEW r \in Req, Begins(r) \/ Continue(r) \/ Crash(r), NEW o \in Req
  PROVE  \/ pay'[o] = pay[o]
         \/ o = r /\ AddsRow(r)
         \/ pay[o].st # "none" /\ pay'[o].st # "none" /\ pay'[o].meth = pay[o].meth
         \/ status' = "deleted" /\ pay'[o] = NoRow
<1> USE DEF Shape
<1>1. CASE Begins(r) \/ Crash(r)
  BY <1>1 DEF Begins, BeginTender, BeginSettle, BeginVoidPayment, BeginReprice,
     BeginSetStatus, BeginVoidOrder, BeginDeleteDraft, BeginRecheck, Begin, Crash
<1>2. CASE AddsRow(r)
  BY <1>2 DEF AddsRow, CommitLocked, InsertRow, AddRow, TypeOK
<1>3. CASE MarkVoided(r)
  BY <1>3 DEF MarkVoided, TypeOK, Row
<1>4. CASE HardDeleteDraft(r)
  BY <1>4 DEF HardDeleteDraft, SetStatus
<1>5. CASE Continue(r) /\ ~AddsRow(r) /\ ~MarkVoided(r) /\ ~HardDeleteDraft(r)
  BY <1>5 DEF AddsRow, Continue, RecomputeRead, RecomputeWrite, Clamp, ReadReturns,
     LockAndCheck, BookCredit, ClaimCompletion, ReloadForReopen, Reopen, Reprice,
     RefuseReprice, RecheckAfterReprice, UpdateStatus, VoidOrder, OrderGone
<1> QED BY <1>1, <1>2, <1>3, <1>4, <1>5

\* Nobody takes the row lock from its holder, and nobody deletes a locked order.
LEMMA LockMoves ==
  ASSUME Shape, NEW r \in Req, Begins(r) \/ Continue(r) \/ Crash(r)
  PROVE  /\ lock' = lock \/ lock = NoReq \/ lock = r
         /\ status = "deleted" => status' = "deleted"
         /\ status' = "deleted" => status = "deleted" \/ lock = NoReq
<1> USE DEF Shape
<1>1. CASE Begins(r) \/ Crash(r)
  BY <1>1 DEF Begins, BeginTender, BeginSettle, BeginVoidPayment, BeginReprice,
     BeginSetStatus, BeginVoidOrder, BeginDeleteDraft, BeginRecheck, Begin, Crash, order
<1>2. CASE CommitLocked(r)
  BY <1>2 DEF CommitLocked, At, RowsInPlace, RowFits, order
<1>3. CASE Continue(r) /\ ~CommitLocked(r)
  BY <1>3 DEF Continue, RecomputeRead, RecomputeWrite, Clamp, ReadReturns, LockAndCheck,
     BookCredit, InsertRow, ClaimCompletion, MayClaim, Settleable, MarkVoided,
     ReloadForReopen, Reopen, Reprice, RefuseReprice, RecheckAfterReprice, UpdateStatus,
     VoidOrder, HardDeleteDraft, OrderGone, Unlocked, SetStatus, order
<1> QED BY <1>1, <1>2, <1>3

\* Rows appear only where a request stands after its insert, and a row under a void keeps
\* its family.
LEMMA RowsStep ==
  ASSUME SettlementAssumption, Shape, TypeOK', Next
  PROVE  RowsInPlace'
<1> USE DEF Shape
<1>1. ASSUME NEW r \in Req, Begins(r) \/ Continue(r) \/ Crash(r), NEW o \in Req \ {r}
      PROVE  RowFits(o)'
  <2>1. rq'[o] = rq[o]
    BY <1>1, OthersStay
  <2>2. RowFits(o)
    BY DEF RowsInPlace
  <2>3. rq[o].pc \in BeforeRow \cup {"idle"} => pay'[o] = NoRow
    BY <1>1, <2>2, PayMoves DEF RowFits, NoRow
  <2>4. rq[o].pc = "commit" => lock' = o /\ status' # "deleted"
    BY <1>1, <2>2, LockMoves DEF RowFits, SettlementAssumption
  <2>5. ASSUME rq[o].pc = "mark"
        PROVE  /\ pay'[rq[o].tgt].meth \in Manual
               /\ pay'[rq[o].tgt].st # "none" \/ status' = "deleted"
    <3> DEFINE p == rq[o].tgt
    <3>1. p \in Req /\ pay[p].meth \in Manual /\ (pay[p].st # "none" \/ status = "deleted")
      BY <2>2, <2>5 DEF RowFits
    <3>2. ~(p = r /\ AddsRow(r))
      <4>1. SUFFICES ASSUME p = r, AddsRow(r) PROVE FALSE
        OBVIOUS
      <4>2. pay[r] = NoRow /\ status # "deleted"
        BY <4>1 DEF AddsRow, CommitLocked, InsertRow, At, RowsInPlace, RowFits, BeforeRow
      <4> QED BY <3>1, <4>1, <4>2 DEF NoRow
    <3>3. status = "deleted" => status' = "deleted"
      BY <1>1, LockMoves
    <3> QED BY <1>1, <3>1, <3>2, <3>3, PayMoves DEF NoRow, Manual
  <2> QED
    BY <2>1, <2>2, <2>3, <2>4, <2>5 DEF RowFits
<1>2. ASSUME NEW r \in Req, Begins(r) PROVE RowFits(r)'
  <2>1. pay' = pay /\ status' = status /\ pay[r] = NoRow
    BY <1>2 DEF Begins, BeginTender, BeginSettle, BeginVoidPayment, BeginReprice,
     BeginSetStatus, BeginVoidOrder, BeginDeleteDraft, BeginRecheck, Begin, order, At,
     RowsInPlace, RowFits
  <2>2. CASE BeginVoidPayment(r)
    BY <2>1, <2>2 DEF BeginVoidPayment, Begin, TypeOK, RowFits, BeforeRow
  <2>3. CASE ~BeginVoidPayment(r)
    BY <1>2, <2>1, <2>3 DEF Begins, BeginTender, BeginSettle, BeginReprice, BeginSetStatus,
       BeginVoidOrder, BeginDeleteDraft, BeginRecheck, Begin, TypeOK, RowFits, BeforeRow
  <2> QED BY <2>2, <2>3
<1>3. ASSUME NEW r \in Req, Continue(r) PROVE RowFits(r)'
  <2>1. RowFits(r)
    BY DEF RowsInPlace
  <2>2. rq[r] \in Request /\ rq \in [Req -> Request]
    BY DEF TypeOK
  <2>4. CASE RecomputeRead(r) \/ RecomputeWrite(r) \/ Clamp(r) \/ ReadReturns(r) \/ BookCredit(r)
    <3>1. pay' = pay /\ rq'[r].pc \notin {"commit", "mark", "idle"}
      BY <2>2, <2>4 DEF RecomputeRead, RecomputeWrite, Clamp, ReadReturns, BookCredit, Goto,
         AfterRewrite, Request
    <3>2. rq'[r].pc \in BeforeRow => rq[r].pc \in BeforeRow
      BY <2>2, <2>4 DEF RecomputeRead, RecomputeWrite, Clamp, ReadReturns, BookCredit, Goto,
         AfterRewrite, Request, At, BeforeRow
    <3> QED BY <2>1, <3>1, <3>2 DEF RowFits
  <2>5. CASE LockAndCheck(r)
    <3>1. rq[r].pc = "lock" /\ pay' = pay /\ status' = status /\ status # "deleted"
      BY <2>5 DEF LockAndCheck, At, order
    <3>2. CASE rq'[r].pc = "done"
      BY <3>2 DEF RowFits, BeforeRow
    <3>3. CASE rq'[r].pc = "commit" /\ lock' = r
      BY <2>1, <3>1, <3>3 DEF RowFits, BeforeRow
    <3> QED BY <2>2, <2>5, <3>2, <3>3 DEF LockAndCheck, Goto, Request
  <2>6. ASSUME NEW l \in {"reread", "done", "reopen", "recheck"}, rq'[r].pc = l
        PROVE  RowFits(r)'
    BY <2>6 DEF RowFits, BeforeRow
  <2>7. CASE CommitLocked(r) \/ InsertRow(r) \/ ClaimCompletion(r) \/ MarkVoided(r)
              \/ ReloadForReopen(r) \/ Reopen(r) \/ Reprice(r) \/ RefuseReprice(r)
              \/ RecheckAfterReprice(r)
              \/ UpdateStatus(r) \/ VoidOrder(r) \/ HardDeleteDraft(r) \/ OrderGone(r)
    <3>1. PICK l \in {"reread", "done", "reopen", "recheck"} : rq'[r].pc = l
      BY <2>2, <2>7 DEF CommitLocked, InsertRow, ClaimCompletion, MarkVoided, ReloadForReopen,
         Reopen, Reprice, RefuseReprice, UpdateStatus, VoidOrder, HardDeleteDraft, OrderGone,
         RecheckAfterReprice, Goto, Request
    <3> QED BY <3>1, <2>6
  <2> QED
    BY <1>3, <2>4, <2>5, <2>7 DEF Continue
<1>4. ASSUME NEW r \in Req, Crash(r) PROVE RowFits(r)'
  BY <1>4 DEF TypeOK, Crash, Goto, Request, RowFits, BeforeRow
<1>5. CASE ReleaseHeldOrder \/ CompleteReturn
  <2>1. pay' = pay /\ rq' = rq /\ lock' = lock /\ status # "deleted" /\ status' # "deleted"
    BY <1>5 DEF ReleaseHeldOrder, CompleteReturn, SetStatus, order
  <2> QED BY <2>1 DEF RowsInPlace, RowFits
<1>6. ASSUME NEW r \in Req, Begins(r) \/ Continue(r) \/ Crash(r) PROVE RowsInPlace'
  BY <1>1, <1>2, <1>3, <1>4, <1>6 DEF RowsInPlace
<1> QED
  BY <1>5, <1>6 DEF Next

----------------------------------------------------------------------------
\* The shape of the state: every variable has its type, and every request stands where
\* its kind, its row and its lock say it stands.
THEOREM ShapeInvariant ==
  ASSUME SettlementAssumption
  PROVE  Spec => []Shape
<1>1. Init => Shape
  <2> SUFFICES ASSUME Init PROVE Shape
    OBVIOUS
  <2>1. TypeOK
    <3>1. status \in Status /\ total \in Nat /\ paidTotal \in Int
      BY DEF SettlementAssumption, Init, Status
    <3>2. onAccount \in BOOLEAN
      BY DEF Init
    <3>3. pay \in [Req -> Row] /\ sums \in [Method -> Int]
      BY DEF Init, Row, NoRow, Method
    <3>4. rq \in [Req -> Request]
      BY DEF Init, Idle, Request, Pcs, Status, AllKinds, Tenders, Repricers
    <3>5. returned \in Nat /\ lock \in Req \cup {NoReq}
      BY DEF Init
    <3>6. dispatched \in Nat /\ reopened \in Nat /\ peak \in Nat
      BY DEF Init, SettlementAssumption
    <3> QED BY <3>1, <3>2, <3>3, <3>4, <3>5, <3>6 DEF TypeOK
  <2>2. KindsInPlace /\ RowsInPlace
    BY DEF Init, Idle, KindsInPlace, KindFits, RowsInPlace, RowFits, BeforeRow
  <2> QED BY <2>1, <2>2 DEF Shape
<1>2. Shape /\ [Next]_vars => Shape'
  <2> SUFFICES ASSUME Shape, [Next]_vars PROVE Shape'
    OBVIOUS
  <2>1. CASE Next
    BY <2>1, TypeStep, KindsStep, RowsStep DEF Shape
  <2>2. CASE UNCHANGED vars
    BY <2>2 DEF Shape, TypeOK, KindsInPlace, KindFits, RowsInPlace, RowFits, vars, order, ghost
  <2> QED BY <2>1, <2>2
<1> QED
  BY <1>1, <1>2, PTL DEF Spec

THEOREM TypeCorrect ==
  ASSUME SettlementAssumption
  PROVE  Spec => []TypeOK
<1>1. Shape => TypeOK
  BY DEF Shape
<1> QED BY <1>1, ShapeInvariant, PTL

----------------------------------------------------------------------------
(* SingleClaim                                                              *)

\* A status write keeps the claim balance: a closed order that becomes payable again is
\* counted, and an open one that stays open has its claim left.
LEMMA ClaimOnWrite ==
  ASSUME TypeOK, ClaimInv, NEW s \in Status, SetStatus(s), dispatched' = dispatched,
         status # "deleted", s # "awaiting_acceptance"
  PROVE  ClaimInv'
  BY DEF TypeOK, ClaimInv, SingleClaim, SetStatus, Status, Settleable, Closed

LEMMA ClaimStep ==
  ASSUME SettlementAssumption, Shape, ClaimInv, Next
  PROVE  ClaimInv'
<1> USE DEF Shape
<1>1. ASSUME NEW r \in Req, ClaimCompletion(r) PROVE ClaimInv'
  BY <1>1 DEF ClaimCompletion, MayClaim, SetStatus, TypeOK, ClaimInv, SingleClaim,
     Settleable, Closed
<1>2. ASSUME NEW r \in Req, Reopen(r) \/ VoidOrder(r) \/ HardDeleteDraft(r) PROVE ClaimInv'
  BY <1>2, ClaimOnWrite DEF Reopen, VoidOrder, HardDeleteDraft, Status
<1>3. ASSUME NEW r \in Req, UpdateStatus(r) PROVE ClaimInv'
  <2>1. PICK s \in ValidTransitions[rq[r].stat] \cap Targets : SetStatus(s)
    BY <1>3 DEF UpdateStatus
  <2>2. rq[r].stat \in Status
    BY DEF TypeOK, Request
  <2>3. s \in Status /\ s # "awaiting_acceptance"
    BY <2>1, <2>2 DEF ValidTransitions, Status
  <2> QED BY <1>3, <2>1, <2>3, ClaimOnWrite DEF UpdateStatus
<1>4. ASSUME NEW r \in Req, Reprice(r) PROVE ClaimInv'
  <2>1. SetStatus("open") \/ UNCHANGED <<status, reopened>>
    BY <1>4 DEF Reprice
  <2>2. dispatched' = dispatched /\ status # "deleted"
    BY <1>4 DEF Reprice
  <2> QED BY <2>1, <2>2, ClaimOnWrite DEF Status, ClaimInv, SingleClaim
<1>5. CASE ReleaseHeldOrder
  BY <1>5 DEF ReleaseHeldOrder, SetStatus, TypeOK, ClaimInv, SingleClaim, Settleable, Closed
<1>6. ASSUME UNCHANGED <<status, dispatched, reopened>> PROVE ClaimInv'
  BY <1>6 DEF ClaimInv, SingleClaim
<1>7. ASSUME NEW r \in Req, Begins(r) \/ Continue(r) \/ Crash(r), ~ClaimCompletion(r),
             ~Reopen(r), ~VoidOrder(r), ~HardDeleteDraft(r), ~UpdateStatus(r), ~Reprice(r)
      PROVE  UNCHANGED <<status, dispatched, reopened>>
  BY <1>7 DEF Begins, BeginTender, BeginSettle, BeginVoidPayment, BeginReprice,
     BeginSetStatus, BeginVoidOrder, BeginDeleteDraft, BeginRecheck, Begin, Continue, Crash,
     RecomputeRead, RecomputeWrite, Clamp, ReadReturns, LockAndCheck, CommitLocked,
     BookCredit, InsertRow, MarkVoided, ReloadForReopen, RefuseReprice,
     RecheckAfterReprice, OrderGone, order, ghost
<1>8. CASE CompleteReturn
  BY <1>8, <1>6 DEF CompleteReturn, order, ghost
<1> QED
  BY <1>1, <1>2, <1>3, <1>4, <1>5, <1>6, <1>7, <1>8 DEF Next

\* Every order starts its post-sale fan-out at most once per time it becomes payable,
\* whatever requests race (SingleClaim).
THEOREM OneClaimPerOpening ==
  ASSUME SettlementAssumption
  PROVE  Spec => []SingleClaim
<1>1. Init => ClaimInv
  BY DEF Init, ClaimInv, SingleClaim
<1>2. Shape /\ ClaimInv /\ [Next]_vars => ClaimInv'
  <2> SUFFICES ASSUME Shape, ClaimInv, [Next]_vars PROVE ClaimInv'
    OBVIOUS
  <2>1. CASE Next
    BY <2>1, ClaimStep
  <2>2. CASE UNCHANGED vars
    BY <2>2 DEF ClaimInv, SingleClaim, vars, order, ghost
  <2> QED BY <2>1, <2>2
<1>3. ClaimInv => SingleClaim
  BY DEF ClaimInv
<1> QED
  BY <1>1, <1>2, <1>3, ShapeInvariant, PTL DEF Spec

----------------------------------------------------------------------------
(* Sums.  The library's sum of a function over a finite set takes whichever  *)
(* member CHOOSE picks, and then the others.  A claim about the sums over    *)
(* all subsets of a finite set holds if no least subset refutes it, which is *)
(* how each lemma is shown; none needs an induction rule with a predicate    *)
(* as its parameter.                                                         *)

Pick(s) == CHOOSE x \in s : TRUE
IsSum(g, f, S) == g = [s \in SUBSET S |-> IF s = {} THEN 0 ELSE f[Pick(s)] + g[s \ {Pick(s)}]]

LEMMA Picked == ASSUME NEW S, S # {} PROVE Pick(S) \in S
BY DEF Pick

LEMMA LeastSubset ==
    ASSUME NEW S, IsFiniteSet(S), NEW T, T \subseteq SUBSET S, T # {}
    PROVE  \E t \in T : \A u \in SUBSET t : u # t => u \notin T
<1>1. IsWellFoundedOn(StrictSubsetOrdering(S), SUBSET S)
  BY FS_StrictSubsetOrderingWellFounded, FS_FiniteSubsetsOfFinite
<1>2. PICK t \in T : \A u \in T : <<u, t>> \notin StrictSubsetOrdering(S)
  <2> PICK R : R = StrictSubsetOrdering(S)
    OBVIOUS
  <2> QED BY <1>1, WFMin, Zenon
<1>3. ASSUME NEW u \in SUBSET t, u # t, u \in T PROVE FALSE
  <2>1. <<u, t>> \in StrictSubsetOrdering(S)
    <3>1. <<u, t>> \in (SUBSET S) \X (SUBSET S)
      BY <1>3
    <3> QED BY <1>3, <3>1 DEF StrictSubsetOrdering
  <2> QED BY <1>2, <1>3, <2>1
<1> QED BY <1>3

LEMMA SumUnique ==
    ASSUME NEW f, NEW S, NEW U, NEW g, NEW h, IsSum(g, f, S), IsSum(h, f, U),
           NEW t, IsFiniteSet(t), t \subseteq S, t \subseteq U
    PROVE  g[t] = h[t]
<1> DEFINE T == {s \in SUBSET t : g[s] # h[s]}
<1>1. ASSUME NEW s \in T, \A u \in SUBSET s : u # s => u \notin T PROVE FALSE
  <2>1. s \in SUBSET S /\ s \in SUBSET U /\ s \in SUBSET t /\ g[s] # h[s]
    OBVIOUS
  <2>2. g[s] = IF s = {} THEN 0 ELSE f[Pick(s)] + g[s \ {Pick(s)}]
    BY <2>1 DEF IsSum
  <2>3. h[s] = IF s = {} THEN 0 ELSE f[Pick(s)] + h[s \ {Pick(s)}]
    BY <2>1 DEF IsSum
  <2>4. s # {}
    BY <2>1, <2>2, <2>3
  <2>5. s \ {Pick(s)} \in SUBSET s /\ s \ {Pick(s)} # s
    BY <2>4, Picked
  <2>6. g[s \ {Pick(s)}] = h[s \ {Pick(s)}]
    BY <1>1, <2>1, <2>5
  <2> QED BY <2>1, <2>2, <2>3, <2>4, <2>6
<1>2. T \subseteq SUBSET t
  OBVIOUS
<1> HIDE DEF T
<1>3. T = {}
  BY <1>1, <1>2, LeastSubset
<1> QED BY <1>3 DEF T

LEMMA SumExists ==
    ASSUME NEW f, NEW S, IsFiniteSet(S)
    PROVE  \E g : IsSum(g, f, S)
<1> DEFINE T == {s \in SUBSET S : ~\E g : IsSum(g, f, s)}
<1>1. ASSUME NEW s \in T, \A u \in SUBSET s : u # s => u \notin T PROVE FALSE
  <2> DEFINE G(u) == CHOOSE g : IsSum(g, f, u)
             rest(u) == u \ {Pick(u)}
             value(u) == IF u = {} THEN 0 ELSE f[Pick(u)] + G(rest(u))[rest(u)]
             h == [u \in SUBSET s |-> value(u)]
  <2>1. s \in SUBSET S /\ ~\E g : IsSum(g, f, s)
    OBVIOUS
  <2>2. ASSUME NEW u \in SUBSET s, u # s PROVE IsSum(G(u), f, u)
    <3>1. \E g : IsSum(g, f, u)
      BY <1>1, <2>1, <2>2
    <3> QED BY <3>1
  <2> HIDE DEF G
  <2>3. ASSUME NEW u \in SUBSET s, u # s PROVE G(u)[u] = value(u)
    <3>1. IsSum(G(u), f, u)
      BY <2>2, <2>3
    <3>2. G(u)[u] = IF u = {} THEN 0 ELSE f[Pick(u)] + G(u)[rest(u)]
      BY <3>1 DEF IsSum
    <3>3. CASE u # {}
      <4>1. rest(u) \in SUBSET u /\ rest(u) \in SUBSET s /\ rest(u) # s
        BY <2>3
      <4>1a. IsSum(G(rest(u)), f, rest(u))
        BY <2>2, <4>1
      <4>2. IsFiniteSet(rest(u))
        BY <2>1, <4>1, FS_Subset
      <4> HIDE DEF rest
      <4>3. G(u)[rest(u)] = G(rest(u))[rest(u)]
        BY <3>1, <4>1, <4>1a, <4>2, SumUnique
      <4> QED BY <3>2, <3>3, <4>3
    <3> QED BY <3>2, <3>3
  <2>4. ASSUME NEW u \in SUBSET s PROVE h[u] = IF u = {} THEN 0 ELSE f[Pick(u)] + h[rest(u)]
    <3>1. CASE u # {}
      <4>1. rest(u) \in SUBSET s /\ rest(u) # s
        BY <3>1, Picked
      <4>2. h[rest(u)] = G(rest(u))[rest(u)]
        BY <2>3, <4>1
      <4> QED BY <3>1, <4>2
    <3> QED BY <3>1
  <2> PICK k : k = h
    OBVIOUS
  <2>5. IsSum(k, f, s)
    <3>1. k = [u \in SUBSET s |-> k[u]]
      OBVIOUS
    <3>2. \A u \in SUBSET s : k[u] = IF u = {} THEN 0 ELSE f[Pick(u)] + k[u \ {Pick(u)}]
      BY <2>4
    <3> HIDE DEF h
    <3> QED BY <3>1, <3>2 DEF IsSum
  <2> QED BY <2>1, <2>5
<1>2. T \subseteq SUBSET S
  OBVIOUS
<1> HIDE DEF T
<1>3. T = {}
  BY <1>1, <1>2, LeastSubset
<1> QED BY <1>3 DEF T

\* The library's sum is its picked member and the sum of the others.
LEMMA SumIs ==
    ASSUME NEW f, NEW S, IsFiniteSet(S), NEW g, IsSum(g, f, S)
    PROVE  SumFunctionOnSet(f, S) = g[S]
<1> DEFINE P(h) == h = [s \in SUBSET S |-> IF s = {} THEN 0
                                           ELSE f[CHOOSE x \in s : TRUE] + h[s \ {CHOOSE x \in s : TRUE}]]
           sum == CHOOSE h : P(h)
<1>1. ASSUME NEW h PROVE IsSum(h, f, S) <=> P(h)
  BY DEF IsSum, Pick
<1>2. SumFunctionOnSet(f, S) = sum[S]
  BY Zenon DEF SumFunctionOnSet, FoldFunctionOnSet, MapThenFoldSet
<1>3. P(sum)
  <2>1. P(g)
    BY <1>1
  <2> HIDE DEF P
  <2> QED BY <2>1, Zenon
<1>4. IsSum(sum, f, S)
  BY <1>1, <1>3
<1> HIDE DEF sum, P
<1> QED BY <1>2, <1>4, SumUnique

LEMMA SumPick ==
    ASSUME NEW f, NEW S, IsFiniteSet(S)
    PROVE  SumFunctionOnSet(f, S) = IF S = {} THEN 0 ELSE f[Pick(S)] + SumFunctionOnSet(f, S \ {Pick(S)})
<1>1. PICK g : IsSum(g, f, S)
  BY SumExists
<1>2. g[S] = IF S = {} THEN 0 ELSE f[Pick(S)] + g[S \ {Pick(S)}]
  BY <1>1 DEF IsSum
<1>3. SumFunctionOnSet(f, S) = g[S]
  BY <1>1, SumIs
<1>4. CASE S # {}
  <2> PICK U : U = S \ {Pick(S)}
    OBVIOUS
  <2>1. IsFiniteSet(U) /\ U \subseteq S
    BY FS_Subset
  <2>2. PICK h : IsSum(h, f, U)
    BY <2>1, SumExists
  <2>3. h[U] = g[U] /\ SumFunctionOnSet(f, U) = h[U]
    BY <1>1, <2>1, <2>2, SumUnique, SumIs
  <2> QED BY <1>2, <1>3, <1>4, <2>3
<1> QED BY <1>2, <1>3, <1>4

LEMMA SumNumber ==
    ASSUME NEW N \in {Nat, Int}, NEW f, NEW S, IsFiniteSet(S), \A x \in S : f[x] \in N
    PROVE  SumFunctionOnSet(f, S) \in N
<1> DEFINE T == {s \in SUBSET S : SumFunctionOnSet(f, s) \notin N}
<1>1. ASSUME NEW s \in T, \A u \in SUBSET s : u # s => u \notin T PROVE FALSE
  <2>1. s \in SUBSET S /\ IsFiniteSet(s) /\ SumFunctionOnSet(f, s) \notin N
    BY FS_Subset
  <2>2. SumFunctionOnSet(f, s) = IF s = {} THEN 0 ELSE f[Pick(s)] + SumFunctionOnSet(f, s \ {Pick(s)})
    BY <2>1, SumPick
  <2>3. s # {}
    BY <2>1, <2>2
  <2>4. s \ {Pick(s)} \in SUBSET s /\ s \ {Pick(s)} # s /\ f[Pick(s)] \in N
    BY <2>1, <2>3, Picked
  <2>5. SumFunctionOnSet(f, s \ {Pick(s)}) \in N
    BY <1>1, <2>1, <2>4
  <2> QED BY <2>1, <2>2, <2>3, <2>4, <2>5
<1>2. T \subseteq SUBSET S
  OBVIOUS
<1> HIDE DEF T
<1>3. T = {}
  BY <1>1, <1>2, LeastSubset
<1> QED BY <1>3 DEF T

\* Whichever member is taken first.
LEMMA SumTakes ==
    ASSUME NEW f, NEW S, IsFiniteSet(S), \A x \in S : f[x] \in Int, NEW y \in S
    PROVE  SumFunctionOnSet(f, S) = f[y] + SumFunctionOnSet(f, S \ {y})
<1> DEFINE T == {s \in SUBSET S : \E x \in s : SumFunctionOnSet(f, s) # f[x] + SumFunctionOnSet(f, s \ {x})}
<1>1. ASSUME NEW s \in T, \A u \in SUBSET s : u # s => u \notin T PROVE FALSE
  <2>1. PICK x \in s : s \in SUBSET S /\ SumFunctionOnSet(f, s) # f[x] + SumFunctionOnSet(f, s \ {x})
    OBVIOUS
  <2>2. IsFiniteSet(s)
    BY <2>1, FS_Subset
  <2> PICK p : p = Pick(s)
    OBVIOUS
  <2>3. p \in s /\ SumFunctionOnSet(f, s) = f[p] + SumFunctionOnSet(f, s \ {p})
    BY <2>1, <2>2, SumPick, Picked
  <2>4. p # x
    BY <2>1, <2>3
  <2>5. ASSUME NEW u \in SUBSET s, u # s, NEW q \in u PROVE SumFunctionOnSet(f, u) = f[q] + SumFunctionOnSet(f, u \ {q})
    BY <1>1, <2>1, <2>5
  <2>6. SumFunctionOnSet(f, s \ {p}) = f[x] + SumFunctionOnSet(f, (s \ {p}) \ {x})
    BY <2>3, <2>4, <2>5
  <2>7. SumFunctionOnSet(f, s \ {x}) = f[p] + SumFunctionOnSet(f, (s \ {x}) \ {p})
    BY <2>3, <2>4, <2>5
  <2>8. (s \ {p}) \ {x} = (s \ {x}) \ {p}
    OBVIOUS
  <2> PICK both : both = (s \ {x}) \ {p}
    OBVIOUS
  <2>9. SumFunctionOnSet(f, both) \in Int
    <3>1. IsFiniteSet(both) /\ \A z \in both : f[z] \in Int
      BY <2>1, <2>2, FS_Subset
    <3> QED BY <3>1, SumNumber
  <2>10. f[p] \in Int /\ f[x] \in Int
    BY <2>1, <2>3
  <2>11. SumFunctionOnSet(f, s) = f[p] + (f[x] + SumFunctionOnSet(f, both)) /\ SumFunctionOnSet(f, s \ {x}) = f[p] + SumFunctionOnSet(f, both)
    BY <2>3, <2>6, <2>7, <2>8
  <2>12. \A a, b, c \in Int : a + (b + c) = b + (a + c)
    OBVIOUS
  <2> QED BY <2>1, <2>9, <2>10, <2>11, <2>12
<1>2. T \subseteq SUBSET S
  OBVIOUS
<1> HIDE DEF T
<1>3. T = {}
  BY <1>1, <1>2, LeastSubset
<1> QED BY <1>3 DEF T

LEMMA SumSame ==
    ASSUME NEW f, NEW g, NEW S, IsFiniteSet(S), \A x \in S : f[x] = g[x]
    PROVE  SumFunctionOnSet(f, S) = SumFunctionOnSet(g, S)
<1> DEFINE T == {s \in SUBSET S : SumFunctionOnSet(f, s) # SumFunctionOnSet(g, s)}
<1>1. ASSUME NEW s \in T, \A u \in SUBSET s : u # s => u \notin T PROVE FALSE
  <2>1. s \in SUBSET S /\ IsFiniteSet(s) /\ SumFunctionOnSet(f, s) # SumFunctionOnSet(g, s)
    BY FS_Subset
  <2>2. SumFunctionOnSet(f, s) = IF s = {} THEN 0 ELSE f[Pick(s)] + SumFunctionOnSet(f, s \ {Pick(s)})
    BY <2>1, SumPick
  <2>3. SumFunctionOnSet(g, s) = IF s = {} THEN 0 ELSE g[Pick(s)] + SumFunctionOnSet(g, s \ {Pick(s)})
    BY <2>1, SumPick
  <2>4. s # {}
    BY <2>1, <2>2, <2>3
  <2>5. s \ {Pick(s)} \in SUBSET s /\ s \ {Pick(s)} # s /\ f[Pick(s)] = g[Pick(s)]
    BY <2>1, <2>4, Picked
  <2>6. SumFunctionOnSet(f, s \ {Pick(s)}) = SumFunctionOnSet(g, s \ {Pick(s)})
    BY <1>1, <2>1, <2>5
  <2> QED BY <2>1, <2>2, <2>3, <2>4, <2>5, <2>6
<1>2. T \subseteq SUBSET S
  OBVIOUS
<1> HIDE DEF T
<1>3. T = {}
  BY <1>1, <1>2, LeastSubset
<1> QED BY <1>3 DEF T

LEMMA SumEmpty == ASSUME NEW f PROVE SumFunctionOnSet(f, {}) = 0
BY SumPick, FS_EmptySet

\* One value changes by d.
LEMMA SumChanges ==
    ASSUME NEW f, NEW g, NEW S, IsFiniteSet(S), \A x \in S : f[x] \in Int /\ g[x] \in Int,
           NEW y \in S, \A x \in S : x # y => g[x] = f[x]
    PROVE  SumFunctionOnSet(g, S) = SumFunctionOnSet(f, S) + g[y] - f[y]
<1> PICK R : R = S \ {y}
  OBVIOUS
<1>1. IsFiniteSet(R) /\ (\A x \in R : f[x] \in Int /\ g[x] = f[x])
  BY FS_Subset
<1>2. SumFunctionOnSet(f, S) = f[y] + SumFunctionOnSet(f, R) /\ SumFunctionOnSet(g, S) = g[y] + SumFunctionOnSet(g, R)
  BY SumTakes
<1>3. SumFunctionOnSet(g, R) = SumFunctionOnSet(f, R) /\ SumFunctionOnSet(f, R) \in Int
  BY <1>1, SumSame, SumNumber
<1> QED BY <1>2, <1>3

\* Nothing but zeros.
LEMMA SumZero ==
    ASSUME NEW f, NEW S, IsFiniteSet(S), \A x \in S : f[x] = 0
    PROVE  SumFunctionOnSet(f, S) = 0
<1> DEFINE T == {s \in SUBSET S : SumFunctionOnSet(f, s) # 0}
<1>1. ASSUME NEW s \in T, \A u \in SUBSET s : u # s => u \notin T PROVE FALSE
  <2>1. s \in SUBSET S /\ IsFiniteSet(s) /\ SumFunctionOnSet(f, s) # 0
    BY FS_Subset
  <2>2. SumFunctionOnSet(f, s) = IF s = {} THEN 0 ELSE f[Pick(s)] + SumFunctionOnSet(f, s \ {Pick(s)})
    BY <2>1, SumPick
  <2>3. s # {}
    BY <2>1, <2>2
  <2>4. s \ {Pick(s)} \in SUBSET s /\ s \ {Pick(s)} # s /\ f[Pick(s)] = 0
    BY <2>1, <2>3, Picked
  <2>5. SumFunctionOnSet(f, s \ {Pick(s)}) = 0
    BY <1>1, <2>1, <2>4
  <2> QED BY <2>1, <2>2, <2>3, <2>4, <2>5
<1>2. T \subseteq SUBSET S
  OBVIOUS
<1> HIDE DEF T
<1>3. T = {}
  BY <1>1, <1>2, LeastSubset
<1> QED BY <1>3 DEF T

----------------------------------------------------------------------------
(* SumsMatchRows: the sums the requests read are those of the rows           *)

\* What a row may add to the sum of a tender family.
LEMMA TakenIs ==
    ASSUME TypeOK, NEW m
    PROVE  \A r \in Req : Taken(m)[r] \in Int
BY DEF TypeOK, Taken, Row

\* One row changes: the sums change by what it counted for before and after.
LEMMA OneRowMoves ==
    ASSUME SettlementAssumption, TypeOK, TypeOK', SumsMatchRows, NEW p \in Req, NEW m \in Method,
           \A o \in Req \ {p} : pay'[o] = pay[o],
           sums'[m] = sums[m] + Taken(m)'[p] - Taken(m)[p]
    PROVE  sums'[m] = SumFunctionOnSet(Taken(m), Req)'
<1> PICK f, g : f = Taken(m) /\ g = Taken(m)'
  OBVIOUS
<1>1. IsFiniteSet(Req)
  BY DEF SettlementAssumption
<1>2. \A x \in Req : f[x] \in Int /\ g[x] \in Int
  <2>1. \A x \in Req : f[x] \in Int
    BY TakenIs
  <2>2. \A x \in Req : g[x] \in Int
    BY DEF TypeOK, Taken, Row
  <2> QED BY <2>1, <2>2
<1>3. \A x \in Req : x # p => g[x] = f[x]
  BY DEF Taken
<1>4. SumFunctionOnSet(g, Req) = SumFunctionOnSet(f, Req) + g[p] - f[p]
  BY <1>1, <1>2, <1>3, SumChanges
<1>5. sums[m] = SumFunctionOnSet(f, Req)
  BY DEF SumsMatchRows
<1>6. SumFunctionOnSet(Taken(m), Req)' = SumFunctionOnSet(g, Req)
  OBVIOUS
<1> QED BY <1>4, <1>5, <1>6

LEMMA SumsStep ==
    ASSUME SettlementAssumption, Shape, Shape', SumsMatchRows, Next
    PROVE  SumsMatchRows'
<1> USE DEF Shape
<1>1. ASSUME NEW r \in Req, AddsRow(r) PROVE SumsMatchRows'
  <2>1. /\ MethodOf(rq[r].kind) \in Method /\ rq[r].amt \in Nat /\ pay[r] = NoRow
        /\ pay \in [Req -> Row] /\ sums \in [Method -> Int]
    BY <1>1 DEF AddsRow, CommitLocked, InsertRow, At, KindsInPlace, KindFits, RowsInPlace,
       RowFits, BeforeRow, MethodOf, Method, Locked, Tenders, TypeOK, Request
  <2>2. /\ pay' = [pay EXCEPT ![r] = [st |-> "completed", amt |-> rq[r].amt,
                                      meth |-> MethodOf(rq[r].kind)]]
        /\ sums' = [sums EXCEPT ![MethodOf(rq[r].kind)] = @ + rq[r].amt]
    BY <1>1 DEF AddsRow, CommitLocked, InsertRow, AddRow
  <2>3. ASSUME NEW m \in Method PROVE sums'[m] = SumFunctionOnSet(Taken(m), Req)'
    <3>1. Taken(m)[r] = 0
      BY <2>1 DEF Taken, NoRow
    <3>2. Taken(m)'[r] = IF MethodOf(rq[r].kind) = m THEN rq[r].amt ELSE 0
      BY <2>1, <2>2 DEF Taken
    <3>3. sums'[m] = sums[m] + Taken(m)'[r] - Taken(m)[r]
      BY <2>1, <2>2, <3>1, <3>2
    <3>4. \A o \in Req \ {r} : pay'[o] = pay[o]
      BY <2>1, <2>2
    <3> QED BY <3>3, <3>4, OneRowMoves
  <2> QED BY <2>3 DEF SumsMatchRows
<1>2. ASSUME NEW r \in Req, MarkVoided(r) PROVE SumsMatchRows'
  <2>1. PICK p \in Req :
          /\ pay' = [pay EXCEPT ![p].st = "voided"]
          /\ sums' = [sums EXCEPT ![pay[p].meth] = @ - VoidedAmount(p)]
    BY <1>2 DEF MarkVoided, At, RowsInPlace, RowFits
  <2>2. /\ pay \in [Req -> Row] /\ sums \in [Method -> Int]
        /\ pay[p].meth \in Method /\ pay[p].amt \in Nat
    BY DEF TypeOK, Row
  <2>3. ASSUME NEW m \in Method PROVE sums'[m] = SumFunctionOnSet(Taken(m), Req)'
    <3>1. Taken(m)'[p] = 0
      BY <2>1, <2>2 DEF Taken, Row
    <3>2. Taken(m)[p] = IF pay[p].meth = m THEN VoidedAmount(p) ELSE 0
      BY DEF Taken, VoidedAmount
    <3>3. sums'[m] = sums[m] + Taken(m)'[p] - Taken(m)[p]
      BY <2>1, <2>2, <3>1, <3>2 DEF VoidedAmount
    <3>4. \A o \in Req \ {p} : pay'[o] = pay[o]
      BY <2>1, <2>2
    <3> QED BY <3>3, <3>4, OneRowMoves
  <2> QED BY <2>3 DEF SumsMatchRows
<1>3. ASSUME NEW r \in Req, HardDeleteDraft(r) PROVE SumsMatchRows'
  <2>1. ASSUME NEW m \in Method PROVE sums'[m] = SumFunctionOnSet(Taken(m), Req)'
    <3>1. \A o \in Req : Taken(m)'[o] = 0
      BY <1>3 DEF HardDeleteDraft, Taken, NoRow
    <3> PICK g : g = Taken(m)'
      OBVIOUS
    <3>2. SumFunctionOnSet(g, Req) = 0
      BY <3>1, SumZero DEF SettlementAssumption
    <3> QED BY <1>3, <3>2 DEF HardDeleteDraft
  <2> QED BY <2>1 DEF SumsMatchRows
<1>4. ASSUME UNCHANGED <<pay, sums>> PROVE SumsMatchRows'
  BY <1>4 DEF SumsMatchRows, Taken
<1>5. ASSUME NEW r \in Req, Begins(r) \/ Continue(r) \/ Crash(r), ~AddsRow(r),
             ~MarkVoided(r), ~HardDeleteDraft(r)
      PROVE  UNCHANGED <<pay, sums>>
  BY <1>5, RowsUntouched
<1>6. CASE ReleaseHeldOrder \/ CompleteReturn
  BY <1>6, <1>4 DEF ReleaseHeldOrder, CompleteReturn
<1> QED
  BY <1>1, <1>2, <1>3, <1>4, <1>5, <1>6 DEF Next

\* The sums the handlers compare with the order's total are those of the payment rows, whoever
\* inserts, voids or deletes rows meanwhile and however often one row is voided
\* (SumsMatchRows): what the theorems above say of the sums they say of the rows.
THEOREM SumsStayTrue ==
    ASSUME SettlementAssumption
    PROVE  Spec => []SumsMatchRows
<1>1. Init => SumsMatchRows
  <2> SUFFICES ASSUME Init, NEW m \in Method
               PROVE  sums[m] = SumFunctionOnSet(Taken(m), Req)
    BY DEF SumsMatchRows
  <2>1. \A o \in Req : Taken(m)[o] = 0
    BY DEF Init, Taken, NoRow
  <2> PICK g : g = Taken(m)
    OBVIOUS
  <2>2. SumFunctionOnSet(g, Req) = 0
    BY <2>1, SumZero DEF SettlementAssumption
  <2> QED BY <2>2 DEF Init
<1>2. Shape /\ Shape' /\ SumsMatchRows /\ [Next]_vars => SumsMatchRows'
  <2> SUFFICES ASSUME Shape, Shape', SumsMatchRows, [Next]_vars PROVE SumsMatchRows'
    OBVIOUS
  <2>1. CASE Next
    BY <2>1, SumsStep
  <2>2. CASE UNCHANGED vars
    BY <2>2 DEF SumsMatchRows, Taken, vars
  <2> QED BY <2>1, <2>2
<1> QED
  BY <1>1, <1>2, ShapeInvariant, PTL DEF Spec

----------------------------------------------------------------------------
(* TillWithinPeak                                                           *)

\* Rows carry amounts that are not negative, so their sums are not either, however many
\* rows are voided.
LEMMA SumsNatural ==
    ASSUME SettlementAssumption, TypeOK, SumsMatchRows, NEW m \in Method
    PROVE  sums[m] \in Nat
<1> PICK f : f = Taken(m)
  OBVIOUS
<1>1. IsFiniteSet(Req)
  BY DEF SettlementAssumption
<1>2. \A x \in Req : f[x] \in Nat
  BY DEF TypeOK, Taken, Row
<1>3. SumFunctionOnSet(f, Req) \in Nat
  BY <1>1, <1>2, SumNumber
<1> QED BY <1>3 DEF SumsMatchRows

\* A step of request r that does not raise the till keeps the bound.
LEMMA TillFrame ==
  ASSUME SettlementAssumption, Shape, Shape', TillInv,
         NEW r \in Req, Begins(r) \/ Continue(r) \/ Crash(r),
         peak' >= peak, total' <= peak', rq'[r].total <= peak',
         sums'["till"] <= sums["till"],
         rq'[r].pc = "commit" => sums'["till"] + rq'[r].amt <= peak' + Tol
  PROVE  TillInv'
<1>1. /\ peak \in Nat /\ peak' \in Nat /\ Tol \in Nat
      /\ sums["till"] \in Int /\ sums'["till"] \in Int
  BY DEF Shape, TypeOK, Method, SettlementAssumption
<1>2. TillWithinPeak'
  BY <1>1 DEF TillInv, TillWithinPeak
<1>3. ASSUME NEW o \in Req \ {r}
      PROVE  /\ rq'[o].total <= peak'
             /\ rq'[o].pc = "commit" => sums'["till"] + rq'[o].amt <= peak' + Tol
  <2>1. rq'[o] = rq[o]
    BY OthersStay DEF Shape
  <2>2. rq[o].total \in Nat /\ rq[o].amt \in Nat
    BY DEF Shape, TypeOK, Request
  <2>3. rq[o].total <= peak /\ (rq[o].pc = "commit" => sums["till"] + rq[o].amt <= peak + Tol)
    BY DEF TillInv
  <2> QED BY <1>1, <2>1, <2>2, <2>3
<1> QED
  BY <1>2, <1>3 DEF TillInv

LEMMA TillStep ==
  ASSUME SettlementAssumption, Shape, Shape', SumsMatchRows, TillInv, Next
  PROVE  TillInv'
<1> USE DEF Shape
<1>0. /\ peak \in Nat /\ peak' \in Nat /\ total \in Nat /\ Tol \in Nat
      /\ sums["till"] \in Int /\ sums["complimentary"] \in Int
      /\ rq \in [Req -> Request]
  BY DEF TypeOK, Method, SettlementAssumption
<1>1. total <= peak
  BY DEF TillInv
<1>2. ASSUME NEW r \in Req PROVE rq[r] \in Request /\ rq[r].total \in Nat /\ rq[r].total <= peak
  BY <1>0 DEF TillInv, Request
<1>3. ASSUME NEW r \in Req, Begins(r) PROVE TillInv'
  <2>1. /\ sums' = sums /\ peak' = peak /\ total' = total
        /\ rq'[r].total = total /\ rq'[r].pc # "commit"
    BY <1>0, <1>3 DEF Begins, BeginTender, BeginSettle, BeginVoidPayment, BeginReprice,
       BeginSetStatus, BeginVoidOrder, BeginDeleteDraft, BeginRecheck, Begin, order, ghost
  <2> QED BY <1>0, <1>1, <1>3, <2>1, TillFrame
<1>4. ASSUME NEW r \in Req, Crash(r) PROVE TillInv'
  <2>1. /\ sums' = sums /\ peak' = peak /\ total' = total
        /\ rq'[r].total = rq[r].total /\ rq'[r].pc # "commit"
    BY <1>0, <1>2, <1>4 DEF Crash, Goto, Request, order, ghost
  <2> QED BY <1>0, <1>1, <1>2, <1>4, <2>1, TillFrame
<1>5. ASSUME NEW r \in Req, Continue(r) PROVE TillInv'
  <2>1. CASE LockAndCheck(r)
    <3> DEFINE fresh == FreshOutstanding(rq[r])
    <3>1. /\ sums' = sums /\ peak' = peak /\ total' = total /\ rq'[r].total = rq[r].total
      BY <1>0, <1>2, <2>1 DEF LockAndCheck, Goto, Request, order, ghost
    <3>2. ASSUME rq'[r].pc = "commit" PROVE rq'[r].amt <= fresh + Tol /\ fresh \in Int
      <4>1. fresh \in Int /\ rq[r].amt \in Nat
        BY <1>0, <1>2 DEF FreshOutstanding, Collected, TypeOK, Method, Request
      <4>2. rq'[r].amt = IF rq[r].amt > fresh + Tol THEN fresh ELSE rq[r].amt
        BY <1>0, <1>2, <2>1, <3>2 DEF LockAndCheck, Goto, Request
      <4> QED BY <1>0, <4>1, <4>2
    <3>3. fresh <= rq[r].total - sums["till"] - rq[r].ret
      <4>1. /\ sums["legacy"] \in Nat /\ sums["complimentary"] \in Nat
            /\ rq[r].total \in Nat /\ rq[r].ret \in Nat
        BY <1>2, SumsNatural DEF Method, Request
      <4> QED BY <1>0, <4>1 DEF FreshOutstanding, Collected
    <3>4. rq[r].ret \in Nat
      BY <1>2 DEF Request
    <3>5. rq'[r].pc = "commit" => rq'[r].amt \in Nat
      BY DEF TypeOK, Request
    <3>6. rq'[r].pc = "commit" => sums["till"] + rq'[r].amt <= peak + Tol
      BY <1>0, <1>1, <1>2, <3>2, <3>3, <3>4, <3>5
    <3> QED BY <1>0, <1>1, <1>2, <1>5, <3>1, <3>6, TillFrame
  <2>2. CASE CommitLocked(r)
    <3>1. rq[r].pc = "commit" /\ MethodOf(rq[r].kind) = "till" /\ lock = r
      BY <2>2 DEF CommitLocked, At, KindsInPlace, KindFits, RowsInPlace, RowFits, MethodOf
    <3>2. sums' = [sums EXCEPT !["till"] = @ + rq[r].amt]
      BY <2>2, <3>1 DEF CommitLocked, AddRow
    <3>3. sums'["till"] = sums["till"] + rq[r].amt
      BY <3>2 DEF TypeOK, Method
    <3>4. sums["till"] + rq[r].amt <= peak + Tol
      BY <3>1 DEF TillInv
    <3>5. /\ peak' = peak /\ total' = total
          /\ rq'[r].total = rq[r].total /\ rq'[r].pc = "reread"
      BY <1>0, <1>2, <2>2 DEF CommitLocked, Goto, Request, order, ghost
    <3>6. ASSUME NEW o \in Req \ {r} PROVE rq'[o].total <= peak /\ rq'[o].pc # "commit"
      <4>1. rq'[o] = rq[o]
        BY <1>5, OthersStay
      <4>2. rq[o].pc # "commit"
        BY <3>1 DEF RowsInPlace, RowFits
      <4> QED BY <1>2, <4>1, <4>2
    <3> QED
      BY <1>1, <1>2, <3>3, <3>4, <3>5, <3>6 DEF TillInv, TillWithinPeak
  <2>3. CASE InsertRow(r)
    <3>1. /\ MethodOf(rq[r].kind) \in Method \ {"till"}
          /\ rq[r].amt \in Nat
      BY <1>2, <2>3 DEF InsertRow, At, KindsInPlace, KindFits, BeforeRow, MethodOf, Method,
         Locked, Tenders, Request
    <3>2. sums' = [sums EXCEPT ![MethodOf(rq[r].kind)] = @ + rq[r].amt]
      BY <2>3 DEF InsertRow, AddRow
    <3>3. sums'["till"] = sums["till"]
      BY <1>0, <1>1, <3>1, <3>2 DEF TypeOK, Method
    <3>4. /\ peak' = peak /\ total' = total
          /\ rq'[r].total = rq[r].total /\ rq'[r].pc = "reread"
      BY <1>0, <1>2, <2>3 DEF InsertRow, Goto, Request, order, ghost
    <3> QED BY <1>0, <1>1, <1>2, <1>5, <3>3, <3>4, TillFrame
  <2>4. CASE MarkVoided(r)
    <3>1. PICK p \in Req : pay[p].meth \in Manual
                           /\ sums' = [sums EXCEPT ![pay[p].meth] = @ - VoidedAmount(p)]
      BY <2>4 DEF MarkVoided, At, RowsInPlace, RowFits
    <3>2. VoidedAmount(p) \in Nat
      BY DEF VoidedAmount, TypeOK, Row
    <3>3. sums'["till"] <= sums["till"]
      BY <1>0, <3>1, <3>2 DEF TypeOK, Manual, Method
    <3>4. /\ peak' = peak /\ total' = total
          /\ rq'[r].total = rq[r].total /\ rq'[r].pc = "reread"
      BY <1>0, <1>2, <2>4 DEF MarkVoided, Goto, Request, order, ghost
    <3> QED BY <1>0, <1>1, <1>2, <1>5, <3>3, <3>4, TillFrame
  <2>5. CASE Reprice(r)
    <3>1. /\ sums' = sums /\ rq'[r].total = rq[r].total
          /\ rq'[r].pc \in {"recheck", "done"}
      BY <1>0, <1>2, <2>5 DEF Reprice, Goto, Request
    <3>2. peak' >= peak /\ total' <= peak'
      BY <1>0, <2>5 DEF Reprice, Greater, SettlementAssumption
    <3> QED BY <1>0, <1>1, <1>2, <1>5, <3>1, <3>2, TillFrame
  <2>6. CASE HardDeleteDraft(r)
    <3>1. /\ peak' = peak /\ total' = total /\ rq'[r].total = rq[r].total
          /\ rq'[r].pc = "done" /\ \A m \in Method : sums'[m] = 0
      BY <1>0, <1>2, <2>6 DEF HardDeleteDraft, Goto, Request
    <3>2. ASSUME NEW o \in Req PROVE rq'[o].total <= peak /\ rq'[o].pc # "commit"
      <4>1. CASE o = r
        BY <1>2, <3>1, <4>1
      <4>2. CASE o # r
        <5>1. rq'[o] = rq[o]
          BY <1>5, <4>2, OthersStay
        <5>2. rq[o].pc # "commit"
          BY <2>6 DEF HardDeleteDraft, Unlocked, RowsInPlace, RowFits, SettlementAssumption
        <5> QED BY <1>2, <5>1, <5>2
      <4> QED BY <4>1, <4>2
    <3>3. sums'["till"] = 0
      BY <3>1 DEF Method
    <3> QED BY <1>0, <1>1, <3>1, <3>2, <3>3 DEF TillInv, TillWithinPeak
  <2>7. CASE RecheckAfterReprice(r)
    <3>1. /\ sums' = sums /\ peak' = peak /\ total' = total
          /\ rq'[r].total = total /\ rq'[r].pc = "reread"
      BY <1>0, <1>2, <2>7 DEF RecheckAfterReprice, Request, order, ghost
    <3> QED BY <1>0, <1>1, <1>5, <3>1, TillFrame
  <2>8. CASE \/ RecomputeRead(r) \/ RecomputeWrite(r) \/ Clamp(r) \/ ReadReturns(r)
             \/ BookCredit(r) \/ ClaimCompletion(r) \/ ReloadForReopen(r) \/ Reopen(r)
             \/ RefuseReprice(r) \/ UpdateStatus(r) \/ VoidOrder(r) \/ OrderGone(r)
    <3>1. sums' = sums /\ peak' = peak /\ total' = total
      BY <2>8 DEF RecomputeRead, RecomputeWrite, Clamp, ReadReturns, BookCredit,
         ClaimCompletion, ReloadForReopen, Reopen, RefuseReprice, UpdateStatus, VoidOrder,
         OrderGone, order, ghost
    <3>2. rq'[r].total = rq[r].total /\ rq'[r].pc # "commit"
      BY <1>0, <1>2, <2>8 DEF RecomputeRead, RecomputeWrite, Clamp, ReadReturns, BookCredit,
         ClaimCompletion, ReloadForReopen, Reopen, RefuseReprice, UpdateStatus, VoidOrder,
         OrderGone, AfterRewrite, Goto, Request
    <3> QED BY <1>0, <1>1, <1>2, <1>5, <3>1, <3>2, TillFrame
  <2> QED
    BY <1>5, <2>1, <2>2, <2>3, <2>4, <2>5, <2>6, <2>7, <2>8 DEF Continue
<1>6. CASE ReleaseHeldOrder \/ CompleteReturn
  <2>1. sums' = sums /\ peak' = peak /\ total' = total /\ rq' = rq
    BY <1>6 DEF ReleaseHeldOrder, CompleteReturn, order, ghost
  <2> QED BY <2>1 DEF TillInv, TillWithinPeak
<1> QED
  BY <1>3, <1>4, <1>5, <1>6 DEF Next

\* Cash tenders and credit settlements racing on one order never bank more than the order
\* was ever worth, to within the tolerance (TillWithinPeak), whoever inserts or voids other rows
\* meanwhile: the re-check under the row lock subtracts what the other tenders took, which
\* is never negative because the sums are those of the rows.
THEOREM TillNeverOvershoots ==
  ASSUME SettlementAssumption
  PROVE  Spec => []TillWithinPeak
<1>1. Init => TillInv
  <2> SUFFICES ASSUME Init PROVE TillInv
    OBVIOUS
  <2>1. total \in Nat /\ Tol \in Nat
    BY DEF Init, SettlementAssumption
  <2> QED BY <2>1 DEF Init, TillInv, TillWithinPeak, Idle, Method
<1>2. Shape /\ Shape' /\ SumsMatchRows /\ TillInv /\ [Next]_vars => TillInv'
  <2> SUFFICES ASSUME Shape, Shape', SumsMatchRows, TillInv, [Next]_vars PROVE TillInv'
    OBVIOUS
  <2>1. CASE Next
    BY <2>1, TillStep
  <2>2. CASE UNCHANGED vars
    BY <2>2 DEF TillInv, TillWithinPeak, vars, order, ghost
  <2> QED BY <2>1, <2>2
<1>3. TillInv => TillWithinPeak
  BY DEF TillInv
<1>4. Spec => []SumsMatchRows
  BY SumsStayTrue
<1> QED
  BY <1>1, <1>2, <1>3, <1>4, ShapeInvariant, PTL DEF Spec

----------------------------------------------------------------------------
(* CompletedIsCovered, for orders nobody reprices and nobody voids a row of *)

\* A step of request r that takes nothing back, that completes only a covered order, and
\* whose own readings stand, keeps everyone's.
LEMMA CoverFrame ==
  ASSUME SettlementAssumption, Shape, Shape', CoverInv,
         NEW r \in Req, Begins(r) \/ Continue(r) \/ Crash(r),
         total' = total,
         status = "deleted" => status' = "deleted",
         status' # "deleted" => Settled' >= Settled,
         status' = "completed" => status = "completed" \/ Settled' + Tol >= total,
         rq'[r].pc \notin {"mark", "reprice", "recheck"},
         rq'[r].pc # "idle" => rq'[r].total = total,
         status' # "deleted" /\ rq'[r].pc \in {"rewrite", "claim"} => rq'[r].set <= Settled',
         rq'[r].pc = "claim" => rq'[r].set + Tol >= rq'[r].total
  PROVE  CoverInv'
<1>1. /\ total \in Nat /\ Tol \in Nat /\ Settled \in Int /\ Settled' \in Int
      /\ rq \in [Req -> Request] /\ rq' \in [Req -> Request]
  BY DEF Shape, TypeOK, Settled, Collected, Method, SettlementAssumption
<1>2. CompletedIsCovered'
  <2>1. ASSUME status' = "completed" PROVE Settled' + Tol >= total
    <3>1. status' # "deleted" => Settled' >= Settled
      OBVIOUS
    <3>2. status = "completed" \/ Settled' + Tol >= total
      BY <2>1
    <3>3. status = "completed" => Settled + Tol >= total
      BY DEF CoverInv, CompletedIsCovered
    <3>4. PICK now \in Int, next \in Int, due \in Nat, slack \in Nat :
            now = Settled /\ next = Settled' /\ due = total /\ slack = Tol
      BY <1>1
    <3>5. next >= now
      BY ONLY <2>1, <3>1, <3>4
    <3>6. now + slack >= due \/ next + slack >= due
      BY ONLY <3>2, <3>3, <3>4
    <3>7. next + slack >= due
      BY ONLY <3>5, <3>6
    <3> QED BY <3>4, <3>7
  <2> QED BY <2>1 DEF CompletedIsCovered
<1>3. ASSUME NEW o \in Req \ {r}
      PROVE  /\ rq'[o].pc \notin {"mark", "reprice", "recheck"}
             /\ rq'[o].pc # "idle" => rq'[o].total = total'
             /\ status' # "deleted" /\ rq'[o].pc \in {"rewrite", "claim"}
                  => rq'[o].set <= Settled'
             /\ rq'[o].pc = "claim" => rq'[o].set + Tol >= rq'[o].total
  <2>1. rq'[o] = rq[o]
    BY OthersStay DEF Shape
  <2>2. rq[o].set \in Int
    BY <1>1 DEF Request
  <2>3. /\ rq[o].pc \notin {"mark", "reprice", "recheck"}
        /\ rq[o].pc # "idle" => rq[o].total = total
        /\ status # "deleted" /\ rq[o].pc \in {"rewrite", "claim"} => rq[o].set <= Settled
        /\ rq[o].pc = "claim" => rq[o].set + Tol >= rq[o].total
    BY DEF CoverInv, ReadingsStand
  <2> QED BY <1>1, <2>1, <2>2, <2>3
<1>4. ReadingsStand'
  BY <1>3 DEF ReadingsStand
<1> QED
  BY <1>2, <1>4 DEF CoverInv

\* An inserted row adds to what the order is paid.
LEMMA RowAdds ==
  ASSUME Shape, NEW r \in Req, AddsRow(r)
  PROVE  Settled' >= Settled
<1> USE DEF Shape
<1>1. /\ MethodOf(rq[r].kind) \in Method
      /\ rq[r].amt \in Nat
      /\ sums \in [Method -> Int]
  BY DEF AddsRow, CommitLocked, InsertRow, At, KindsInPlace, KindFits, BeforeRow, MethodOf,
     Method, Locked, Tenders, TypeOK, Request
<1>2. sums' = [sums EXCEPT ![MethodOf(rq[r].kind)] = @ + rq[r].amt]
  BY DEF AddsRow, CommitLocked, InsertRow, AddRow
<1>3. \A m \in Method : sums[m] \in Int /\ sums'[m] \in Int /\ sums'[m] >= sums[m]
  BY <1>1, <1>2
<1>4. \A m \in {"till", "legacy", "complimentary", "on_account"} :
        sums[m] \in Int /\ sums'[m] \in Int /\ sums'[m] >= sums[m]
  BY <1>3 DEF Method
<1> QED
  BY <1>4 DEF Settled, Collected

LEMMA CoverStep ==
  ASSUME SettlementAssumption, OnlyTendered, Shape, Shape', CoverInv, Next
  PROVE  CoverInv'
<1> USE DEF Shape
<1>0. /\ total \in Nat /\ Tol \in Nat /\ Settled \in Int
      /\ rq \in [Req -> Request] /\ rq' \in [Req -> Request]
  BY DEF TypeOK, Settled, Collected, Method, SettlementAssumption
<1>1. ASSUME NEW r \in Req
      PROVE  /\ rq[r] \in Request /\ rq[r].set \in Int
             /\ rq[r].pc \notin {"mark", "reprice", "recheck"}
             /\ rq[r].pc # "idle" => rq[r].total = total
             /\ status # "deleted" /\ rq[r].pc \in {"rewrite", "claim"} => rq[r].set <= Settled
             /\ rq[r].pc = "claim" => rq[r].set + Tol >= rq[r].total
  BY <1>0 DEF CoverInv, ReadingsStand, Request
<1>2. ASSUME NEW r \in Req, Begins(r) PROVE CoverInv'
  <2>1. /\ status' = status /\ sums' = sums /\ total' = total
        /\ rq'[r].total = total
        /\ rq'[r].pc \notin {"mark", "reprice", "recheck", "rewrite", "claim"}
    BY <1>0, <1>2 DEF Begins, BeginTender, BeginSettle, BeginVoidPayment, BeginReprice,
       BeginSetStatus, BeginVoidOrder, BeginDeleteDraft, BeginRecheck, Begin, order,
       OnlyTendered, Repricers
  <2>2. Settled' = Settled
    BY <2>1 DEF Settled, Collected
  <2> QED BY <1>0, <1>2, <2>1, <2>2, CoverFrame
<1>3. ASSUME NEW r \in Req, Crash(r) PROVE CoverInv'
  <2>1. /\ status' = status /\ sums' = sums /\ total' = total
        /\ rq'[r].total = rq[r].total /\ rq'[r].pc = "dead" /\ rq[r].pc # "idle"
    BY <1>0, <1>1, <1>3 DEF Crash, Goto, Request, order
  <2>2. Settled' = Settled
    BY <2>1 DEF Settled, Collected
  <2> QED BY <1>0, <1>1, <1>3, <2>1, <2>2, CoverFrame
<1>4. ASSUME NEW r \in Req, Continue(r) PROVE CoverInv'
  <2>1. CASE RecomputeRead(r)
    <3>1. /\ status' = status /\ sums' = sums /\ total' = total
          /\ rq'[r].total = rq[r].total /\ rq'[r].pc \in {"write", "rewrite"}
          /\ rq'[r].set = Settled /\ rq[r].pc # "idle"
      BY <1>0, <1>1, <2>1 DEF RecomputeRead, Request, order
    <3>2. Settled' = Settled
      BY <3>1 DEF Settled, Collected
    <3> QED BY <1>0, <1>1, <1>4, <3>1, <3>2, CoverFrame
  <2>2. CASE RecomputeWrite(r)
    <3>1. /\ status' = status /\ sums' = sums /\ total' = total /\ status # "deleted"
          /\ rq'[r].total = rq[r].total /\ rq'[r].set = rq[r].set /\ rq[r].pc # "idle"
          /\ rq'[r].pc \in {"clamp", "done", "reload", "claim"}
      BY <1>0, <1>1, <2>2 DEF RecomputeWrite, AfterRewrite, Goto, At, Request
    <3>2. Settled' = Settled
      BY <3>1 DEF Settled, Collected
    <3>3. rq'[r].pc = "claim" => rq[r].pc = "rewrite" /\ CoversTotal(rq[r])
      BY <1>0, <1>1, <2>2 DEF RecomputeWrite, AfterRewrite, Goto, At, Request
    <3> QED BY <1>0, <1>1, <1>4, <3>1, <3>2, <3>3, CoverFrame DEF CoversTotal
  <2>3. CASE AddsRow(r)
    <3>1. /\ status' = status /\ total' = total
          /\ rq'[r].total = rq[r].total /\ rq'[r].pc = "reread" /\ rq[r].pc # "idle"
      BY <1>0, <1>1, <2>3 DEF AddsRow, CommitLocked, InsertRow, At, Goto, Request, order
    <3>2. Settled' >= Settled
      BY <2>3, RowAdds
    <3>3. CompletedIsCovered /\ Settled' \in Int
      BY DEF CoverInv, TypeOK, Settled, Collected, Method
    <3> QED BY <1>0, <1>1, <1>4, <3>1, <3>2, <3>3, CoverFrame
  <2>4. CASE ClaimCompletion(r)
    <3>1. /\ sums' = sums /\ total' = total /\ rq[r].pc = "claim"
          /\ rq'[r].total = rq[r].total /\ rq'[r].pc = "done"
          /\ (status' = "completed" /\ status # "deleted") \/ status' = status
      BY <1>0, <1>1, <2>4 DEF ClaimCompletion, MayClaim, Settleable, SetStatus, Goto, At,
         Request
    <3>2. Settled' = Settled
      BY <3>1 DEF Settled, Collected
    <3>3. status # "deleted" => Settled + Tol >= total
      BY <1>0, <1>1, <3>1
    <3> QED BY <1>0, <1>1, <1>4, <3>1, <3>2, <3>3, CoverFrame
  <2>5. CASE UpdateStatus(r) \/ VoidOrder(r) \/ Reopen(r)
    <3>1. /\ sums' = sums /\ total' = total /\ status # "deleted"
          /\ rq'[r].total = rq[r].total /\ rq'[r].pc = "done" /\ rq[r].pc # "idle"
      BY <1>0, <1>1, <2>5 DEF UpdateStatus, VoidOrder, Reopen, Goto, At, Request
    <3>2. Settled' = Settled
      BY <3>1 DEF Settled, Collected
    <3>3. status' # "completed"
      BY <2>5 DEF UpdateStatus, VoidOrder, Reopen, SetStatus, OnlyTendered
    <3> QED BY <1>0, <1>1, <1>4, <3>1, <3>2, <3>3, CoverFrame
  <2>6. CASE HardDeleteDraft(r)
    <3>1. /\ total' = total /\ status' = "deleted" /\ rq[r].pc # "idle"
          /\ rq'[r].total = rq[r].total /\ rq'[r].pc = "done"
      BY <1>0, <1>1, <2>6 DEF HardDeleteDraft, SetStatus, Goto, At, Request
    <3> QED BY <1>0, <1>1, <1>4, <3>1, CoverFrame
  <2>7. CASE \/ Clamp(r) \/ ReadReturns(r) \/ LockAndCheck(r) \/ BookCredit(r)
             \/ ReloadForReopen(r) \/ OrderGone(r)
    <3>1. status' = status /\ sums' = sums /\ total' = total
      BY <2>7 DEF Clamp, ReadReturns, LockAndCheck, BookCredit, ReloadForReopen, OrderGone,
         order
    <3>2. /\ rq'[r].total = rq[r].total /\ rq[r].pc # "idle"
          /\ rq'[r].pc \notin {"mark", "reprice", "recheck", "rewrite", "claim"}
      BY <1>0, <1>1, <2>7 DEF Clamp, ReadReturns, LockAndCheck, BookCredit, ReloadForReopen,
         OrderGone, Goto, At, Request
    <3>3. Settled' = Settled
      BY <3>1 DEF Settled, Collected
    <3> QED BY <1>0, <1>1, <1>4, <3>1, <3>2, <3>3, CoverFrame
  <2>8. CASE MarkVoided(r) \/ Reprice(r) \/ RefuseReprice(r) \/ RecheckAfterReprice(r)
    BY <1>1, <2>8 DEF MarkVoided, Reprice, RefuseReprice, RecheckAfterReprice, At
  <2> QED
    BY <1>4, <2>1, <2>2, <2>3, <2>4, <2>5, <2>6, <2>7, <2>8 DEF Continue, AddsRow
<1>5. CASE ReleaseHeldOrder \/ CompleteReturn
  <2>1. /\ sums' = sums /\ total' = total /\ rq' = rq
        /\ status' = status \/ (status' = "open" /\ status # "deleted")
    BY <1>5 DEF ReleaseHeldOrder, CompleteReturn, SetStatus, order
  <2>2. Settled' = Settled
    BY <2>1 DEF Settled, Collected
  <2> QED BY <2>1, <2>2 DEF CoverInv, CompletedIsCovered, ReadingsStand
<1> QED
  BY <1>2, <1>3, <1>4, <1>5 DEF Next

\* An order is completed only on payments that cover it, whatever tenders, settlements,
\* status writes, voids of the order, deletions, returns and crashes race on it
\* (CompletedIsCovered), as long as nobody reprices the order, voids one of its rows or
\* asks UpdateStatus for "completed": those three do complete uncovered orders.
THEOREM CompletedStaysCovered ==
  ASSUME SettlementAssumption, OnlyTendered
  PROVE  Spec => []CompletedIsCovered
<1>1. Init => CoverInv
  BY DEF Init, CoverInv, CompletedIsCovered, ReadingsStand, Idle, SettlementAssumption
<1>2. Shape /\ Shape' /\ CoverInv /\ [Next]_vars => CoverInv'
  <2> SUFFICES ASSUME Shape, Shape', CoverInv, [Next]_vars PROVE CoverInv'
    OBVIOUS
  <2>1. CASE Next
    BY <2>1, CoverStep
  <2>2. CASE UNCHANGED vars
    BY <2>2 DEF CoverInv, CompletedIsCovered, ReadingsStand, Settled, Collected, vars, order
  <2> QED BY <2>1, <2>2
<1>3. CoverInv => CompletedIsCovered
  BY DEF CoverInv
<1> QED
  BY <1>1, <1>2, <1>3, ShapeInvariant, PTL DEF Spec

----------------------------------------------------------------------------
(* One request at a time                                                    *)

LEMMA BalancesAreNumbers ==
  ASSUME TypeOK
  PROVE  Collected \in Int /\ Settled \in Int
BY DEF TypeOK, Method, Collected, Settled

\* While request r acts alone, nobody else runs, and nobody else moves.
LEMMA Alone ==
  ASSUME Shape, OneRunning, OneAtATime, NEW r \in Req, Begins(r) \/ Continue(r) \/ Crash(r),
         NEW o \in Req \ {r}
  PROVE  rq'[o] = rq[o] /\ rq[o].pc \in {"idle", "done", "dead"}
<1>1. rq'[o] = rq[o]
  BY OthersStay DEF Shape
<1>2. CASE Begins(r)
  <2>1. At(r, "idle") /\ rq'[r].pc # "idle"
    BY <1>2 DEF Begins, BeginTender, BeginSettle, BeginVoidPayment, BeginReprice,
       BeginSetStatus, BeginVoidOrder, BeginDeleteDraft, BeginRecheck, Begin, Shape, TypeOK
  <2> QED BY <1>1, <2>1 DEF OneAtATime, Running
<1>3. CASE Crash(r)
  BY <1>1, <1>3 DEF Crash, OneRunning, Running
<1>4. CASE Continue(r)
  <2>1. Running(r)
    BY <1>4 DEF Continue, Running, At, RecomputeRead, RecomputeWrite, Clamp, ReadReturns,
       LockAndCheck, CommitLocked, BookCredit, InsertRow, ClaimCompletion, MarkVoided,
       ReloadForReopen, Reopen, Reprice, RefuseReprice, RecheckAfterReprice, UpdateStatus,
       VoidOrder, HardDeleteDraft, OrderGone
  <2> QED BY <1>1, <2>1 DEF OneRunning, Running
<1> QED BY <1>2, <1>3, <1>4

\* So it is enough to look at what r has read.
LEMMA SerialFrame ==
  ASSUME Shape, Shape', SerialInv, OneAtATime,
         NEW r \in Req, Begins(r) \/ Continue(r) \/ Crash(r),
         SnapshotHolds(rq[r])',
         \/ paidTotal' = paidTotal /\ Collected' = Collected
            /\ (rq[r].pc \in {"reread", "rewrite", "dead"}
                  => rq'[r].pc \in {"reread", "rewrite", "dead"} \/ status' = "deleted")
         \/ paidTotal' = Collected'
         \/ rq'[r].pc = "reread"
         \/ status' = "deleted"
  PROVE  SerialInv'
<1>1. ASSUME NEW o \in Req \ {r}
      PROVE  rq'[o] = rq[o] /\ rq[o].pc \in {"idle", "done", "dead"}
  BY Alone DEF SerialInv
<1>2. OneRunning'
  BY <1>1 DEF OneRunning, Running
<1>3. \A o \in Req : SnapshotHolds(rq[o])'
  BY <1>1 DEF SnapshotHolds, Reads, Chosen, Compare
<1>4. status = "deleted" => status' = "deleted"
  BY LockMoves
<1>5. ASSUME paidTotal' = paidTotal, Collected' = Collected,
             rq[r].pc \in {"reread", "rewrite", "dead"}
               => rq'[r].pc \in {"reread", "rewrite", "dead"} \/ status' = "deleted"
      PROVE  Recounted'
  <2>1. CASE paidTotal = Collected
    BY <1>5, <2>1 DEF Recounted
  <2>2. CASE status = "deleted"
    BY <1>4, <2>2 DEF Recounted
  <2>3. ASSUME NEW o \in Req, rq[o].pc \in {"reread", "rewrite", "dead"} PROVE Recounted'
    <3>1. CASE o = r
      BY <1>5, <2>3, <3>1 DEF Recounted
    <3>2. CASE o # r
      BY <1>1, <2>3, <3>2 DEF Recounted
    <3> QED BY <3>1, <3>2
  <2> QED BY <2>1, <2>2, <2>3 DEF SerialInv, Recounted
<1>6. Recounted'
  BY <1>5 DEF Recounted
<1> QED BY <1>2, <1>3, <1>6 DEF SerialInv

\* A request whose handler has ended, or will look again, has nothing left to be wrong about.
LEMMA NothingRead ==
  ASSUME NEW q, q.pc \in {"idle", "recheck", "done", "dead"}
  PROVE  SnapshotHolds(q)
BY DEF SnapshotHolds, Reads, Chosen, Compare

LEMMA SerialBegins ==
  ASSUME Shape, Shape', SerialInv, OneAtATime, NEW r \in Req, Begins(r)
  PROVE  SerialInv'
<1>1. /\ status' = status /\ total' = total /\ paidTotal' = paidTotal /\ sums' = sums
      /\ rq[r].pc = "idle"
  BY DEF Begins, BeginTender, BeginSettle, BeginVoidPayment, BeginReprice,
     BeginSetStatus, BeginVoidOrder, BeginDeleteDraft, BeginRecheck, Begin, At, order
<1>2. /\ rq'[r].total = total
      /\ rq'[r].pc \in {"read", "mark", "reprice", "set_status", "void_order", "delete", "reread"}
      /\ rq'[r].pc = "mark" => rq'[r].kind = "void_payment"
      /\ rq'[r].pc = "delete" => status = "draft"
      /\ rq'[r].pc = "reprice" => status \notin Closed
  BY DEF Begins, BeginTender, BeginSettle, BeginVoidPayment, BeginReprice,
     BeginSetStatus, BeginVoidOrder, BeginDeleteDraft, BeginRecheck, Begin, Shape, TypeOK
<1>3. SnapshotHolds(rq[r])'
  BY <1>1, <1>2 DEF SnapshotHolds, Reads, Chosen, Compare
<1>4. Collected' = Collected
  BY <1>1 DEF Collected
<1> QED BY <1>1, <1>3, <1>4, SerialFrame

\* The steps that only read.
LEMMA SerialReads ==
  ASSUME SettlementAssumption, Shape, Shape', SerialInv, OneAtATime, NEW r \in Req,
         \/ RecomputeRead(r) \/ Clamp(r) \/ ReadReturns(r) \/ LockAndCheck(r)
         \/ ReloadForReopen(r) \/ RefuseReprice(r) \/ RecheckAfterReprice(r)
         \/ OrderGone(r) \/ Crash(r)
  PROVE  SerialInv'
<1>0. /\ total \in Nat /\ Tol \in Nat /\ returned \in Nat /\ rq \in [Req -> Request]
      /\ Collected \in Int /\ Settled \in Int
  BY BalancesAreNumbers DEF Shape, TypeOK, SettlementAssumption
<1>1. /\ status' = status /\ total' = total /\ paidTotal' = paidTotal /\ sums' = sums
      /\ Continue(r) \/ Crash(r)
  BY DEF Continue, RecomputeRead, Clamp, ReadReturns, LockAndCheck, ReloadForReopen,
     RefuseReprice, RecheckAfterReprice, OrderGone, Crash, order
<1>2. Collected' = Collected /\ Settled' = Settled
  BY <1>1 DEF Collected, Settled
<1>3. SnapshotHolds(rq[r]) /\ rq[r] \in Request
  BY <1>0 DEF SerialInv
<1>3a. rq[r].amt \in Nat /\ rq[r].total \in Nat /\ rq[r].ret \in Nat /\ rq[r].col \in Int
       /\ rq[r].set \in Int
  BY <1>3 DEF Request
<1> DEFINE Keeps == /\ SnapshotHolds(rq[r])'
                    /\ rq[r].pc \in {"reread", "rewrite", "dead"}
                         => rq'[r].pc \in {"reread", "rewrite", "dead"} \/ status' = "deleted"
<1>4. ASSUME RecomputeRead(r) PROVE Keeps
  <2>1. /\ rq[r].pc \in {"read", "reread"}
        /\ rq'[r].pc = IF rq[r].pc = "read" THEN "write" ELSE "rewrite"
        /\ rq'[r].total = rq[r].total /\ rq'[r].col = Collected /\ rq'[r].set = Settled
    BY <1>0, <1>3, <1>4 DEF RecomputeRead, Request
  <2>2. rq'[r].total = total
    BY <1>3, <2>1 DEF SnapshotHolds
  <2> QED BY <1>1, <1>2, <2>1, <2>2 DEF SnapshotHolds, Reads, Chosen, Compare
<1>5. ASSUME Clamp(r) PROVE Keeps
  <2> DEFINE outstanding == rq[r].total - rq[r].col - returned
  <2>1. /\ rq[r].pc = "clamp"
        /\ \/ rq'[r].pc = "done"
           \/ /\ rq'[r].pc \in {"returns", "lock", "book", "insert"}
              /\ rq'[r].total = rq[r].total /\ rq'[r].col = rq[r].col
              /\ rq'[r].amt = Clamped(rq[r], outstanding)
    BY <1>0, <1>3, <1>5 DEF Clamp, At, Goto, Request
  <2>2. rq[r].total = total /\ rq[r].col = Collected
    BY <1>3, <2>1 DEF SnapshotHolds, Reads
  <2>3. Clamped(rq[r], outstanding) <= outstanding + Tol
    BY <1>0, <1>3a DEF Clamped
  <2>4. Collected + Clamped(rq[r], outstanding) <= total + Tol
    <3>1. outstanding \in Int /\ Clamped(rq[r], outstanding) \in Int
      BY <1>0, <1>3a DEF Clamped
    <3> HIDE DEF outstanding
    <3>2. outstanding = total - Collected - returned
      BY <2>2 DEF outstanding
    <3> QED BY <1>0, <2>3, <3>1, <3>2
  <2>5. CASE rq'[r].pc = "done"
    BY <2>1, <2>5, NothingRead DEF SnapshotHolds, Reads, Chosen, Compare
  <2>6. CASE rq'[r].pc # "done"
    BY <1>1, <1>2, <2>1, <2>2, <2>4, <2>6 DEF SnapshotHolds, Reads, Chosen, Compare
  <2> QED BY <2>5, <2>6
<1>6. ASSUME ReadReturns(r) PROVE Keeps
  <2>1. /\ rq[r].pc = "returns" /\ rq'[r].pc = "lock" /\ rq'[r].total = rq[r].total
        /\ rq'[r].col = rq[r].col /\ rq'[r].amt = rq[r].amt
    BY <1>0, <1>3, <1>6 DEF ReadReturns, At, Request
  <2> QED BY <1>1, <1>2, <1>3, <2>1 DEF SnapshotHolds, Reads, Chosen, Compare
<1>7. ASSUME LockAndCheck(r) PROVE Keeps
  <2> DEFINE fresh == FreshOutstanding(rq[r])
  <2>1. /\ rq[r].pc = "lock"
        /\ \/ rq'[r].pc = "done"
           \/ /\ rq'[r].pc = "commit"
              /\ rq'[r].total = rq[r].total /\ rq'[r].col = rq[r].col
              /\ rq'[r].amt = IF rq[r].amt > fresh + Tol THEN fresh ELSE rq[r].amt
    BY <1>0, <1>3, <1>7 DEF LockAndCheck, At, Goto, Request
  <2>2. rq[r].total = total /\ rq[r].col = Collected
    BY <1>3, <2>1 DEF SnapshotHolds, Reads
  <2>3. fresh = total - Collected - rq[r].ret
    BY <2>2 DEF FreshOutstanding
  <2>4. CASE rq'[r].pc = "done"
    BY <2>1, <2>4, NothingRead DEF SnapshotHolds, Reads, Chosen, Compare
  <2>5. CASE rq'[r].pc # "done"
    <3> HIDE DEF fresh
    <3>1. Collected + rq'[r].amt <= total + Tol
      BY <1>0, <1>3a, <2>1, <2>3, <2>5
    <3> QED BY <1>1, <1>2, <2>1, <2>2, <2>5, <3>1 DEF SnapshotHolds, Reads, Chosen, Compare
  <2> QED BY <2>4, <2>5
<1>8. ASSUME ReloadForReopen(r) PROVE Keeps
  <2>1. /\ rq[r].pc = "reload" /\ rq'[r].pc \in {"reopen", "done"}
        /\ rq'[r].total = rq[r].total /\ rq'[r].set = rq[r].set
    BY <1>0, <1>3, <1>8 DEF ReloadForReopen, At, Goto, Request
  <2> QED BY <1>1, <1>2, <1>3, <2>1 DEF SnapshotHolds, Reads, Chosen, Compare
<1>9. ASSUME RefuseReprice(r) \/ OrderGone(r) \/ Crash(r) PROVE Keeps
  <2>1. /\ rq'[r].pc \in {"done", "dead"}
        /\ rq'[r].pc = "done" => rq[r].pc = "reprice" \/ status = "deleted"
    <3>1. ASSUME RefuseReprice(r) PROVE rq'[r].pc = "done" /\ rq[r].pc = "reprice"
      BY <1>0, <3>1 DEF RefuseReprice, At, Goto
    <3>2. ASSUME OrderGone(r) PROVE rq'[r].pc = "done" /\ status = "deleted"
      BY <1>0, <3>2 DEF OrderGone, Goto
    <3>3. ASSUME Crash(r) PROVE rq'[r].pc = "dead"
      BY <1>0, <3>3 DEF Crash, Goto
    <3> QED BY <1>9, <3>1, <3>2, <3>3
  <2> QED BY <1>1, <2>1 DEF SnapshotHolds, Reads, Chosen, Compare
<1>10. ASSUME RecheckAfterReprice(r) PROVE Keeps
  <2>1. rq[r].pc = "recheck" /\ rq'[r].pc = "reread" /\ rq'[r].total = total
    BY <1>0, <1>10 DEF RecheckAfterReprice, At
  <2> QED BY <1>1, <2>1 DEF SnapshotHolds, Reads, Chosen, Compare
<1>11. Keeps
  BY <1>4, <1>5, <1>6, <1>7, <1>8, <1>9, <1>10
<1> QED BY <1>1, <1>2, <1>11, SerialFrame

\* The steps that write rows or paid_total, and those that write the rest of the order.
LEMMA SerialWrites ==
  ASSUME SettlementAssumption, Shape, Shape', SerialInv, OneAtATime, NEW r \in Req,
         Continue(r),
         ~(RecomputeRead(r) \/ Clamp(r) \/ ReadReturns(r) \/ LockAndCheck(r)
           \/ ReloadForReopen(r) \/ RefuseReprice(r) \/ RecheckAfterReprice(r)
           \/ OrderGone(r))
  PROVE  SerialInv'
<1>0. /\ total \in Nat /\ rq \in [Req -> Request]
      /\ SnapshotHolds(rq[r]) /\ rq[r] \in Request
  BY DEF Shape, TypeOK, SerialInv
<1>1. CASE RecomputeWrite(r)
  <2>1. /\ status' = status /\ total' = total /\ sums' = sums /\ paidTotal' = rq[r].col
        /\ rq'[r].total = rq[r].total /\ rq'[r].col = rq[r].col /\ rq'[r].set = rq[r].set
    BY <1>0, <1>1 DEF RecomputeWrite, Goto, Request
  <2>2. \/ rq[r].pc = "write" /\ rq'[r].pc = "clamp"
        \/ rq[r].pc = "rewrite" /\ rq'[r].pc \in {"done", "reload"}
        \/ rq[r].pc = "rewrite" /\ rq'[r].pc = "claim" /\ CoversTotal(rq[r])
    BY <1>0, <1>1 DEF RecomputeWrite, Goto, At, AfterRewrite
  <2>3. Collected' = Collected /\ Settled' = Settled
    BY <2>1 DEF Collected, Settled
  <2>4. paidTotal' = Collected'
    BY <1>0, <2>1, <2>2, <2>3 DEF SnapshotHolds, Reads
  <2>5. SnapshotHolds(rq[r])'
    BY <1>0, <2>1, <2>2, <2>3 DEF SnapshotHolds, Reads, Chosen, Compare, CoversTotal
  <2> QED BY <1>1, <2>4, <2>5, SerialFrame DEF Continue
<1>2. CASE CommitLocked(r) \/ InsertRow(r) \/ MarkVoided(r)
  <2> DEFINE Counts == /\ rq[r].pc \in {"commit", "insert", "mark"} /\ rq'[r].pc = "reread"
                       /\ rq'[r].total = rq[r].total /\ total' = total
  <2>1. Counts
    <3>1. ASSUME CommitLocked(r) \/ InsertRow(r) PROVE Counts
      BY <1>0, <3>1 DEF CommitLocked, InsertRow, At, Goto, Request, order
    <3>2. ASSUME MarkVoided(r) PROVE Counts
      BY <1>0, <3>2 DEF MarkVoided, At, Goto, Request, order
    <3> QED BY <1>2, <3>1, <3>2
  <2>2. SnapshotHolds(rq[r])'
    BY <1>0, <2>1 DEF SnapshotHolds, Reads, Chosen, Compare
  <2> QED BY <1>2, <2>1, <2>2, SerialFrame DEF Continue
<1>3. CASE BookCredit(r)
  <2>1. /\ status' = status /\ total' = total /\ sums' = sums /\ paidTotal' = paidTotal
        /\ rq[r].pc = "book" /\ rq'[r].pc \in {"insert", "done"}
        /\ rq'[r].total = rq[r].total /\ rq'[r].col = rq[r].col /\ rq'[r].amt = rq[r].amt
    BY <1>0, <1>3 DEF BookCredit, At, Goto, Request
  <2>2. Collected' = Collected
    BY <2>1 DEF Collected
  <2>3. SnapshotHolds(rq[r])'
    BY <1>0, <2>1, <2>2, SettlementAssumption DEF SnapshotHolds, Reads, Chosen, Compare
  <2> QED BY <1>3, <2>1, <2>2, <2>3, SerialFrame DEF Continue
<1>4. CASE \/ ClaimCompletion(r) \/ Reopen(r) \/ Reprice(r) \/ UpdateStatus(r)
           \/ VoidOrder(r) \/ HardDeleteDraft(r)
  <2> DEFINE Ends ==
        /\ rq[r].pc \in {"claim", "reopen", "reprice", "set_status", "void_order", "delete"}
        /\ rq'[r].pc \in {"done", "recheck"} /\ paidTotal' = paidTotal
        /\ sums' = sums \/ status' = "deleted"
  <2>1. Ends
    <3>1. ASSUME ClaimCompletion(r) PROVE Ends
      BY <1>0, <3>1 DEF ClaimCompletion, At, Goto
    <3>1a. ASSUME Reopen(r) PROVE Ends
      BY <1>0, <3>1a DEF Reopen, At, Goto
    <3>1b. ASSUME UpdateStatus(r) PROVE Ends
      BY <1>0, <3>1b DEF UpdateStatus, At, Goto
    <3>1c. ASSUME VoidOrder(r) PROVE Ends
      BY <1>0, <3>1c DEF VoidOrder, At, Goto
    <3>2. ASSUME Reprice(r) PROVE Ends
      BY <1>0, <3>2 DEF Reprice, At, Goto
    <3>3. ASSUME HardDeleteDraft(r) PROVE Ends
      BY <1>0, <3>3 DEF HardDeleteDraft, SetStatus, At, Goto
    <3> QED BY <1>4, <3>1, <3>1a, <3>1b, <3>1c, <3>2, <3>3
  <2>2. SnapshotHolds(rq[r])'
    BY <2>1 DEF SnapshotHolds, Reads, Chosen, Compare
  <2>3. sums' = sums => Collected' = Collected
    BY DEF Collected
  <2> QED BY <1>4, <2>1, <2>2, <2>3, SerialFrame DEF Continue
<1> QED BY <1>1, <1>2, <1>3, <1>4 DEF Continue

LEMMA SerialStep ==
  ASSUME SettlementAssumption, Shape, Shape', SerialInv, [Next /\ OneAtATime]_vars
  PROVE  SerialInv'
<1>1. ASSUME NEW r \in Req, OneAtATime, Begins(r) \/ Continue(r) \/ Crash(r) PROVE SerialInv'
  BY <1>1, SerialBegins, SerialReads, SerialWrites
<1>2. CASE ReleaseHeldOrder
  <2>1. /\ total' = total /\ paidTotal' = paidTotal /\ sums' = sums /\ rq' = rq
        /\ status = "awaiting_acceptance" /\ status' = "open"
    BY <1>2 DEF ReleaseHeldOrder, SetStatus
  <2>2. Collected' = Collected /\ Settled' = Settled
    BY <2>1 DEF Collected, Settled
  <2>3. ASSUME NEW o \in Req PROVE SnapshotHolds(rq[o])'
    BY <2>1, <2>2 DEF SerialInv, SnapshotHolds, Closed
  <2> QED BY <2>1, <2>2, <2>3 DEF SerialInv, OneRunning, Running, Recounted
<1>3. CASE CompleteReturn \/ UNCHANGED vars
  <2>1. /\ total' = total /\ paidTotal' = paidTotal /\ sums' = sums /\ rq' = rq
        /\ status' = status
    BY <1>3 DEF CompleteReturn, order, vars
  <2>2. Collected' = Collected /\ Settled' = Settled
    BY <2>1 DEF Collected, Settled
  <2>3. ASSUME NEW o \in Req PROVE SnapshotHolds(rq[o])'
    BY <2>1, <2>2 DEF SerialInv, SnapshotHolds
  <2> QED BY <2>1, <2>2, <2>3 DEF SerialInv, OneRunning, Running, Recounted
<1> QED BY <1>1, <1>2, <1>3 DEF Next

LEMMA StillCovered ==
  \A paid, more, tol, due \in Int : more >= paid /\ paid + tol >= due => more + tol >= due
OBVIOUS

\* What stands at a completed order stands after every step, if no client may ask for the
\* status completed.
LEMMA ReopensStep ==
  ASSUME SettlementAssumption, "completed" \notin Targets, Shape, Shape', SerialInv,
         ReopensNext, OneAtATime, NEW r \in Req, Begins(r) \/ Continue(r) \/ Crash(r)
  PROVE  ReopensNext'
<1> SUFFICES ASSUME status' = "completed"
             PROVE  \/ Settled' + Tol >= total'
                    \/ \E o \in Req : rq'[o].pc = "dead" \/ Voiding(rq'[o])
  BY DEF ReopensNext, Voiding
<1>0. /\ total \in Nat /\ Tol \in Nat /\ rq \in [Req -> Request] /\ rq[r] \in Request
      /\ SnapshotHolds(rq[r]) /\ Settled \in Int
  BY BalancesAreNumbers DEF Shape, TypeOK, SettlementAssumption, SerialInv
<1>0a. Settled' \in Int
  BY DEF Shape, TypeOK, Method, Collected, Settled
<1>1. ASSUME status # "completed" PROVE Settled' + Tol >= total'
  <2>1. ClaimCompletion(r)
    <3>1. ~(Begins(r) \/ Crash(r))
      BY <1>1 DEF Begins, BeginTender, BeginSettle, BeginVoidPayment, BeginReprice,
         BeginSetStatus, BeginVoidOrder, BeginDeleteDraft, BeginRecheck, Begin, Crash, order
    <3>2. ~(Reopen(r) \/ Reprice(r) \/ UpdateStatus(r) \/ VoidOrder(r) \/ HardDeleteDraft(r))
      BY <1>1 DEF Reopen, Reprice, UpdateStatus, VoidOrder, HardDeleteDraft, SetStatus
    <3>3. ~(RecomputeRead(r) \/ RecomputeWrite(r) \/ Clamp(r) \/ ReadReturns(r)
            \/ LockAndCheck(r) \/ CommitLocked(r) \/ BookCredit(r) \/ InsertRow(r)
            \/ MarkVoided(r) \/ ReloadForReopen(r) \/ RefuseReprice(r)
            \/ RecheckAfterReprice(r) \/ OrderGone(r))
      BY <1>1 DEF RecomputeRead, RecomputeWrite, Clamp, ReadReturns, LockAndCheck,
         CommitLocked, BookCredit, InsertRow, MarkVoided, ReloadForReopen, RefuseReprice,
         RecheckAfterReprice, OrderGone, order
    <3> QED BY <3>1, <3>2, <3>3 DEF Continue
  <2>2. rq[r].pc = "claim" /\ sums' = sums /\ total' = total
    BY <2>1 DEF ClaimCompletion, At
  <2>3. Settled' = Settled
    BY <2>2 DEF Settled, Collected
  <2> QED BY <1>0, <2>2, <2>3 DEF SnapshotHolds, Compare
<1>2. ASSUME status = "completed", Settled + Tol >= total
      PROVE  Settled' + Tol >= total' \/ Voiding(rq'[r])
  <2>1. total' = total
    <3>1. ~Reprice(r)
      BY <1>0, <1>2 DEF Reprice, At, SnapshotHolds, Closed
    <3>2. Begins(r) \/ Crash(r) => total' = total
      BY DEF Begins, BeginTender, BeginSettle, BeginVoidPayment, BeginReprice,
         BeginSetStatus, BeginVoidOrder, BeginDeleteDraft, BeginRecheck, Begin, Crash, order
    <3>3. Continue(r) => total' = total
      BY <3>1 DEF Continue, RecomputeRead, RecomputeWrite, Clamp, ReadReturns, LockAndCheck,
         CommitLocked, BookCredit, InsertRow, ClaimCompletion, MarkVoided, ReloadForReopen,
         Reopen, RefuseReprice, RecheckAfterReprice, UpdateStatus, VoidOrder,
         HardDeleteDraft, OrderGone, order
    <3> QED BY <3>2, <3>3
  <2>2. CASE AddsRow(r)
    <3>1. Settled' >= Settled
      BY <2>2, RowAdds
    <3>2. Settled \in Int /\ Settled' \in Int /\ Tol \in Int /\ total \in Int
      BY <1>0, <1>0a
    <3>3. Settled + Tol >= total
      BY <1>2
    <3>4. Settled' + Tol >= total
      BY <3>1, <3>2, <3>3, StillCovered
    <3> QED BY <2>1, <3>4
  <2>3. CASE MarkVoided(r)
    <3>1. rq[r].pc = "mark" /\ rq'[r].pc = "reread" /\ rq'[r].kind = rq[r].kind
      BY <1>0, <2>3 DEF MarkVoided, At, Goto, Request
    <3> QED BY <1>0, <3>1 DEF SnapshotHolds, Voiding
  <2>4. ~HardDeleteDraft(r)
    BY DEF HardDeleteDraft, SetStatus
  <2>5. CASE ~AddsRow(r) /\ ~MarkVoided(r)
    <3>1. sums' = sums
      BY <2>4, <2>5, RowsUntouched
    <3> QED BY <1>2, <2>1, <3>1 DEF Settled, Collected
  <2> QED BY <2>2, <2>3, <2>5
<1>3. ASSUME NEW o \in Req \ {r}, rq[o].pc = "dead" \/ Voiding(rq[o]) PROVE rq'[o].pc = "dead"
  <2>1. rq'[o] = rq[o] /\ rq[o].pc \in {"idle", "done", "dead"}
    BY Alone DEF SerialInv
  <2> QED BY <1>3, <2>1 DEF Voiding
<1>4. ASSUME rq[r].pc = "dead" PROVE FALSE
  <2>1. ~(Begins(r) \/ Crash(r))
    BY <1>4 DEF Begins, BeginTender, BeginSettle, BeginVoidPayment, BeginReprice,
       BeginSetStatus, BeginVoidOrder, BeginDeleteDraft, BeginRecheck, Begin, Crash, At
  <2>2. ~Continue(r)
    BY <1>4 DEF Continue, At, RecomputeRead, RecomputeWrite, Clamp, ReadReturns,
       LockAndCheck, CommitLocked, BookCredit, InsertRow, ClaimCompletion, MarkVoided,
       ReloadForReopen, Reopen, Reprice, RefuseReprice, RecheckAfterReprice, UpdateStatus,
       VoidOrder, HardDeleteDraft, OrderGone
  <2> QED BY <2>1, <2>2
<1>5. ASSUME status = "completed", Voiding(rq[r])
      PROVE  Settled' + Tol >= total' \/ rq'[r].pc = "dead" \/ Voiding(rq'[r])
  <2>1. rq[r].kind = "void_payment" /\ rq[r].pc \in {"reread", "rewrite", "reload", "reopen"}
    BY <1>5 DEF Voiding
  <2>2. CASE RecomputeRead(r) \/ RecomputeWrite(r)
    <3>1. rq'[r].kind = rq[r].kind /\ rq'[r].pc \in {"rewrite", "reload"}
      BY <1>0, <2>1, <2>2 DEF RecomputeRead, RecomputeWrite, AfterRewrite, Goto, At, Request
    <3> QED BY <2>1, <3>1 DEF Voiding
  <2>3. CASE ReloadForReopen(r)
    <3>1. /\ rq'[r].kind = rq[r].kind /\ sums' = sums /\ total' = total /\ rq[r].pc = "reload"
          /\ rq'[r].pc = IF rq[r].set + Tol < total THEN "reopen" ELSE "done"
      BY <1>0, <1>5, <2>3 DEF ReloadForReopen, Goto, At, Request, order
    <3>2. Settled' = Settled /\ rq[r].set = Settled
      BY <1>0, <3>1 DEF Settled, Collected, SnapshotHolds, Compare
    <3> QED BY <1>0, <2>1, <3>1, <3>2 DEF Voiding
  <2>4. CASE Crash(r)
    BY <1>0, <2>4 DEF Crash, Goto
  <2>5. ~Begins(r)
    BY <2>1 DEF Begins, BeginTender, BeginSettle, BeginVoidPayment, BeginReprice,
       BeginSetStatus, BeginVoidOrder, BeginDeleteDraft, BeginRecheck, Begin, At
  <2>6. Continue(r) => RecomputeRead(r) \/ RecomputeWrite(r) \/ ReloadForReopen(r)
    <3>1. ~(Reopen(r) \/ OrderGone(r))
      BY <1>5 DEF Reopen, OrderGone, SetStatus
    <3>2. ~(Clamp(r) \/ ReadReturns(r) \/ LockAndCheck(r) \/ CommitLocked(r) \/ BookCredit(r)
            \/ InsertRow(r) \/ ClaimCompletion(r) \/ MarkVoided(r) \/ Reprice(r)
            \/ RefuseReprice(r) \/ RecheckAfterReprice(r) \/ UpdateStatus(r) \/ VoidOrder(r)
            \/ HardDeleteDraft(r))
      BY <2>1 DEF At, Clamp, ReadReturns, LockAndCheck, CommitLocked, BookCredit, InsertRow,
         ClaimCompletion, MarkVoided, Reprice, RefuseReprice, RecheckAfterReprice,
         UpdateStatus, VoidOrder, HardDeleteDraft
    <3> QED BY <3>1, <3>2 DEF Continue
  <2> QED BY <2>2, <2>3, <2>4, <2>5, <2>6
<1> QED
  BY <1>1, <1>2, <1>3, <1>4, <1>5 DEF ReopensNext

LEMMA SerialStart ==
  ASSUME Init
  PROVE  SerialInv /\ ReopensNext
<1>1. /\ \A r \in Req : rq[r].pc = "idle"
      /\ paidTotal = 0 /\ sums = [m \in Method |-> 0] /\ status # "completed"
  BY SettlementAssumption DEF Init, Idle
<1>2. Collected = 0
  BY <1>1 DEF Collected, Method
<1>3. \A r \in Req : SnapshotHolds(rq[r])
  BY <1>1, NothingRead
<1> QED BY <1>1, <1>2, <1>3 DEF SerialInv, OneRunning, Running, Recounted, ReopensNext

LEMMA SerialStays ==
  ASSUME SettlementAssumption
  PROVE  SerialSpec => [](Shape /\ SerialInv)
<1>1. Init => SerialInv
  BY SerialStart
<1>2. Shape /\ Shape' /\ SerialInv /\ [Next /\ OneAtATime]_vars => SerialInv'
  BY SerialStep
<1>3. [Next /\ OneAtATime]_vars => [Next]_vars
  OBVIOUS
<1>4. Spec => []Shape
  BY ShapeInvariant
<1> QED BY <1>1, <1>2, <1>3, <1>4, PTL DEF Spec, SerialSpec

\* When requests do not overlap, paid_total is what was collected whenever nobody runs, which
\* is what the comment of RecomputePaidTotal promises (PaidTotalConsistent): the lost
\* recounts TLC finds all need two requests at once.
THEOREM SerialRecounts ==
  ASSUME SettlementAssumption
  PROVE  SerialSpec => []PaidTotalConsistent
<1>1. SerialInv => PaidTotalConsistent
  BY DEF SerialInv, Recounted, PaidTotalConsistent, Quiet
<1> QED BY <1>1, SerialStays, PTL

\* When requests do not overlap, no tender, locked or not, of the legacy endpoint or not,
\* collects more than the order is worth at that moment (NeverCollectsBeyondWorth): what the
\* run settle_over_collects shows needs a discount between a till's two reads.
THEOREM SerialCollectsWithinWorth ==
  ASSUME SettlementAssumption
  PROVE  SerialSpec => NeverCollectsBeyondWorth
<1> DEFINE Within == Collected' > Collected => Collected' <= total' + Tol
<1>1. Shape /\ Shape' /\ SerialInv /\ [Next /\ OneAtATime]_vars => [Within]_vars
  <2> SUFFICES ASSUME Shape, Shape', SerialInv, Next PROVE Within
    OBVIOUS
  <2>0. /\ Collected \in Int /\ total \in Nat /\ total' \in Nat /\ Tol \in Nat
        /\ sums \in [Method -> Int]
    BY BalancesAreNumbers DEF Shape, TypeOK, SettlementAssumption
  <2>1. ASSUME NEW r \in Req, AddsRow(r) PROVE Within
    <3>1. rq[r].pc \in {"commit", "insert"} /\ total' = total /\ rq[r].amt \in Nat
      BY <2>1 DEF AddsRow, CommitLocked, InsertRow, At, order, Shape, TypeOK, Request
    <3>2. Collected + rq[r].amt <= total + Tol
      BY <3>1 DEF SerialInv, SnapshotHolds, Chosen
    <3>3. MethodOf(rq[r].kind) \in Method
      BY <2>1 DEF AddsRow, CommitLocked, InsertRow, At, Shape, KindsInPlace, KindFits,
         BeforeRow, MethodOf, Method, Locked, Tenders
    <3>4. sums' = [sums EXCEPT ![MethodOf(rq[r].kind)] = @ + rq[r].amt]
      BY <2>1 DEF AddsRow, CommitLocked, InsertRow, AddRow
    <3>5. Collected' <= Collected + rq[r].amt /\ Collected' \in Int
      BY <2>0, <3>1, <3>3, <3>4 DEF Collected, Method
    <3> QED BY <2>0, <3>1, <3>2, <3>5
  <2>2. ASSUME NEW r \in Req, MarkVoided(r) PROVE Within
    <3>1. PICK p \in Req : /\ pay[p].meth \in Manual
                           /\ sums' = [sums EXCEPT ![pay[p].meth] = @ - VoidedAmount(p)]
      BY <2>2 DEF MarkVoided, At, Shape, RowsInPlace, RowFits
    <3>2. VoidedAmount(p) \in Nat
      BY DEF VoidedAmount, Shape, TypeOK, Row
    <3>3. Collected' <= Collected /\ Collected' \in Int
      BY <2>0, <3>1, <3>2 DEF Collected, Method, Manual
    <3> QED BY <2>0, <3>3
  <2>3. ASSUME NEW r \in Req, HardDeleteDraft(r) PROVE Within
    <3>1. Collected' = 0
      BY <2>3 DEF HardDeleteDraft, Collected, Method
    <3>2. \A d, t \in Nat : 0 <= d + t
      OBVIOUS
    <3> QED BY <2>0, <3>1, <3>2
  <2>4. ASSUME sums' = sums PROVE Within
    <3>1. Collected' = Collected
      BY <2>4 DEF Collected
    <3> QED BY <2>0, <3>1
  <2>5. CASE ReleaseHeldOrder \/ CompleteReturn
    BY <2>4, <2>5 DEF ReleaseHeldOrder, CompleteReturn
  <2> HIDE DEF Within
  <2>6. ASSUME NEW r \in Req, Begins(r) \/ Continue(r) \/ Crash(r) PROVE Within
    BY <2>1, <2>2, <2>3, <2>4, <2>6, RowsUntouched
  <2> QED BY <2>5, <2>6 DEF Next
<1>2. SerialSpec => [][Next /\ OneAtATime]_vars
  BY PTL DEF SerialSpec
<1> QED BY <1>1, <1>2, SerialStays, PTL DEF NeverCollectsBeyondWorth

\* When requests do not overlap, only drafts are deleted (DeletesOnlyDrafts, the comment of
\* DeleteDraftOrder).
THEOREM SerialDeletesDrafts ==
  ASSUME SettlementAssumption
  PROVE  SerialSpec => DeletesOnlyDrafts
<1> DEFINE Draft == status' = "deleted" /\ status # "deleted" => status = "draft"
<1>1. Shape /\ SerialInv /\ [Next /\ OneAtATime]_vars => [Draft]_vars
  <2> SUFFICES ASSUME Shape, SerialInv, Next, status' = "deleted", status # "deleted"
               PROVE  status = "draft"
    OBVIOUS
  <2>1. ASSUME NEW r \in Req, HardDeleteDraft(r) PROVE status = "draft"
    BY <2>1 DEF HardDeleteDraft, At, SerialInv, SnapshotHolds
  <2>2. ASSUME NEW r \in Req, Continue(r) PROVE HardDeleteDraft(r)
    <3>1. ~(ClaimCompletion(r) \/ Reopen(r) \/ Reprice(r) \/ VoidOrder(r))
      BY DEF ClaimCompletion, Reopen, Reprice, VoidOrder, SetStatus
    <3>2. ~UpdateStatus(r)
      BY DEF UpdateStatus, SetStatus, SettlementAssumption
    <3>3. ~(RecomputeRead(r) \/ RecomputeWrite(r) \/ Clamp(r) \/ ReadReturns(r)
            \/ LockAndCheck(r) \/ CommitLocked(r) \/ BookCredit(r) \/ InsertRow(r)
            \/ MarkVoided(r) \/ ReloadForReopen(r) \/ RefuseReprice(r)
            \/ RecheckAfterReprice(r) \/ OrderGone(r))
      BY DEF RecomputeRead, RecomputeWrite, Clamp, ReadReturns, LockAndCheck,
         CommitLocked, BookCredit, InsertRow, MarkVoided, ReloadForReopen, RefuseReprice,
         RecheckAfterReprice, OrderGone, order
    <3> QED BY <2>2, <3>1, <3>2, <3>3 DEF Continue
  <2>3. ASSUME NEW r \in Req PROVE ~(Begins(r) \/ Crash(r))
    BY DEF Begins, BeginTender, BeginSettle, BeginVoidPayment, BeginReprice,
       BeginSetStatus, BeginVoidOrder, BeginDeleteDraft, BeginRecheck, Begin, Crash, order
  <2>4. ~(ReleaseHeldOrder \/ CompleteReturn)
    BY DEF ReleaseHeldOrder, CompleteReturn, SetStatus, order
  <2> QED BY <2>1, <2>2, <2>3, <2>4 DEF Next
<1>2. SerialSpec => [][Next /\ OneAtATime]_vars
  BY PTL DEF SerialSpec
<1> QED BY <1>1, <1>2, SerialStays, PTL DEF DeletesOnlyDrafts

\* When requests do not overlap and no client asks for the status completed, a completed order
\* whose payments were voided has been reopened by the time nobody runs (UncoveredReopens, the
\* comment of VoidPayment).
THEOREM SerialReopens ==
  ASSUME SettlementAssumption, "completed" \notin Targets
  PROVE  SerialSpec => []UncoveredReopens
<1>1. Init => ReopensNext
  BY SerialStart
<1>2. Shape /\ Shape' /\ SerialInv /\ ReopensNext /\ [Next /\ OneAtATime]_vars => ReopensNext'
  <2> SUFFICES ASSUME Shape, Shape', SerialInv, ReopensNext, [Next /\ OneAtATime]_vars
               PROVE  ReopensNext'
    OBVIOUS
  <2>1. ASSUME NEW r \in Req, OneAtATime, Begins(r) \/ Continue(r) \/ Crash(r) PROVE ReopensNext'
    BY <2>1, ReopensStep
  <2>2. CASE ReleaseHeldOrder
    BY <2>2 DEF ReleaseHeldOrder, SetStatus, ReopensNext
  <2>3. CASE CompleteReturn \/ UNCHANGED vars
    <3>1. status' = status /\ total' = total /\ sums' = sums /\ rq' = rq
      BY <2>3 DEF CompleteReturn, vars, order
    <3>2. Settled' = Settled
      BY <3>1 DEF Settled, Collected
    <3> QED BY <3>1, <3>2 DEF ReopensNext
  <2> QED BY <2>1, <2>2, <2>3 DEF Next
<1>3. ReopensNext => UncoveredReopens
  BY DEF ReopensNext, UncoveredReopens, Quiet, CompletedIsCovered, Voiding
<1>4. SerialSpec => Init /\ [][Next /\ OneAtATime]_vars
  BY PTL DEF SerialSpec
<1> QED BY <1>1, <1>2, <1>3, <1>4, SerialStays, PTL
=============================================================================
