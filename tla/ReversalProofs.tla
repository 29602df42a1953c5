--------------------------- MODULE ReversalProofs ---------------------------
(***************************************************************************)
(* Whatever overlaps, dies or is lost, for any number of requests,          *)
(* reversals and units: type correctness, that a reversal reported          *)
(* completed has had every effect it stands for, and that the ledgers       *)
(* implement resumable steps.                                               *)
(*                                                                          *)
(* Then, where one reversal runs at a time and the process and its          *)
(* database hold: units are voided once and within what was sold, payment   *)
(* rows are netted once, the treasury's refunds agree with them, points are *)
(* taken once and ledgers only grow.  There the one request at work is the  *)
(* only one whose reading matters, and each effect is tied to the entry of  *)
(* the ledger that stands for it.                                           *)
(***************************************************************************)
EXTENDS Reversal, FiniteSetTheorems, WellFoundedInduction, TLAPS

Places == {"idle", "create", "run", "void", "commit", "post", "post_cash", "post_ar", "persist"}
Scopes == {"none", "full", "partial"}
Seen   == [voided : Nat, by : Rev \cup {None}]
Amounts == [Row -> Nat]
Ledgers == [status : {"none", "pending", "completed", "partial_failure", "failed"},
            scope : Scopes, qty : Nat, steps : Steps]
Requests == [at : Places, r : Rev \cup {None}, scope : Scopes, qty : Nat, k : 1 .. Finished,
             steps : Steps, seen : Seen, was : Amounts, cut : Amounts]
RowOf  == [amount : Nat, by : Rev \cup {None}, cut : Nat]
BookOf == [ids : SUBSET {"whole", "cash", "ar"}, cash : Nat, ar : Nat]

\* What a ledger, or a request's copy of one, calls done has happened.
DoneIsHad(r, steps) == \A k \in Owed : steps[k] = "done" => Has(r, k)

\* A row: its ledger tells the truth, and the line names only a reversal that voided it.
RowInv(r) ==
    /\ line.by = r => voids[r] > 0
    /\ DoneIsHad(r, rev[r].steps)
    /\ rev[r].status = "completed" => \A k \in Owed : Has(r, k)

\* A request: it works for a reversal that exists, where it is tells which step it is in, its
\* copy of the ledger tells the truth, and a transaction that has not locked the line has
\* seen its own reversal there.
RequestInv(p) ==
    LET q == proc[p] IN
    /\ q.at # "idle" => q.r \in Rev
    /\ q.at \notin {"idle", "create"} => rev[q.r].status # "none" /\ DoneIsHad(q.r, q.steps)
    /\ q.at \in {"void", "commit"} => q.k = Totals
    /\ q.at \in {"post", "post_cash", "post_ar"} => q.k = TreasuryGL
    /\ q.at = "persist" => q.k \in Step
    /\ q.at = "post_ar" => "cash" \in books[q.r].ids
    /\ \A r \in Rev : q.seen.by = r => voids[r] > 0
    /\ q.at = "commit" => (lock = p \/ q.seen.by = q.r) /\ \A w \in Row : q.cut[w] <= q.was[w]

IInv == TypeOK /\ (\A r \in Rev : RowInv(r)) /\ (\A p \in Proc : RequestInv(p))

USE DEF Totals, Inventory, TreasuryGL, EtimsNote, Loyalty, Finished

LEMMA Least ==
    ASSUME NEW T, T \subseteq 1 .. 6, 6 \in T
    PROVE  Min(T) \in T /\ \A y \in T : Min(T) <= y
<1>1. \E x \in T : \A y \in T : x <= y
  <2>1. CASE 1 \in T BY <2>1
  <2>2. CASE 1 \notin T /\ 2 \in T BY <2>2
  <2>3. CASE 1 \notin T /\ 2 \notin T /\ 3 \in T BY <2>3
  <2>4. CASE 1 \notin T /\ 2 \notin T /\ 3 \notin T /\ 4 \in T BY <2>4
  <2>5. CASE 1 \notin T /\ 2 \notin T /\ 3 \notin T /\ 4 \notin T BY <2>5
  <2> QED BY <2>1, <2>2, <2>3, <2>4, <2>5
<1> QED BY <1>1 DEF Min

LEMMA FromWithin ==
    ASSUME NEW steps \in Steps, NEW k \in 1 .. 6
    PROVE  From(steps, k) \in 1 .. Finished
<1> DEFINE T == { j \in Step : j >= k /\ steps[j] # "done" } \cup {6}
<1>1. T \subseteq 1 .. 6 /\ 6 \in T
  BY DEF Step
<1>2. Min(T) \in T
  BY <1>1, Least
<1> QED BY <1>1, <1>2 DEF From

LEMMA Cutting ==
    ASSUME TypeOK, NEW r \in Rev
    PROVE  /\ Cuts(r) \in Amounts
           /\ \A w \in Row : Cuts(r)[w] <= rows[w].amount
<1> DEFINE room == [w \in Row |-> IF rows[w].by = r THEN 0 ELSE rows[w].amount]
           credit == Lesser(rev[r].qty, room["on_account"])
           cash == Lesser(rev[r].qty - credit, room["cash"])
<1>1. rev[r].qty \in Nat
  BY DEF TypeOK
<1>2. \A w \in Row : rows[w].amount \in Nat
  BY DEF TypeOK
<1>3. \A w \in Row : room[w] \in Nat /\ room[w] <= rows[w].amount
  BY <1>2
<1>4. "on_account" \in Row /\ "cash" \in Row /\ \A w \in Row : w = "on_account" \/ w = "cash"
  BY DEF Row
<1>5. credit \in Nat /\ credit <= room["on_account"] /\ credit <= rev[r].qty
  BY <1>1, <1>3, <1>4 DEF Lesser
<1>6. cash \in Nat /\ cash <= room["cash"]
  <2> HIDE DEF credit, room
  <2>1. room["cash"] \in Nat
    BY <1>3, <1>4
  <2> QED BY <1>1, <1>5, <2>1 DEF Lesser
<1>7. Cuts(r) = [w \in Row |-> IF w = "on_account" THEN credit ELSE cash]
  BY <1>4 DEF Cuts
<1> HIDE DEF room, credit, cash
<1>8. \A w \in Row : (IF w = "on_account" THEN credit ELSE cash) \in Nat
                   /\ (IF w = "on_account" THEN credit ELSE cash) <= room[w]
  BY <1>4, <1>5, <1>6
<1>9. \A w \in Row : Cuts(r)[w] \in Nat /\ Cuts(r)[w] <= room[w]
  BY <1>7, <1>8
<1>10. \A w \in Row : Cuts(r)[w] <= rows[w].amount
  BY <1>2, <1>3, <1>9
<1> QED BY <1>7, <1>8, <1>10 DEF Amounts

LEMMA HandlingIs ==
    ASSUME NEW at \in Places, NEW r \in Rev \cup {None}, NEW scope \in Scopes, NEW qty \in Nat,
           NEW k \in 1 .. 6, NEW steps \in Steps
    PROVE  Handling(at, r, scope, qty, k, steps) \in Requests
<1>1. Zero \in Amounts /\ Unseen \in Seen
  BY DEF Zero, Unseen, Amounts, Seen
<1> QED BY <1>1 DEF Handling, Requests

LEMMA IdleIs == Idle \in Requests /\ AllPending \in Steps /\ NoRow \in Ledgers
<1>1. AllPending \in Steps
  BY DEF AllPending, Steps
<1>2. NoRow \in Ledgers
  BY <1>1 DEF NoRow, Ledgers, Scopes
<1> QED BY <1>1, <1>2, HandlingIs DEF Idle, Places, Scopes

\* The shapes a request takes as it moves on.
LEMMA Ran ==
    ASSUME NEW f \in [Proc -> Requests], NEW p \in Proc, NEW r \in Rev, NEW steps \in Steps, NEW k \in 1 .. 6
    PROVE  [f EXCEPT ![p] = Handling("run", r, "none", 0, From(steps, k), steps)]
              \in [Proc -> Requests]
<1>1. Handling("run", r, "none", 0, From(steps, k), steps) \in Requests
  BY HandlingIs, FromWithin DEF Places, Scopes
<1> QED BY <1>1

LEMMA MarkedIs ==
    ASSUME NEW f \in [Proc -> Requests], NEW p \in Proc, f[p].k \in Step, NEW v \in {"done", "failed"}
    PROVE  [f EXCEPT ![p].at = "persist", ![p].steps[f[p].k] = v] \in [Proc -> Requests]
<1>1. f[p] \in Requests
  OBVIOUS
<1>2. [f[p].steps EXCEPT ![f[p].k] = v] \in Steps
  BY <1>1 DEF Requests, Steps
<1>3. [f[p] EXCEPT !.at = "persist", !.steps = [f[p].steps EXCEPT ![f[p].k] = v]] \in Requests
  BY <1>1, <1>2 DEF Requests, Places
<1> QED BY <1>3

----------------------------------------------------------------------------
(* Effects only grow, so what has happened has happened for good.           *)

Grown ==
    /\ sale' = sale
    /\ \A r \in Rev : voids[r] <= voids'[r] /\ books[r].ids \subseteq books'[r].ids
    /\ stock \subseteq stock' /\ notes \subseteq notes'

LEMMA HasStays ==
    ASSUME TypeOK, TypeOK', Grown, NEW r \in Rev, NEW k \in Owed, Has(r, k)
    PROVE  Has(r, k)'
<1>1. voids[r] \in Nat /\ voids'[r] \in Nat
  BY DEF TypeOK
<1> QED BY <1>1 DEF Grown, Has, Owed

\* Nothing a request knows is lost by what another one does.
LEMMA OthersKeep ==
    ASSUME TypeOK, TypeOK', Grown, NEW q \in Proc, RequestInv(q), proc'[q] = proc[q],
           \A r \in Rev : rev[r].status # "none" => rev'[r].status # "none",
           lock = q => lock' = q
    PROVE  RequestInv(q)'
<1>1. \A r \in Rev : voids[r] \in Nat /\ voids'[r] \in Nat
  BY DEF TypeOK
<1>2. \A r \in Rev : voids[r] > 0 => voids'[r] > 0
  BY <1>1 DEF Grown
<1>3. ASSUME proc[q].at \notin {"idle", "create"}, NEW k \in Owed, proc[q].steps[k] = "done"
      PROVE  Has(proc[q].r, k)'
  <2>1. proc[q].r \in Rev /\ Has(proc[q].r, k)
    BY <1>3 DEF RequestInv, DoneIsHad
  <2> QED BY <1>2, <2>1 DEF Has, Grown
<1>4. proc[q].at \notin {"idle", "create"} => DoneIsHad(proc[q].r, proc[q].steps)'
  BY <1>3 DEF DoneIsHad
<1>5. proc[q].at = "post_ar" => "cash" \in books'[proc[q].r].ids
  BY DEF RequestInv, Grown
<1> QED BY <1>2, <1>4, <1>5 DEF RequestInv

LEMMA RowsKeep ==
    ASSUME TypeOK, TypeOK', Grown, \A r \in Rev : RowInv(r), rev' = rev, line' = line
    PROVE  \A r \in Rev : RowInv(r)'
<1> SUFFICES ASSUME NEW r \in Rev
             PROVE  RowInv(r)'
  OBVIOUS
<1>1. voids[r] > 0 => voids'[r] > 0
  BY DEF TypeOK, Grown
<1>2. \A k \in Owed : Has(r, k) => Has(r, k)'
  BY HasStays
<1> QED BY <1>1, <1>2 DEF RowInv, DoneIsHad

\* A step of p that keeps the effects and rows, and knows what it does itself, keeps it all.
LEMMA Preserved ==
    ASSUME IInv, TypeOK', Grown, NEW p \in Proc,
           \A q \in Proc \ {p} : proc'[q] = proc[q] /\ (lock = q => lock' = q),
           \A r \in Rev : rev[r].status # "none" => rev'[r].status # "none",
           \A r \in Rev : RowInv(r)', RequestInv(p)'
    PROVE  IInv'
<1>1. \A q \in Proc \ {p} : RequestInv(q)'
  <2> SUFFICES ASSUME NEW q \in Proc \ {p}
               PROVE  RequestInv(q)'
    OBVIOUS
  <2>1. TypeOK /\ RequestInv(q)
    BY DEF IInv
  <2>2. proc'[q] = proc[q] /\ (lock = q => lock' = q)
    OBVIOUS
  <2> QED BY <2>1, <2>2, OthersKeep
<1> QED BY <1>1 DEF IInv

\* The part of the type that is not the requests'.
TypeRest ==
    /\ sale \in Sales
    /\ status \in {"completed", "refunded"}
    /\ line \in Seen
    /\ rows \in [Row -> RowOf]
    /\ lock \in Proc \cup {None}
    /\ rev \in [Rev -> Ledgers]
    /\ voids \in [Rev -> Nat] /\ clawed \in [Rev -> Nat]
    /\ stock \subseteq Rev /\ notes \subseteq Rev
    /\ books \in [Rev -> BookOf]
    /\ faults \in 0 .. MaxFaults

LEMMA Typing == TypeOK <=> TypeRest /\ proc \in [Proc -> Requests]
BY DEF TypeOK, TypeRest, Seen, RowOf, Ledgers, BookOf, Requests, Places, Scopes, Amounts

LEMMA TypingNext == TypeOK' <=> TypeRest' /\ (proc \in [Proc -> Requests])'
BY Typing, PTL

\* A request that becomes x, and nothing else in the way.
LEMMA Becomes ==
    ASSUME NEW f \in [Proc -> Requests], NEW p \in Proc, NEW x \in Requests
    PROVE  /\ [f EXCEPT ![p] = x] \in [Proc -> Requests]
           /\ [f EXCEPT ![p] = x][p] = x
           /\ \A q \in Proc \ {p} : [f EXCEPT ![p] = x][q] = f[q]
OBVIOUS

LEMMA FaultIs == ASSUME TypeOK, Fault PROVE faults' \in 0 .. MaxFaults
BY ReversalAssumption DEF TypeOK, Fault

\* A request that is over, or only starts, claims nothing.
LEMMA IdleClaimsNothing ==
    ASSUME NEW p \in Proc, proc'[p].at \in {"idle", "create"}, proc'[p].at = "create" => proc'[p].r \in Rev,
           proc'[p].seen.by = None
    PROVE  RequestInv(p)'
<1>1. \A r \in Rev : proc'[p].seen.by # r
  BY ReversalAssumption
<1> QED BY <1>1 DEF RequestInv

\* A request that starts or resumes its run with a ledger that tells the truth.
LEMMA RunClaims ==
    ASSUME NEW p \in Proc, NEW r \in Rev, NEW steps, NEW k,
           proc'[p] = Handling("run", r, "none", 0, k, steps),
           rev'[r].status # "none", \A j \in Owed : steps[j] = "done" => Has(r, j)'
    PROVE  RequestInv(p)'
<1>1. proc'[p].at = "run" /\ proc'[p].r = r /\ proc'[p].steps = steps /\ proc'[p].seen = Unseen
  BY DEF Handling
<1>2. DoneIsHad(proc[p].r, proc[p].steps)'
  BY <1>1 DEF DoneIsHad, Has
<1>3. \A j \in Rev : proc'[p].seen.by # j
  BY <1>1, ReversalAssumption DEF Unseen
<1>4. proc'[p].at = "run" /\ proc'[p].r \in Rev /\ rev'[proc'[p].r].status # "none"
  BY <1>1
<1> QED BY <1>2, <1>3, <1>4 DEF RequestInv
\* A step that returns, its effect there when it says done.
LEMMA MarkedKeeps ==
    ASSUME IInv, TypeRest', Grown, NEW p \in Proc, NEW ok \in BOOLEAN, Marked(p, ok),
           NEW r \in Rev, NEW k \in Step, proc[p].r = r, proc[p].k = k,
           proc[p].at \notin {"idle", "create"},
           rev' = rev, \A o \in Rev : RowInv(o)',
           \A q \in Proc \ {p} : lock = q => lock' = q,
           ok /\ k \in Owed => Has(r, k)'
    PROVE  IInv'
<1> DEFINE v == IF ok THEN "done" ELSE "failed"
<1>1. TypeOK /\ proc \in [Proc -> Requests] /\ proc[p] \in Requests /\ RequestInv(p)
  BY Typing DEF IInv
<1>2. proc' = [proc EXCEPT ![p].at = "persist", ![p].steps[k] = v]
  BY DEF Marked
<1>3. proc' \in [Proc -> Requests]
  BY <1>1, <1>2, MarkedIs
<1>4. TypeOK'
  BY <1>3, TypingNext
<1>5. \A q \in Proc \ {p} : proc'[q] = proc[q]
  BY <1>1, <1>2
<1>6. /\ proc'[p].at = "persist" /\ proc'[p].r = r /\ proc'[p].k = k
      /\ proc'[p].seen = proc[p].seen
      /\ proc'[p].steps = [proc[p].steps EXCEPT ![k] = v]
  BY <1>1, <1>2 DEF Requests
<1>7. rev[r].status # "none" /\ \A j \in Owed : proc[p].steps[j] = "done" => Has(r, j)
  BY <1>1 DEF RequestInv, DoneIsHad
<1>8. ASSUME NEW j \in Owed, proc'[p].steps[j] = "done"
      PROVE  Has(r, j)'
  <2>1. j \in Step /\ proc[p].steps \in Steps
    BY <1>1 DEF Owed, Step, Requests
  <2> DEFINE old == proc[p].steps
             new == proc'[p].steps
  <2>s. old \in Steps /\ new = [old EXCEPT ![k] = v]
    BY <1>6, <2>1
  <2> HIDE DEF old, new
  <2>2. CASE j = k
    <3>1. new[j] = v
      BY <2>1, <2>s, <2>2 DEF Steps
    <3>2. v = "done"
      BY <1>8, <3>1 DEF new
    <3>3. ok
      BY <3>2
    <3> QED BY <2>2, <3>3
  <2>3. CASE j # k
    <3>1. old[j] = new[j]
      BY <2>1, <2>s, <2>3 DEF Steps
    <3>2. old[j] = "done"
      BY <1>8, <3>1 DEF new
    <3>3. Has(r, j)
      BY <1>7, <3>2 DEF old
    <3> QED BY <1>1, <1>4, <1>7, <3>3, HasStays
  <2> QED BY <2>2, <2>3
<1>9. DoneIsHad(proc[p].r, proc[p].steps)'
  <2>1. \A j \in Owed : proc'[p].steps[j] = "done" => Has(r, j)'
    BY <1>8
  <2> QED BY <1>6, <2>1 DEF DoneIsHad, Has
<1>10. \A o \in Rev : proc'[p].seen.by = o => voids'[o] > 0
  <2>1. \A o \in Rev : proc[p].seen.by = o => voids[o] > 0
    BY <1>1 DEF RequestInv
  <2>2. \A o \in Rev : voids[o] \in Nat /\ voids'[o] \in Nat /\ voids[o] <= voids'[o]
    BY <1>1, <1>4 DEF TypeOK, Grown
  <2> QED BY <1>6, <2>1, <2>2
<1>11. RequestInv(p)'
  BY <1>6, <1>7, <1>9, <1>10 DEF RequestInv
<1> QED BY <1>4, <1>5, <1>11, Preserved
----------------------------------------------------------------------------
(* Execute, Retry and the ledger                                            *)

LEMMA InitHolds == Init => IInv
<1> SUFFICES ASSUME Init
             PROVE  IInv
  OBVIOUS
<1>1. TypeRest
  <2>1. rows \in [Row -> RowOf]
    <3>1. \A w \in Row : sale.paid[w] \in Nat
      BY ReversalAssumption DEF Init, Row
    <3> QED BY <3>1 DEF Init, RowOf
  <2>2. books \in [Rev -> BookOf] /\ line \in Seen /\ rev \in [Rev -> Ledgers]
    BY IdleIs DEF Init, BookOf, Seen, Unseen
  <2> QED BY <2>1, <2>2, ReversalAssumption DEF Init, TypeRest
<1>2. proc \in [Proc -> Requests]
  BY IdleIs DEF Init
<1>3. \A r \in Rev : RowInv(r)
  <2>1. \A r \in Rev : line.by # r
    BY ReversalAssumption DEF Init, Unseen
  <2>2. \A r \in Rev : rev[r].status # "completed" /\ \A k \in Step : rev[r].steps[k] # "done"
    BY DEF Init, NoRow, AllPending
  <2>3. Owed \subseteq Step
    BY DEF Owed, Step
  <2> QED BY <2>1, <2>2, <2>3 DEF RowInv, DoneIsHad
<1>4. \A p \in Proc : RequestInv(p)
  <2>1. \A p \in Proc : proc[p].at = "idle" /\ proc[p].seen.by = None
    BY DEF Init, Idle, Handling, Unseen
  <2>2. \A p \in Proc : \A r \in Rev : proc[p].seen.by # r
    BY <2>1, ReversalAssumption
  <2> QED BY <2>1, <2>2 DEF RequestInv
<1> QED BY <1>1, <1>2, <1>3, <1>4, Typing DEF IInv

\* Steps that leave every effect alone.
LEMMA WorldSame ==
    ASSUME TypeOK, UNCHANGED <<sale, status, line, rows, voids, stock, books, notes, clawed>>
    PROVE  Grown /\ (lock' \in Proc \cup {None} /\ rev' \in [Rev -> Ledgers] /\ faults' \in 0 .. MaxFaults => TypeRest')
<1>1. Grown
  BY DEF TypeOK, Grown
<1> QED BY <1>1, Typing DEF TypeRest

LEMMA ExecuteKeeps ==
    ASSUME IInv, NEW p \in Proc, NEW r \in Rev, NEW scope \in {"full", "partial"}, NEW want \in 1 .. Sold,
           Execute(p, r, scope, want)
    PROVE  IInv'
<1> DEFINE qty == IF scope = "full" THEN Remaining ELSE Lesser(want, Remaining)
           x == Handling("create", r, scope, qty, Finished, AllPending)
<1>1. TypeOK /\ TypeRest /\ proc \in [Proc -> Requests]
  BY Typing DEF IInv
<1>2. qty \in Nat
  <2>1. Remaining \in Int /\ Remaining > 0
    <3>1. sale.returned \in 0 .. Sold - 1 /\ line.voided \in Nat /\ Sold \in Nat
      BY <1>1, ReversalAssumption DEF TypeOK
    <3> QED BY <3>1 DEF Remaining, Execute
  <2> QED BY <2>1 DEF Lesser
<1>4. x \in Requests
  BY <1>2, HandlingIs, IdleIs DEF Places, Scopes
<1>5. proc' = [proc EXCEPT ![p] = x]
  BY DEF Execute
<1>6. proc' \in [Proc -> Requests] /\ proc'[p] = x /\ \A q \in Proc \ {p} : proc'[q] = proc[q]
  <2> HIDE DEF x
  <2> QED BY <1>1, <1>4, <1>5, Becomes
<1>7. Grown /\ TypeRest' /\ UNCHANGED <<lock, rev, line>>
  BY <1>1, WorldSame DEF Execute, world, TypeRest
<1>8. TypeOK'
  BY <1>6, <1>7, TypingNext
<1>9. RequestInv(p)'
  <2>1. proc'[p].at = "create" /\ proc'[p].r \in Rev /\ proc'[p].seen.by = None
    BY <1>6 DEF Handling, Unseen
  <2> QED BY <2>1, IdleClaimsNothing
<1>10. \A o \in Rev : RowInv(o)'
  BY <1>1, <1>7, <1>8, RowsKeep DEF IInv
<1> QED BY <1>6, <1>7, <1>8, <1>9, <1>10, Preserved
\* A request that sets out on the steps its copy of the ledger leaves.
LEMMA RunKeeps ==
    ASSUME IInv, NEW p \in Proc, NEW r \in Rev, NEW steps \in Steps, NEW k \in 1 .. 6,
           RunFrom(p, r, steps, k), UNCHANGED <<sale, lock>>, UNCHANGED world,
           rev' \in [Rev -> Ledgers], faults' \in 0 .. MaxFaults,
           \A o \in Rev : rev[o].status # "none" => rev'[o].status # "none",
           \A o \in Rev : DoneIsHad(o, rev'[o].steps) /\ (rev'[o].status = "completed" => \A j \in Owed : Has(o, j)),
           rev'[r].status # "none", DoneIsHad(r, steps)
    PROVE  IInv'
<1> DEFINE x == Handling("run", r, "none", 0, From(steps, k), steps)
<1>1. TypeOK /\ TypeRest /\ proc \in [Proc -> Requests]
  BY Typing DEF IInv
<1>2. proc' = [proc EXCEPT ![p] = x]
  BY DEF RunFrom
<1>3. proc' \in [Proc -> Requests]
  BY <1>1, <1>2, Ran
<1>4. proc'[p] = x /\ \A q \in Proc \ {p} : proc'[q] = proc[q]
  <2> HIDE DEF x
  <2> QED BY <1>1, <1>2
<1>5. Grown /\ TypeRest' /\ line' = line
  BY <1>1, WorldSame DEF world, TypeRest
<1>6. TypeOK'
  BY <1>3, <1>5, TypingNext
<1>7. \A o \in Rev, j \in Owed : Has(o, j) => Has(o, j)'
  BY <1>1, <1>5, <1>6, HasStays
<1>8. RequestInv(p)'
  <2>1. \A j \in Owed : steps[j] = "done" => Has(r, j)'
    BY <1>7 DEF DoneIsHad
  <2> QED BY <1>4, <2>1, RunClaims
<1>9. \A o \in Rev : RowInv(o)'
  <2> SUFFICES ASSUME NEW o \in Rev
               PROVE  RowInv(o)'
    OBVIOUS
  <2>1. line'.by = o => voids'[o] > 0
    BY DEF IInv, RowInv, world
  <2>2. \A j \in Owed : rev'[o].steps[j] = "done" => Has(o, j)'
    BY <1>7 DEF DoneIsHad
  <2>3. rev'[o].status = "completed" => \A j \in Owed : Has(o, j)'
    BY <1>7
  <2> QED BY <2>1, <2>2, <2>3 DEF RowInv, DoneIsHad
<1> QED BY <1>4, <1>5, <1>6, <1>8, <1>9, Preserved

\* A request that ends, whatever it wrote.
LEMMA EndKeeps ==
    ASSUME IInv, NEW p \in Proc, proc' = [proc EXCEPT ![p] = Idle], sale' = sale, UNCHANGED world,
           lock' = lock \/ (lock = p /\ lock' = None),
           rev' \in [Rev -> Ledgers], faults' \in 0 .. MaxFaults,
           \A o \in Rev : rev[o].status # "none" => rev'[o].status # "none",
           \A o \in Rev : DoneIsHad(o, rev'[o].steps) /\ (rev'[o].status = "completed" => \A j \in Owed : Has(o, j))
    PROVE  IInv'
<1>1. TypeOK /\ TypeRest /\ proc \in [Proc -> Requests]
  BY Typing DEF IInv
<1>2. /\ proc' \in [Proc -> Requests] /\ proc'[p] = Idle
      /\ \A q \in Proc \ {p} : proc'[q] = proc[q]
  BY <1>1, Becomes, IdleIs
<1>3. lock' \in Proc \cup {None} /\ \A q \in Proc \ {p} : lock = q => lock' = q
  BY <1>1 DEF TypeRest
<1>4. Grown /\ TypeRest' /\ line' = line
  BY <1>1, <1>3, WorldSame DEF world
<1>5. TypeOK'
  BY <1>2, <1>4, TypingNext
<1>6. \A o \in Rev, j \in Owed : Has(o, j) => Has(o, j)'
  BY <1>1, <1>4, <1>5, HasStays
<1>7. RequestInv(p)'
  <2>1. proc'[p].at = "idle" /\ proc'[p].seen.by = None
    BY <1>2 DEF Idle, Handling, Unseen
  <2> QED BY <2>1, IdleClaimsNothing
<1>8. \A o \in Rev : RowInv(o)'
  <2> SUFFICES ASSUME NEW o \in Rev
               PROVE  RowInv(o)'
    OBVIOUS
  <2>1. line'.by = o => voids'[o] > 0
    BY DEF IInv, RowInv, world
  <2>2. \A j \in Owed : rev'[o].steps[j] = "done" => Has(o, j)'
    BY <1>6 DEF DoneIsHad
  <2>3. rev'[o].status = "completed" => \A j \in Owed : Has(o, j)'
    BY <1>6
  <2> QED BY <2>1, <2>2, <2>3 DEF RowInv, DoneIsHad
<1> QED BY <1>2, <1>3, <1>4, <1>5, <1>7, <1>8, Preserved
\* The rows of a state say nothing false of themselves.
LEMMA RowsTrue ==
    ASSUME IInv, NEW o \in Rev
    PROVE  DoneIsHad(o, rev[o].steps) /\ (rev[o].status = "completed" => \A j \in Owed : Has(o, j))
BY DEF IInv, RowInv

LEMMA NothingDone == ASSUME NEW r PROVE DoneIsHad(r, AllPending)
BY DEF DoneIsHad, AllPending, Owed, Step

LEMMA CreateKeeps ==
    ASSUME IInv, NEW p \in Proc, Create(p)
    PROVE  IInv'
<1>1. TypeOK /\ TypeRest /\ proc[p] \in Requests
  BY Typing DEF IInv
<1>2. proc[p].r \in Rev
  BY DEF IInv, RequestInv, Create, At
<1>3. UNCHANGED <<sale, lock>> /\ UNCHANGED world /\ faults' \in 0 .. MaxFaults
  BY <1>1 DEF Create, TypeRest
<1>4. CASE Exists(proc[p].r)
  <2>1. rev' = rev /\ proc' = [proc EXCEPT ![p] = Idle]
    BY <1>4 DEF Create
  <2>2. rev' \in [Rev -> Ledgers]
    BY <1>1, <2>1 DEF TypeRest
  <2> QED BY <1>3, <2>1, <2>2, RowsTrue, EndKeeps
<1>5. CASE ~Exists(proc[p].r)
  <2> DEFINE r == proc[p].r
             row == [status |-> "pending", scope |-> proc[p].scope, qty |-> proc[p].qty, steps |-> AllPending]
  <2>1. rev' = [rev EXCEPT ![r] = row] /\ RunFrom(p, r, AllPending, 1)
    BY <1>5 DEF Create
  <2>2. row \in Ledgers
    BY <1>1, IdleIs DEF Requests, Ledgers
  <2>3. rev' \in [Rev -> Ledgers] /\ rev'[r] = row /\ \A o \in Rev \ {r} : rev'[o] = rev[o]
    <3> HIDE DEF row
    <3> QED BY <1>1, <1>2, <2>1, <2>2 DEF TypeRest
  <2>4. rev'[r].status = "pending" /\ rev'[r].steps = AllPending
    BY <2>3
  <2>5. \A o \in Rev : DoneIsHad(o, rev'[o].steps) /\ (rev'[o].status = "completed" => \A j \in Owed : Has(o, j))
    <3> SUFFICES ASSUME NEW o \in Rev
                 PROVE  DoneIsHad(o, rev'[o].steps) /\ (rev'[o].status = "completed" => \A j \in Owed : Has(o, j))
      OBVIOUS
    <3>1. CASE o = r
      BY <2>4, <3>1, NothingDone
    <3>2. CASE o # r
      BY <2>3, <3>2, RowsTrue
    <3> QED BY <3>1, <3>2
  <2>6. \A o \in Rev : rev[o].status # "none" => rev'[o].status # "none"
    BY <2>3, <2>4
  <2> HIDE DEF r
  <2>7. r \in Rev
    BY <1>2 DEF r
  <2> QED BY <1>3, <2>1, <2>3, <2>4, <2>5, <2>6, <2>7, NothingDone, IdleIs, RunKeeps
<1> QED BY <1>4, <1>5

LEMMA RetryKeeps ==
    ASSUME IInv, NEW p \in Proc, NEW r \in Rev, Retry(p, r)
    PROVE  IInv'
<1>1. TypeOK /\ TypeRest
  BY Typing DEF IInv
<1>2. RunFrom(p, r, rev[r].steps, 1) /\ UNCHANGED <<sale, lock, rev, faults>> /\ UNCHANGED world /\ rev[r].status # "none"
  BY DEF Retry, Exists
<1>3. rev[r].steps \in Steps /\ rev' \in [Rev -> Ledgers] /\ faults' \in 0 .. MaxFaults
  BY <1>1, <1>2 DEF TypeRest, Ledgers
<1> QED BY <1>2, <1>3, RowsTrue, RunKeeps

\* What a request at work knows.
LEMMA AtWork ==
    ASSUME IInv, NEW p \in Proc, proc[p].at \notin {"idle", "create"}
    PROVE  /\ proc[p] \in Requests /\ proc[p].r \in Rev /\ rev[proc[p].r].status # "none"
           /\ proc[p].steps \in Steps /\ DoneIsHad(proc[p].r, proc[p].steps)
<1>1. proc[p] \in Requests
  BY Typing DEF IInv
<1> QED BY <1>1 DEF IInv, RequestInv, Requests

\* Writing a request's copy over the row's ledger writes nothing false.
LEMMA Written ==
    ASSUME IInv, NEW r \in Rev, NEW steps \in Steps, DoneIsHad(r, steps), rev[r].status # "none",
           NEW st \in {"pending", "completed", "partial_failure", "failed"},
           st = "completed" => \A j \in Owed : Has(r, j),
           rev' = [rev EXCEPT ![r].steps = steps, ![r].status = st]
    PROVE  /\ rev' \in [Rev -> Ledgers]
           /\ \A o \in Rev : rev[o].status # "none" => rev'[o].status # "none"
           /\ \A o \in Rev : DoneIsHad(o, rev'[o].steps) /\ (rev'[o].status = "completed" => \A j \in Owed : Has(o, j))
<1> DEFINE row == [rev[r] EXCEPT !.steps = steps, !.status = st]
<1>1. rev \in [Rev -> Ledgers]
  BY Typing DEF IInv, TypeRest
<1>2. row \in Ledgers /\ row.steps = steps /\ row.status = st
  BY <1>1 DEF Ledgers
<1>3. rev' = [rev EXCEPT ![r] = row]
  BY <1>1
<1> HIDE DEF row
<1>4. rev' \in [Rev -> Ledgers] /\ rev'[r] = row /\ \A o \in Rev \ {r} : rev'[o] = rev[o]
  BY <1>1, <1>2, <1>3
<1>5. \A o \in Rev : DoneIsHad(o, rev'[o].steps) /\ (rev'[o].status = "completed" => \A j \in Owed : Has(o, j))
  <2> SUFFICES ASSUME NEW o \in Rev
               PROVE  DoneIsHad(o, rev'[o].steps) /\ (rev'[o].status = "completed" => \A j \in Owed : Has(o, j))
    OBVIOUS
  <2>1. CASE o = r
    BY <1>2, <1>4, <2>1
  <2>2. CASE o # r
    BY <1>4, <2>2, RowsTrue
  <2> QED BY <2>1, <2>2
<1>6. \A o \in Rev : rev[o].status # "none" => rev'[o].status # "none"
  BY <1>2, <1>4
<1> QED BY <1>4, <1>5, <1>6

LEMMA PersistKeeps ==
    ASSUME IInv, NEW p \in Proc, NEW ok \in BOOLEAN, Persist(p, ok)
    PROVE  IInv'
<1> DEFINE r == proc[p].r
           steps == proc[p].steps
<1>1. TypeOK /\ TypeRest
  BY Typing DEF IInv
<1>2. proc[p].at = "persist"
  BY DEF Persist, At
<1>3. r \in Rev /\ rev[r].status # "none" /\ steps \in Steps /\ DoneIsHad(r, steps)
  BY <1>2, AtWork
<1>4. proc[p].k + 1 \in 1 .. 6
  BY <1>2 DEF IInv, RequestInv, Step
<1>5. RunFrom(p, r, steps, proc[p].k + 1) /\ UNCHANGED <<sale, lock>> /\ UNCHANGED world
  BY DEF Persist
<1>6. faults' \in 0 .. MaxFaults
  BY <1>1, FaultIs DEF Persist, Mishap, TypeRest
<1>7. /\ rev' \in [Rev -> Ledgers]
      /\ \A o \in Rev : rev[o].status # "none" => rev'[o].status # "none"
      /\ \A o \in Rev : DoneIsHad(o, rev'[o].steps) /\ (rev'[o].status = "completed" => \A j \in Owed : Has(o, j))
  <2>1. CASE ok
    <3>1. rev \in [Rev -> Ledgers]
      BY <1>1 DEF TypeRest
    <3>2. rev[r].status \in {"pending", "completed", "partial_failure", "failed"}
      BY <1>3, <3>1 DEF Ledgers
    <3>3. rev' = [rev EXCEPT ![r].steps = steps]
      BY <2>1 DEF Persist
    <3>4. rev' = [rev EXCEPT ![r].steps = steps, ![r].status = rev[r].status]
      BY <1>3, <3>1, <3>3 DEF Ledgers
    <3> HIDE DEF r, steps
    <3> QED BY <1>3, <3>2, <3>4, Written, RowsTrue
  <2>2. CASE ~ok
    <3>1. rev' = rev
      BY <2>2 DEF Persist
    <3> QED BY <1>1, <3>1, RowsTrue DEF TypeRest
  <2> QED BY <2>1, <2>2
<1> HIDE DEF r, steps
<1>8. rev'[r].status # "none"
  BY <1>3, <1>7
<1> QED BY <1>3, <1>4, <1>5, <1>6, <1>7, <1>8, RunKeeps

LEMMA FinalizeKeeps ==
    ASSUME IInv, NEW p \in Proc, NEW ok \in BOOLEAN, Finalize(p, ok)
    PROVE  IInv'
<1> DEFINE r == proc[p].r
           steps == proc[p].steps
<1>1. TypeOK /\ TypeRest
  BY Typing DEF IInv
<1>2. proc[p].at = "run"
  BY DEF Finalize, At_, At
<1>3. r \in Rev /\ rev[r].status # "none" /\ steps \in Steps /\ DoneIsHad(r, steps)
  BY <1>2, AtWork
<1>4. proc' = [proc EXCEPT ![p] = Idle] /\ UNCHANGED <<sale, lock>> /\ UNCHANGED world
  BY DEF Finalize
<1>5. faults' \in 0 .. MaxFaults
  BY <1>1, FaultIs DEF Finalize, Mishap, TypeRest
<1>6. /\ rev' \in [Rev -> Ledgers]
      /\ \A o \in Rev : rev[o].status # "none" => rev'[o].status # "none"
      /\ \A o \in Rev : DoneIsHad(o, rev'[o].steps) /\ (rev'[o].status = "completed" => \A j \in Owed : Has(o, j))
  <2>1. CASE ok
    <3>1. rev' = [rev EXCEPT ![r].steps = steps, ![r].status = Outcome(steps)]
      BY <2>1 DEF Finalize
    <3>2. Outcome(steps) \in {"pending", "completed", "partial_failure", "failed"}
      BY DEF Outcome
    <3>3. Outcome(steps) = "completed" => { k \in Step : steps[k] = "done" } = Step
      BY DEF Outcome
    <3>4. Outcome(steps) = "completed" => \A j \in Owed : Has(r, j)
      <4>1. Owed \subseteq Step
        BY DEF Owed, Step
      <4> HIDE DEF r, steps
      <4> QED BY <1>3, <3>3, <4>1 DEF DoneIsHad
    <3> HIDE DEF r, steps
    <3> QED BY <1>3, <3>1, <3>2, <3>4, Written
  <2>2. CASE ~ok
    <3>1. rev' = rev
      BY <2>2 DEF Finalize
    <3> QED BY <1>1, <3>1, RowsTrue DEF TypeRest
  <2> QED BY <2>1, <2>2
<1> QED BY <1>4, <1>5, <1>6, EndKeeps

LEMMA CrashKeeps ==
    ASSUME IInv, NEW p \in Proc, Crash(p)
    PROVE  IInv'
<1>1. TypeOK /\ TypeRest
  BY Typing DEF IInv
<1>2. proc' = [proc EXCEPT ![p] = Idle] /\ UNCHANGED <<sale, rev>> /\ UNCHANGED world
  BY DEF Crash
<1>3. lock' = lock \/ (lock = p /\ lock' = None)
  BY DEF Crash
<1>4. faults' \in 0 .. MaxFaults /\ rev' \in [Rev -> Ledgers]
  BY <1>1, <1>2, FaultIs DEF Crash, Mishap, TypeRest
<1> QED BY <1>2, <1>3, <1>4, RowsTrue, EndKeeps
----------------------------------------------------------------------------
(* The sale's own transaction                                               *)

\* A step that only changes what the request itself has read, or where it is.
LEMMA ReadingKeeps ==
    ASSUME IInv, NEW p \in Proc, NEW x \in Requests, proc' = [proc EXCEPT ![p] = x],
           UNCHANGED <<sale, rev, faults>>, UNCHANGED world,
           proc[p].at \notin {"idle", "create"}, x.r = proc[p].r, x.steps = proc[p].steps,
           lock' \in Proc \cup {None}, \A q \in Proc \ {p} : lock = q => lock' = q,
           x.at \in {"void", "commit", "post", "post_cash"},
           x.k = IF x.at \in {"void", "commit"} THEN Totals ELSE TreasuryGL,
           \A o \in Rev : x.seen.by = o => voids[o] > 0,
           x.at = "commit" => (lock' = p \/ x.seen.by = x.r) /\ \A w \in Row : x.cut[w] <= x.was[w]
    PROVE  IInv'
<1>1. TypeOK /\ TypeRest /\ proc \in [Proc -> Requests]
  BY Typing DEF IInv
<1>2. proc' \in [Proc -> Requests] /\ proc'[p] = x /\ \A q \in Proc \ {p} : proc'[q] = proc[q]
  BY <1>1, Becomes
<1>3. Grown /\ TypeRest' /\ line' = line
  BY <1>1, WorldSame DEF world, TypeRest
<1>4. TypeOK'
  BY <1>2, <1>3, TypingNext
<1>5. x.r \in Rev /\ rev[x.r].status # "none" /\ DoneIsHad(x.r, x.steps)
  BY AtWork
<1>6. \A j \in Owed : x.steps[j] = "done" => Has(x.r, j)'
  <2>1. \A o \in Rev, j \in Owed : Has(o, j) => Has(o, j)'
    BY <1>1, <1>3, <1>4, HasStays
  <2> QED BY <1>5, <2>1 DEF DoneIsHad
<1>7. DoneIsHad(proc[p].r, proc[p].steps)'
  BY <1>2, <1>6 DEF DoneIsHad, Has
<1>8. \A o \in Rev : x.seen.by = o => voids'[o] > 0
  BY DEF world
<1>9. RequestInv(p)'
  BY <1>2, <1>5, <1>7, <1>8 DEF RequestInv
<1>10. \A o \in Rev : RowInv(o)'
  BY <1>1, <1>3, <1>4, RowsKeep DEF IInv
<1> QED BY <1>2, <1>3, <1>4, <1>9, <1>10, Preserved

LEMMA ReadLineKeeps ==
    ASSUME IInv, NEW p \in Proc, ReadLine(p)
    PROVE  IInv'
<1> DEFINE x == [proc[p] EXCEPT !.at = "void", !.seen = line]
<1>1. TypeOK /\ TypeRest /\ proc \in [Proc -> Requests]
  BY Typing DEF IInv
<1>2. proc[p].at = "run" /\ proc[p].k = Totals
  BY DEF ReadLine, At_, At
<1>3. /\ x \in Requests /\ x.at = "void" /\ x.seen = line /\ x.r = proc[p].r /\ x.steps = proc[p].steps
      /\ x.k = proc[p].k
  BY <1>1 DEF Requests, Places, TypeRest
<1>4. proc' = [proc EXCEPT ![p] = x]
  BY <1>1 DEF ReadLine
<1>5. \A o \in Rev : x.seen.by = o => voids[o] > 0
  BY <1>3 DEF IInv, RowInv
<1>6. UNCHANGED <<sale, rev, faults>> /\ UNCHANGED world /\ lock' = lock
  BY DEF ReadLine
<1>7. lock' \in Proc \cup {None}
  BY <1>1, <1>6 DEF TypeRest
<1> HIDE DEF x
<1> QED BY <1>2, <1>3, <1>4, <1>5, <1>6, <1>7, ReadingKeeps

LEMMA VoidLineKeeps ==
    ASSUME IInv, NEW p \in Proc, VoidLine(p)
    PROVE  IInv'
<1> DEFINE r == proc[p].r
           was == [w \in Row |-> rows[w].amount]
           cut == IF rev[r].scope = "full" THEN Zero ELSE Cuts(r)
           x == [proc[p] EXCEPT !.at = "commit", !.was = was, !.cut = cut]
<1>1. TypeOK /\ TypeRest /\ proc \in [Proc -> Requests]
  BY Typing DEF IInv
<1>2. proc[p].at = "void"
  BY DEF VoidLine, At
<1>3. r \in Rev /\ proc[p].k = Totals /\ \A o \in Rev : proc[p].seen.by = o => voids[o] > 0
  BY <1>2 DEF IInv, RequestInv
<1>4. was \in Amounts /\ cut \in Amounts /\ \A w \in Row : cut[w] <= was[w]
  <2>1. \A w \in Row : rows[w].amount \in Nat
    BY <1>1 DEF TypeRest, RowOf
  <2>2. was \in Amounts
    BY <2>1 DEF Amounts
  <2>3. CASE rev[r].scope = "full"
    BY <2>1, <2>2, <2>3 DEF Zero, Amounts
  <2>4. CASE rev[r].scope # "full"
    <3>1. cut = Cuts(r)
      BY <2>4
    <3> HIDE DEF cut, r
    <3>2. Cuts(r) \in Amounts /\ \A w \in Row : Cuts(r)[w] <= rows[w].amount
      BY <1>1, <1>3, Cutting
    <3> QED BY <2>2, <3>1, <3>2
  <2> QED BY <2>3, <2>4
<1>5. proc' = [proc EXCEPT ![p] = x]
  BY <1>1 DEF VoidLine
<1>6. UNCHANGED <<sale, rev, faults>> /\ UNCHANGED world
  BY DEF VoidLine
<1>7. (proc[p].seen.by = r /\ lock' = lock) \/ (lock = None /\ lock' = p)
  BY DEF VoidLine
<1> HIDE DEF was, cut
<1>8. /\ x \in Requests /\ x.at = "commit" /\ x.seen = proc[p].seen /\ x.r = r /\ x.steps = proc[p].steps
      /\ x.k = proc[p].k /\ x.was = was /\ x.cut = cut
  BY <1>1, <1>4 DEF Requests, Places
<1> HIDE DEF x
<1>9. lock' \in Proc \cup {None} /\ \A q \in Proc \ {p} : lock = q => lock' = q
  BY <1>1, <1>7, ReversalAssumption DEF TypeRest
<1>10. lock' = p \/ x.seen.by = x.r
  BY <1>7, <1>8
<1> QED BY <1>2, <1>3, <1>4, <1>5, <1>6, <1>8, <1>9, <1>10, ReadingKeeps

LEMMA SplitKeeps ==
    ASSUME IInv, NEW p \in Proc, SplitGL(p)
    PROVE  IInv'
<1> DEFINE r == proc[p].r
           cash == CashNetted(r)
           cut == [w \in Row |-> IF w = "cash" THEN cash ELSE rev[r].qty - cash]
           l == IF cash > 0 /\ cash < rev[r].qty THEN "post_cash" ELSE "post"
           x == [proc[p] EXCEPT !.cut = cut, !.at = l]
<1>1. TypeOK /\ TypeRest /\ proc \in [Proc -> Requests]
  BY Typing DEF IInv
<1>2. proc[p].at = "run" /\ proc[p].k = TreasuryGL
  BY DEF SplitGL, At_, At
<1>3. r \in Rev /\ \A o \in Rev : proc[p].seen.by = o => voids[o] > 0
  BY <1>2 DEF IInv, RequestInv
<1>4. cut \in Amounts
  <2>1. rev[r].qty \in Nat /\ rows["cash"].cut \in Nat
    BY <1>1, <1>3 DEF TypeRest, RowOf, Row, Ledgers
  <2>2. cash \in Nat /\ cash <= rev[r].qty
    BY <2>1 DEF CashNetted, Lesser
  <2> HIDE DEF cash
  <2> QED BY <2>1, <2>2 DEF Amounts
<1>5. l \in {"post", "post_cash"}
  OBVIOUS
<1>6. proc' = [proc EXCEPT ![p].cut = cut, ![p].at = l] /\ UNCHANGED <<sale, lock, rev, faults>> /\ UNCHANGED world
  BY DEF SplitGL
<1> HIDE DEF cut, l
<1>7. proc' = [proc EXCEPT ![p] = x]
  BY <1>1, <1>6
<1>8. /\ x \in Requests /\ x.at = l /\ x.seen = proc[p].seen /\ x.r = r /\ x.steps = proc[p].steps
      /\ x.k = proc[p].k
  BY <1>1, <1>4, <1>5 DEF Requests, Places
<1> HIDE DEF x
<1>9. lock' \in Proc \cup {None}
  BY <1>1, <1>6 DEF TypeRest
<1>10. x.at \in {"post", "post_cash"} /\ x.k = TreasuryGL
  BY <1>2, <1>5, <1>8
<1>11. /\ x.at \in {"void", "commit", "post", "post_cash"} /\ x.at # "commit"
       /\ x.k = IF x.at \in {"void", "commit"} THEN Totals ELSE TreasuryGL
  BY <1>10
<1>12. x.r = proc[p].r /\ x.steps = proc[p].steps /\ \A o \in Rev : x.seen.by = o => voids[o] > 0
  BY <1>3, <1>8
<1> QED BY <1>2, <1>6, <1>7, <1>8, <1>9, <1>11, <1>12, ReadingKeeps
LEMMA CommitKeeps ==
    ASSUME IInv, NEW p \in Proc, NEW o \in Answer, Commit(p, o)
    PROVE  IInv'
<1>1. PICK r \in Rev : proc[p].r = r
  BY AtWork DEF Commit, At
<1>2. TypeOK /\ TypeRest /\ proc[p] \in Requests /\ RequestInv(p)
  BY Typing DEF IInv
<1>3. /\ proc[p].at = "commit" /\ proc[p].k = 1
      /\ lock = p \/ proc[p].seen.by = r
      /\ \A w \in Row : proc[p].cut[w] <= proc[p].was[w]
      /\ proc[p].seen.by = r => voids[r] > 0
  BY <1>1, <1>2 DEF Commit, At, RequestInv
<1>4. UNCHANGED <<sale, rev, stock, books, notes, clawed>> /\ Marked(p, o = "ok")
  BY DEF Commit
<1>5. faults' \in 0 .. MaxFaults
  BY <1>2, FaultIs DEF Commit, Mishap, TypeRest
<1>6. lock' \in Proc \cup {None} /\ \A q \in Proc \ {p} : lock = q => lock' = q
  BY <1>2 DEF Commit, TypeRest
<1>7. /\ voids' \in [Rev -> Nat] /\ line' \in Seen
      /\ \A j \in Rev : voids[j] <= voids'[j] /\ (line'.by = j => voids'[j] > 0)
      /\ o = "ok" => voids'[r] > 0
  <2>1. voids \in [Rev -> Nat] /\ line \in Seen /\ \A j \in Rev : line.by = j => voids[j] > 0
    BY <1>2 DEF TypeRest, IInv, RowInv
  <2>2. CASE o # "failed" /\ lock = p
    <3>1. line' = [voided |-> proc[p].seen.voided + rev[r].qty, by |-> r]
      BY <1>1, <2>2 DEF Commit
    <3>2. voids' = [voids EXCEPT ![r] = voids[r] + 1]
      BY <1>1, <2>1, <2>2 DEF Commit
    <3>3. proc[p].seen.voided + rev[r].qty \in Nat
      BY <1>2 DEF TypeRest, Requests, Seen, Ledgers
    <3>4. line' \in Seen /\ line'.by = r
      BY <3>1, <3>3 DEF Seen
    <3>5. voids' \in [Rev -> Nat] /\ voids'[r] = voids[r] + 1 /\ \A j \in Rev \ {r} : voids'[j] = voids[j]
      BY <2>1, <3>2
    <3>6. voids'[r] > 0 /\ \A j \in Rev : voids[j] <= voids'[j]
      BY <2>1, <3>5
    <3> QED BY <3>4, <3>5, <3>6
  <2>3. CASE ~(o # "failed" /\ lock = p)
    <3>1. UNCHANGED <<line, voids>>
      BY <2>3 DEF Commit
    <3>2. \A j \in Rev : voids[j] <= voids[j]
      BY <2>1
    <3> QED BY <1>3, <2>1, <2>3, <3>1, <3>2
  <2> QED BY <2>2, <2>3
<1>8. rows' \in [Row -> RowOf]
  <2>1. rows \in [Row -> RowOf] /\ proc[p].was \in Amounts /\ proc[p].cut \in Amounts
    BY <1>2 DEF TypeRest, Requests
  <2>2. ASSUME NEW w \in Row PROVE Netted(p, w) \in RowOf
    <3>1. proc[p].was[w] - proc[p].cut[w] \in Nat /\ proc[p].cut[w] \in Nat
      BY <1>3, <2>1 DEF Amounts
    <3>2. rows[w] \in RowOf
      BY <2>1
    <3> QED BY <1>1, <3>1, <3>2 DEF Netted, RowOf
  <2>3. CASE o = "failed"
    BY <2>1, <2>3 DEF Commit
  <2>4. CASE o # "failed"
    <3>1. rows' = [w \in Row |-> Netted(p, w)]
      BY <2>4 DEF Commit
    <3> QED BY <2>2, <3>1
  <2> QED BY <2>3, <2>4
<1>9. status' \in {"completed", "refunded"}
  BY <1>2 DEF Commit, TypeRest
<1>10. TypeRest'
  BY <1>2, <1>4, <1>5, <1>6, <1>7, <1>8, <1>9 DEF TypeRest
<1>11. Grown
  BY <1>4, <1>7 DEF Grown
<1>12. \A j \in Rev : RowInv(j)'
  <2> SUFFICES ASSUME NEW j \in Rev
               PROVE  RowInv(j)'
    OBVIOUS
  <2>1. \A i \in Owed : Has(j, i) => Has(j, i)'
    <3>1. voids[j] > 0 => voids'[j] > 0
      BY <1>2, <1>7 DEF TypeRest
    <3> QED BY <1>4, <3>1 DEF Has
  <2>2. DoneIsHad(j, rev[j].steps) /\ (rev[j].status = "completed" => \A i \in Owed : Has(j, i))
    BY RowsTrue
  <2> QED BY <1>4, <1>7, <2>1, <2>2 DEF RowInv, DoneIsHad
<1>13. o = "ok" => Has(r, 1)'
  BY <1>7 DEF Has
<1>14. 1 \in Step /\ (o = "ok") \in BOOLEAN /\ proc[p].at \notin {"idle", "create"}
  BY <1>3 DEF Step
<1> QED BY <1>1, <1>3, <1>4, <1>6, <1>10, <1>11, <1>12, <1>13, <1>14, MarkedKeeps
----------------------------------------------------------------------------
(* The other services                                                       *)

\* A step that only adds effects elsewhere, and returns.
LEMMA CallKeeps ==
    ASSUME IInv, NEW p \in Proc, NEW ok \in BOOLEAN, Marked(p, ok),
           NEW r \in Rev, NEW k \in Step, proc[p].r = r, proc[p].k = k,
           proc[p].at \notin {"idle", "create"},
           UNCHANGED <<sale, status, line, rows, lock, rev, voids>>,
           stock \subseteq stock', stock' \subseteq Rev, notes \subseteq notes', notes' \subseteq Rev,
           books' \in [Rev -> BookOf], \A o \in Rev : books[o].ids \subseteq books'[o].ids,
           clawed' \in [Rev -> Nat], faults' \in 0 .. MaxFaults,
           ok /\ k \in Owed => Has(r, k)'
    PROVE  IInv'
<1>1. TypeOK /\ TypeRest
  BY Typing DEF IInv
<1>2. TypeRest'
  BY <1>1 DEF TypeRest
<1>3. Grown
  <2>1. \A o \in Rev : voids[o] <= voids'[o]
    BY <1>1 DEF TypeRest
  <2> QED BY <2>1 DEF Grown
<1>4. \A o \in Rev : RowInv(o)'
  <2> SUFFICES ASSUME NEW o \in Rev
               PROVE  RowInv(o)'
    OBVIOUS
  <2>1. \A i \in Owed : Has(o, i) => Has(o, i)'
    BY <1>3 DEF Has, Grown
  <2>2. RowInv(o)
    BY DEF IInv
  <2> QED BY <2>1, <2>2 DEF RowInv, DoneIsHad
<1> QED BY <1>2, <1>3, <1>4, MarkedKeeps

LEMMA FaultsStay == ASSUME TypeOK, NEW o, Answered(o) PROVE faults' \in 0 .. MaxFaults
BY FaultIs DEF Answered, TypeOK

LEMMA StockKeeps ==
    ASSUME IInv, NEW p \in Proc, NEW o \in Answer, ReverseStock(p, o)
    PROVE  IInv'
<1>1. proc[p].at = "run" /\ proc[p].k = 2
  BY DEF ReverseStock, At_, At
<1>2. PICK r \in Rev : proc[p].r = r
  BY <1>1, AtWork
<1>3. TypeOK /\ TypeRest
  BY Typing DEF IInv
<1>4. faults' \in 0 .. MaxFaults /\ Marked(p, o = "ok") /\ (o = "ok") \in BOOLEAN
  BY <1>3, FaultsStay DEF ReverseStock
<1>5. /\ UNCHANGED <<sale, status, line, rows, lock, rev, voids, books, notes, clawed>>
      /\ stock' = IF sale.tracked /\ o # "failed" THEN stock \cup {r} ELSE stock
  BY <1>2 DEF ReverseStock
<1>6. stock \subseteq stock' /\ stock' \subseteq Rev /\ notes' \subseteq Rev
  BY <1>3, <1>5 DEF TypeRest
<1>7. o = "ok" => Has(r, 2)'
  BY <1>5 DEF Has
<1>8. books' \in [Rev -> BookOf] /\ clawed' \in [Rev -> Nat] /\ 2 \in Step
      /\ \A j \in Rev : books[j].ids \subseteq books'[j].ids
  BY <1>3, <1>5 DEF TypeRest, Step
<1>9. notes \subseteq notes' /\ proc[p].at \notin {"idle", "create"}
      /\ UNCHANGED <<sale, status, line, rows, lock, rev, voids>>
  BY <1>1, <1>5
<1> QED BY <1>1, <1>2, <1>4, <1>6, <1>7, <1>8, <1>9, CallKeeps

\* A refund posted, or already there under its reference.
LEMMA Posted ==
    ASSUME TypeRest, NEW r \in Rev, NEW id \in {"whole", "cash", "ar"}, NEW cash \in Nat, NEW ar \in Nat,
           Post(r, id, cash, ar)
    PROVE  /\ books' \in [Rev -> BookOf]
           /\ \A j \in Rev : books[j].ids \subseteq books'[j].ids
           /\ id \in books'[r].ids
<1>1. books \in [Rev -> BookOf]
  BY DEF TypeRest
<1>2. CASE id \in books[r].ids
  BY <1>1, <1>2 DEF Post
<1>3. CASE id \notin books[r].ids
  <2> DEFINE b == books[r]
             x == [ids |-> b.ids \cup {id}, cash |-> b.cash + cash, ar |-> b.ar + ar]
  <2>1. books' = [books EXCEPT ![r] = x]
    BY <1>3 DEF Post
  <2>2. b.ids \subseteq {"whole", "cash", "ar"} /\ b.cash \in Nat /\ b.ar \in Nat
    BY <1>1 DEF BookOf
  <2>3. x \in BookOf /\ b.ids \subseteq x.ids /\ id \in x.ids
    <3> HIDE DEF b
    <3> QED BY <2>2 DEF BookOf
  <2> HIDE DEF x
  <2>4. books' \in [Rev -> BookOf] /\ books'[r] = x /\ \A j \in Rev \ {r} : books'[j] = books[j]
    BY <1>1, <2>1, <2>3
  <2> QED BY <2>3, <2>4
<1> QED BY <1>2, <1>3

\* Any of the three posts that returns with its step.
LEMMA PostKeeps ==
    ASSUME IInv, NEW p \in Proc, NEW o \in Answer, NEW ok \in BOOLEAN, NEW r \in Rev,
           NEW id \in {"whole", "cash", "ar"}, NEW cash \in Nat, NEW ar \in Nat,
           proc[p].at \in {"post", "post_cash", "post_ar"}, proc[p].r = r, Answered(o),
           IF o = "failed" THEN UNCHANGED books ELSE Post(r, id, cash, ar),
           Marked(p, ok), ok => o = "ok" /\ (id = "whole" \/ (id = "ar" /\ "cash" \in books[r].ids)),
           UNCHANGED <<sale, status, line, rows, lock, rev, voids, stock, notes, clawed>>
    PROVE  IInv'
<1>1. TypeOK /\ TypeRest
  BY Typing DEF IInv
<1>2. faults' \in 0 .. MaxFaults
  BY <1>1, FaultsStay
<1>3. /\ books' \in [Rev -> BookOf] /\ \A j \in Rev : books[j].ids \subseteq books'[j].ids
      /\ o # "failed" => id \in books'[r].ids
  <2>1. CASE o = "failed"
    BY <1>1, <2>1 DEF TypeRest
  <2>2. CASE o # "failed"
    BY <1>1, <2>2, Posted
  <2> QED BY <2>1, <2>2
<1>4. ok => Has(r, 3)'
  BY <1>3 DEF Has
<1>5. proc[p].k = 3 /\ 3 \in Step /\ proc[p].at \notin {"idle", "create"}
  BY DEF IInv, RequestInv, Step
<1>6. /\ stock \subseteq stock' /\ stock' \subseteq Rev /\ notes \subseteq notes' /\ notes' \subseteq Rev
      /\ clawed' \in [Rev -> Nat] /\ UNCHANGED <<sale, status, line, rows, lock, rev, voids>>
  BY <1>1 DEF TypeRest
<1> QED BY <1>2, <1>3, <1>4, <1>5, <1>6, CallKeeps

LEMMA CutIs == ASSUME IInv, NEW p \in Proc PROVE proc[p].cut["cash"] \in Nat /\ proc[p].cut["on_account"] \in Nat
<1>1. proc[p] \in Requests
  BY Typing DEF IInv
<1> QED BY <1>1 DEF Requests, Amounts, Row

LEMMA PostWholeKeeps ==
    ASSUME IInv, NEW p \in Proc, NEW o \in Answer, PostWhole(p, o)
    PROVE  IInv'
<1>1. proc[p].at = "post"
  BY DEF PostWhole, At
<1>2. PICK r \in Rev : proc[p].r = r
  BY <1>1, AtWork
<1>3. /\ IF o = "failed" THEN UNCHANGED books
          ELSE Post(r, "whole", proc[p].cut["cash"], proc[p].cut["on_account"])
      /\ Answered(o) /\ Marked(p, o = "ok") /\ (o = "ok") \in BOOLEAN
      /\ UNCHANGED <<sale, status, line, rows, lock, rev, voids, stock, notes, clawed>>
  BY <1>2 DEF PostWhole
<1>4. /\ proc[p].at \in {"post", "post_cash", "post_ar"} /\ "whole" \in {"whole", "cash", "ar"}
      /\ (o = "ok") => o = "ok" /\ ("whole" = "whole" \/ ("whole" = "ar" /\ "cash" \in books[r].ids))
  BY <1>1
<1> QED BY <1>2, <1>3, <1>4, CutIs, PostKeeps

LEMMA PostARKeeps ==
    ASSUME IInv, NEW p \in Proc, NEW o \in Answer, PostAR(p, o)
    PROVE  IInv'
<1>1. proc[p].at = "post_ar"
  BY DEF PostAR, At
<1>2. PICK r \in Rev : proc[p].r = r
  BY <1>1, AtWork
<1>3. /\ IF o = "failed" THEN UNCHANGED books ELSE Post(r, "ar", 0, proc[p].cut["on_account"])
      /\ Answered(o) /\ Marked(p, o = "ok") /\ (o = "ok") \in BOOLEAN
      /\ UNCHANGED <<sale, status, line, rows, lock, rev, voids, stock, notes, clawed>>
  BY <1>2 DEF PostAR
<1>4. "cash" \in books[r].ids
  BY <1>1, <1>2 DEF IInv, RequestInv
<1> QED BY <1>1, <1>2, <1>3, <1>4, CutIs, PostKeeps

LEMMA PostCashKeeps ==
    ASSUME IInv, NEW p \in Proc, NEW o \in Answer, PostCash(p, o)
    PROVE  IInv'
<1>1. proc[p].at = "post_cash"
  BY DEF PostCash, At
<1>2. PICK r \in Rev : proc[p].r = r
  BY <1>1, AtWork
<1>3. /\ IF o = "failed" THEN UNCHANGED books ELSE Post(r, "cash", proc[p].cut["cash"], 0)
      /\ Answered(o)
      /\ UNCHANGED <<sale, status, line, rows, lock, rev, voids, stock, notes, clawed>>
  BY <1>2 DEF PostCash
<1>4. CASE o # "ok"
  <2>1. Marked(p, FALSE)
    BY <1>4 DEF PostCash
  <2> QED BY <1>1, <1>2, <1>3, <2>1, CutIs, PostKeeps
<1>5. CASE o = "ok"
  <2> DEFINE x == [proc[p] EXCEPT !.at = "post_ar"]
  <2>1. TypeOK /\ TypeRest /\ proc \in [Proc -> Requests] /\ RequestInv(p)
    BY Typing DEF IInv
  <2>2. x \in Requests /\ x.at = "post_ar" /\ x.r = r /\ x.k = proc[p].k /\ x.steps = proc[p].steps /\ x.seen = proc[p].seen
    BY <1>2, <2>1 DEF Requests, Places
  <2>3. proc' = [proc EXCEPT ![p] = x]
    BY <1>5, <2>1 DEF PostCash, Goto
  <2> HIDE DEF x
  <2>4. proc' \in [Proc -> Requests] /\ proc'[p] = x /\ \A q \in Proc \ {p} : proc'[q] = proc[q]
    BY <2>1, <2>2, <2>3, Becomes
  <2>5. /\ books' \in [Rev -> BookOf] /\ \A j \in Rev : books[j].ids \subseteq books'[j].ids
        /\ "cash" \in books'[r].ids
    BY <1>3, <1>5, <2>1, CutIs, Posted
  <2>6. TypeRest' /\ Grown
    <3>1. faults' \in 0 .. MaxFaults
      BY <1>3, <2>1, FaultsStay
    <3>2. \A j \in Rev : voids[j] <= voids'[j]
      BY <1>3, <2>1 DEF TypeRest
    <3> QED BY <1>3, <2>1, <2>5, <3>1, <3>2 DEF TypeRest, Grown
  <2>7. TypeOK'
    BY <2>4, <2>6, TypingNext
  <2>8. rev[r].status # "none" /\ (\A j \in Owed : proc[p].steps[j] = "done" => Has(r, j)) /\ proc[p].k = 3
    BY <1>1, <1>2, <2>1 DEF RequestInv, DoneIsHad
  <2>9. \A o1 \in Rev, j \in Owed : Has(o1, j) => Has(o1, j)'
    BY <2>1, <2>6, <2>7, HasStays
  <2>10. \A j \in Owed : x.steps[j] = "done" => Has(r, j)'
    BY <2>2, <2>8, <2>9
  <2>11. DoneIsHad(proc[p].r, proc[p].steps)'
    BY <2>2, <2>4, <2>10 DEF DoneIsHad, Has
  <2>12. \A j \in Rev : x.seen.by = j => voids'[j] > 0
    BY <1>3, <2>1, <2>2 DEF RequestInv
  <2>13. RequestInv(p)'
    BY <1>3, <2>2, <2>4, <2>5, <2>8, <2>11, <2>12 DEF RequestInv
  <2>14. \A j \in Rev : RowInv(j)'
    BY <1>3, <2>1, <2>6, <2>7, RowsKeep DEF IInv
  <2> QED BY <1>3, <2>4, <2>6, <2>7, <2>13, <2>14, Preserved
<1> QED BY <1>4, <1>5

LEMMA NoteKeeps ==
    ASSUME IInv, NEW p \in Proc, NEW o \in Answer, NEW readable \in BOOLEAN, RaiseNote(p, o, readable)
    PROVE  IInv'
<1>1. proc[p].at = "run" /\ proc[p].k = 4
  BY DEF RaiseNote, At_, At
<1>2. PICK r \in Rev : proc[p].r = r
  BY <1>1, AtWork
<1>3. TypeOK /\ TypeRest
  BY Typing DEF IInv
<1>4. faults' \in 0 .. MaxFaults /\ Marked(p, o = "ok") /\ (o = "ok") \in BOOLEAN
  BY <1>3, FaultsStay DEF RaiseNote, TypeRest
<1>5. /\ UNCHANGED <<sale, status, line, rows, lock, rev, voids, stock, books, clawed>>
      /\ notes' = IF ~(readable /\ ~sale.fiscalized) /\ o # "failed" THEN notes \cup {r} ELSE notes
  BY <1>2 DEF RaiseNote
<1>6. notes \subseteq notes' /\ notes' \subseteq Rev /\ stock' \subseteq Rev
  BY <1>3, <1>5 DEF TypeRest
<1>7. o = "ok" => Has(r, 4)'
  BY <1>5 DEF Has
<1>8. books' \in [Rev -> BookOf] /\ clawed' \in [Rev -> Nat] /\ 4 \in Step
      /\ \A j \in Rev : books[j].ids \subseteq books'[j].ids
  BY <1>3, <1>5 DEF TypeRest, Step
<1>9. stock \subseteq stock' /\ proc[p].at \notin {"idle", "create"}
      /\ UNCHANGED <<sale, status, line, rows, lock, rev, voids>>
  BY <1>1, <1>5
<1> QED BY <1>1, <1>2, <1>4, <1>6, <1>7, <1>8, <1>9, CallKeeps

LEMMA ClawKeeps ==
    ASSUME IInv, NEW p \in Proc, NEW how \in {"taken", "skipped", "failed"}, ClawBack(p, how)
    PROVE  IInv'
<1>1. proc[p].at = "run" /\ proc[p].k = 5
  BY DEF ClawBack, At_, At
<1>2. PICK r \in Rev : proc[p].r = r
  BY <1>1, AtWork
<1>3. TypeOK /\ TypeRest
  BY Typing DEF IInv
<1>4. PICK ok \in BOOLEAN : Marked(p, ok)
  BY DEF ClawBack
<1>5. faults' \in 0 .. MaxFaults
  BY <1>3, FaultIs DEF ClawBack, Mishap, TypeRest
<1>6. /\ UNCHANGED <<sale, status, line, rows, lock, rev, voids, stock, books, notes>>
      /\ clawed' = [clawed EXCEPT ![r] = clawed[r] + 1] \/ clawed' = clawed
  BY <1>2, <1>3 DEF ClawBack, TypeRest
<1>7. clawed' \in [Rev -> Nat]
  BY <1>3, <1>6 DEF TypeRest
<1>8. /\ books' \in [Rev -> BookOf] /\ 5 \in Step /\ 5 \notin Owed
      /\ \A j \in Rev : books[j].ids \subseteq books'[j].ids
      /\ stock' \subseteq Rev /\ notes' \subseteq Rev /\ stock \subseteq stock' /\ notes \subseteq notes'
  BY <1>3, <1>6 DEF TypeRest, Step, Owed
<1>9. proc[p].at \notin {"idle", "create"} /\ UNCHANGED <<sale, status, line, rows, lock, rev, voids>>
  BY <1>1, <1>6
<1> QED BY <1>1, <1>2, <1>4, <1>5, <1>7, <1>8, <1>9, CallKeeps

LEMMA StutterKeeps ==
    ASSUME IInv, UNCHANGED vars
    PROVE  IInv'
<1>1. TypeOK'
  BY DEF IInv, TypeOK, vars, Steps
<1>2. \A r \in Rev : RowInv(r)'
  BY DEF IInv, RowInv, DoneIsHad, Has, vars
<1>3. \A p \in Proc : RequestInv(p)'
  BY DEF IInv, RequestInv, DoneIsHad, Has, vars
<1> QED BY <1>1, <1>2, <1>3 DEF IInv

LEMMA Inductive == IInv /\ [Next]_vars => IInv'
<1> SUFFICES ASSUME IInv, [Next]_vars
             PROVE  IInv'
  OBVIOUS
<1>1. CASE UNCHANGED vars
  BY <1>1, StutterKeeps
<1>2. ASSUME NEW p \in Proc, NEW r \in Rev, Execute(p, r, "full", Sold)
      PROVE  IInv'
  BY <1>2, ExecuteKeeps, ReversalAssumption
<1>3. ASSUME NEW p \in Proc, NEW r \in Rev, NEW want \in 1 .. Sold, Execute(p, r, "partial", want)
      PROVE  IInv'
  BY <1>3, ExecuteKeeps
<1>4. ASSUME NEW p \in Proc, Request(p)
      PROVE  IInv'
  BY <1>2, <1>3, <1>4 DEF Request
<1>5. ASSUME NEW p \in Proc, Calls(p)
      PROVE  IInv'
  BY <1>5, CommitKeeps, StockKeeps, PostWholeKeeps, PostCashKeeps, PostARKeeps, NoteKeeps DEF Calls
<1>6. ASSUME NEW p \in Proc, Handler(p)
      PROVE  IInv'
  BY <1>5, <1>6, CreateKeeps, ReadLineKeeps, VoidLineKeeps, SplitKeeps, PersistKeeps, FinalizeKeeps, ClawKeeps
     DEF Handler
<1> QED BY <1>1, <1>4, <1>6, RetryKeeps, CrashKeeps DEF Next

LEMMA Holds == Spec => []IInv
BY InitHolds, Inductive, PTL DEF Spec

\* Requests, ledgers and effects keep their shape, and every payment row stays at or above zero:
\* whatever is cut off it was read from it (stepPOSTotals).
THEOREM TypeCorrect == Spec => []TypeOK
<1>1. IInv => TypeOK
  BY DEF IInv
<1> QED BY <1>1, Holds, PTL

\* A reversal reported completed has had every effect, whatever overlapped, died or was lost
\* (runSteps marks a step done only after it; finalizeStatus completes only if all are).
THEOREM CompletedIsDone == Spec => []CompletedMeansDone
<1>1. IInv => CompletedMeansDone
  BY DEF IInv, RowInv, CompletedMeansDone, Landed
<1> QED BY <1>1, Holds, PTL

----------------------------------------------------------------------------
(* The ledgers implement resumable steps.                                   *)

Same(r, k) == Has(r, k)' <=> Has(r, k)
Follows == Ledger!Next \/ UNCHANGED Ledger!vars

LEMMA LandedIs ==
    ASSUME NEW r \in Rev, \A k \in Owed : Same(r, k)
    PROVE  Landed(r)' = Landed(r)
BY DEF Landed, Same

\* A step in which no status changes and at most the effect k of r appears.
LEMMA Lands ==
    ASSUME NEW r \in Rev, NEW k \in Owed, Exists(r), Has(r, k) => Has(r, k)',
           \A o \in Rev : rev'[o].status = rev[o].status,
           \A o \in Rev, j \in Owed : o # r \/ j # k => Same(o, j)
    PROVE  Follows
<1> DEFINE a == [o \in Rev |-> Landed(o)]
           b == [o \in Rev |-> rev[o].status]
<1>1. b' = b
  OBVIOUS
<1>2. \A o \in Rev \ {r} : Landed(o)' = Landed(o)
  BY LandedIs
<1>3. Landed(r)' = Landed(r) \/ Landed(r)' = Landed(r) \cup {k}
  BY DEF Landed, Same
<1>4. a' = a \/ a' = [a EXCEPT ![r] = a[r] \cup {k}]
  BY <1>2, <1>3
<1>5. b[r] # "none"
  BY DEF Exists
<1> HIDE DEF a, b
<1>6. CASE a' = a
  BY <1>1, <1>6 DEF Follows, Ledger!vars, a, b
<1>7. CASE a' = [a EXCEPT ![r] = a[r] \cup {k}]
  <2>1. b[r] # "none" /\ (\E e \in Owed : a' = [a EXCEPT ![r] = a[r] \cup {e}]) /\ b' = b
    BY <1>1, <1>5, <1>7
  <2>2. Ledger!Land(r)
    BY <2>1 DEF Ledger!Land, a, b
  <2> QED BY <2>2 DEF Follows, Ledger!Next
<1> QED BY <1>4, <1>6, <1>7

\* A step in which no effect appears and at most the status of r changes.
LEMMA Tells ==
    ASSUME TypeOK, NEW r \in Rev, \A o \in Rev, j \in Owed : Same(o, j),
           \A o \in Rev \ {r} : rev'[o].status = rev[o].status,
           NEW v \in {"pending", "completed", "partial_failure", "failed"}, rev'[r].status = v,
           rev[r].status = "none" => v = "pending",
           rev[r].status # "none" /\ v = "completed" => \A j \in Owed : Has(r, j)
    PROVE  Follows
<1> DEFINE a == [o \in Rev |-> Landed(o)]
           b == [o \in Rev |-> rev[o].status]
<1>1. a' = a
  BY LandedIs
<1>2. b' = [b EXCEPT ![r] = v]
  OBVIOUS
<1>3. a[r] = Landed(r) /\ b[r] = rev[r].status /\ v \in Ledger!Reports \ {"none"}
  BY DEF Ledger!Reports
<1>4. Owed \subseteq Landed(r) <=> \A j \in Owed : Has(r, j)
  BY DEF Landed
<1> HIDE DEF a, b
<1>5. CASE b[r] = "none"
  <2>1. b[r] = "none" /\ b' = [b EXCEPT ![r] = "pending"] /\ a' = a
    BY <1>1, <1>2, <1>3, <1>5
  <2>2. Ledger!Open(r)
    BY <2>1 DEF Ledger!Open, a, b
  <2> QED BY <2>2 DEF Follows, Ledger!Next
<1>6. CASE b[r] # "none"
  <2>1. v = "completed" => Owed \subseteq a[r]
    BY <1>3, <1>4, <1>6
  <2>2. Ledger!Tell(r)
    BY <1>1, <1>2, <1>3, <1>6, <2>1 DEF Ledger!Tell, a, b
  <2> QED BY <2>2 DEF Follows, Ledger!Next
<1> QED BY <1>5, <1>6

LEMMA Quiet ==
    ASSUME \A o \in Rev, j \in Owed : Same(o, j), \A o \in Rev : rev'[o].status = rev[o].status
    PROVE  Follows
<1> DEFINE a == [o \in Rev |-> Landed(o)]
           b == [o \in Rev |-> rev[o].status]
<1>1. a' = a
  BY LandedIs
<1>2. b' = b
  OBVIOUS
<1> QED BY <1>1, <1>2 DEF Follows, Ledger!vars

LEMMA WorldKept ==
    ASSUME UNCHANGED <<sale, voids, stock, books, notes>>, NEW o, NEW j
    PROVE  Same(o, j)
BY DEF Same, Has

LEMMA CreateTells ==
    ASSUME IInv, NEW p \in Proc, Create(p)
    PROVE  Follows
<1>1. PICK r \in Rev : proc[p].r = r
  BY DEF IInv, RequestInv, Create, At
<1>2. \A o \in Rev, j \in Owed : Same(o, j)
  BY WorldKept DEF Create, world
<1>3. CASE Exists(r)
  BY <1>1, <1>2, <1>3, Quiet DEF Create
<1>4. CASE ~Exists(r)
  <2>1. rev \in [Rev -> Ledgers]
    BY Typing DEF IInv, TypeRest
  <2>2. rev' = [rev EXCEPT ![r] = [status |-> "pending", scope |-> proc[p].scope,
                                   qty |-> proc[p].qty, steps |-> AllPending]]
    BY <1>1, <1>4 DEF Create
  <2>3. rev'[r].status = "pending" /\ \A o \in Rev \ {r} : rev'[o].status = rev[o].status
    BY <2>1, <2>2
  <2>4. TypeOK /\ rev[r].status = "none"
    BY <1>4 DEF IInv, Exists
  <2> QED BY <1>2, <2>3, <2>4, Tells
<1> QED BY <1>3, <1>4

LEMMA FinalizeTells ==
    ASSUME IInv, NEW p \in Proc, NEW ok \in BOOLEAN, Finalize(p, ok)
    PROVE  Follows
<1>1. At(p, "run")
  BY DEF Finalize, At_
<1>2. PICK r \in Rev : proc[p].r = r
  BY <1>1 DEF IInv, RequestInv, At
<1>3. \A o \in Rev, j \in Owed : Same(o, j)
  BY WorldKept DEF Finalize, world
<1>4. CASE ~ok
  BY <1>3, <1>4, Quiet DEF Finalize
<1>5. CASE ok
  <2> DEFINE steps == proc[p].steps
             v == Outcome(steps)
  <2>1. TypeOK /\ rev \in [Rev -> Ledgers] /\ rev[r].status # "none" /\ DoneIsHad(r, steps)
    BY <1>1, <1>2, Typing DEF IInv, TypeRest, RequestInv, At
  <2>2. rev' = [rev EXCEPT ![r].steps = steps, ![r].status = v]
    BY <1>2, <1>5 DEF Finalize
  <2>3. v \in {"pending", "completed", "partial_failure", "failed"}
    BY DEF Outcome
  <2>4. v = "completed" => \A j \in Owed : Has(r, j)
    <3>1. v = "completed" => { k \in Step : steps[k] = "done" } = Step
      BY DEF Outcome
    <3>2. Owed \subseteq Step
      BY DEF Owed, Step
    <3> QED BY <2>1, <3>1, <3>2 DEF DoneIsHad
  <2> HIDE DEF v, steps
  <2>5. rev'[r].status = v /\ \A o \in Rev \ {r} : rev'[o].status = rev[o].status
    BY <2>1, <2>2 DEF Ledgers
  <2> QED BY <1>3, <2>1, <2>3, <2>4, <2>5, Tells
<1> QED BY <1>4, <1>5

\* The transaction, or a call, of a request of r lands at most its own effect.
LEMMA CallLands ==
    ASSUME IInv, NEW p \in Proc, Calls(p)
    PROVE  Follows
<1>1. proc[p].at \notin {"idle", "create"}
  BY DEF Calls, Commit, ReverseStock, PostWhole, PostCash, PostAR, RaiseNote, At_, At
<1>2. PICK r \in Rev : proc[p].r = r
  BY <1>1 DEF IInv, RequestInv
<1>3. Exists(r) /\ TypeRest /\ \A o \in Rev : rev'[o].status = rev[o].status
  BY <1>1, <1>2, Typing
     DEF IInv, RequestInv, Exists, Calls, Commit, ReverseStock, PostWhole, PostCash, PostAR, RaiseNote
<1>4. 1 \in Owed /\ 2 \in Owed /\ 3 \in Owed /\ 4 \in Owed
  BY DEF Owed
<1>5. ASSUME NEW o \in Answer, Commit(p, o)
      PROVE  Follows
  <2>1. UNCHANGED <<sale, stock, books, notes>> /\ (voids' = voids \/ voids' = [voids EXCEPT ![r] = voids[r] + 1])
    BY <1>2, <1>3, <1>5 DEF Commit, TypeRest
  <2>2. Has(r, 1) => Has(r, 1)'
    BY <1>3, <2>1 DEF Has, TypeRest
  <2>3. \A x \in Rev, j \in Owed : x # r \/ j # 1 => Same(x, j)
    BY <1>3, <2>1 DEF Has, Same, TypeRest
  <2> QED BY <1>3, <1>4, <2>2, <2>3, Lands
<1>6. ASSUME NEW o \in Answer, ReverseStock(p, o)
      PROVE  Follows
  <2>1. UNCHANGED <<sale, voids, books, notes>> /\ (stock' = stock \/ stock' = stock \cup {r})
    BY <1>2, <1>6 DEF ReverseStock
  <2>2. Has(r, 2) => Has(r, 2)'
    BY <2>1 DEF Has
  <2>3. \A x \in Rev, j \in Owed : x # r \/ j # 2 => Same(x, j)
    BY <2>1 DEF Has, Same
  <2> QED BY <1>3, <1>4, <2>2, <2>3, Lands
<1>7. ASSUME NEW o \in Answer, PostWhole(p, o) \/ PostCash(p, o) \/ PostAR(p, o)
      PROVE  Follows
  <2>1. UNCHANGED <<sale, voids, stock, notes>>
    BY <1>7 DEF PostWhole, PostCash, PostAR
  <2>2. /\ \A x \in Rev \ {r} : books'[x] = books[x]
        /\ books[r].ids \subseteq books'[r].ids
    <3>1. books' = books \/ (\E id \in {"whole", "cash", "ar"}, c \in Nat, d \in Nat : Post(r, id, c, d))
      <4>1. proc[p].cut["cash"] \in Nat /\ proc[p].cut["on_account"] \in Nat
        BY CutIs
      <4>2. CASE PostWhole(p, o)
        BY <1>2, <4>1, <4>2 DEF PostWhole
      <4>3. CASE PostCash(p, o)
        BY <1>2, <4>1, <4>3 DEF PostCash
      <4>4. CASE PostAR(p, o)
        BY <1>2, <4>1, <4>4 DEF PostAR
      <4> QED BY <1>7, <4>2, <4>3, <4>4
    <3>2. CASE books' = books
      BY <3>2
    <3>3. ASSUME NEW id \in {"whole", "cash", "ar"}, NEW c \in Nat, NEW d \in Nat, Post(r, id, c, d)
          PROVE  /\ \A x \in Rev \ {r} : books'[x] = books[x]
                 /\ books[r].ids \subseteq books'[r].ids
      <4>1. books \in [Rev -> BookOf]
        BY <1>3 DEF TypeRest
      <4>2. CASE id \in books[r].ids
        BY <3>3, <4>2 DEF Post
      <4>3. CASE id \notin books[r].ids
        <5> DEFINE x == [ids |-> books[r].ids \cup {id}, cash |-> books[r].cash + c, ar |-> books[r].ar + d]
        <5>1. books' = [books EXCEPT ![r] = x]
          BY <3>3, <4>3 DEF Post
        <5>2. books[r].ids \subseteq x.ids
          OBVIOUS
        <5> HIDE DEF x
        <5> QED BY <4>1, <5>1, <5>2
      <4> QED BY <4>2, <4>3
    <3> QED BY <3>1, <3>2, <3>3
  <2>3. Has(r, 3) => Has(r, 3)'
    BY <2>1, <2>2 DEF Has
  <2>4. \A x \in Rev, j \in Owed : x # r \/ j # 3 => Same(x, j)
    BY <2>1, <2>2 DEF Has, Same
  <2> QED BY <1>3, <1>4, <2>3, <2>4, Lands
<1>8. ASSUME NEW o \in Answer, NEW readable \in BOOLEAN, RaiseNote(p, o, readable)
      PROVE  Follows
  <2>1. UNCHANGED <<sale, voids, stock, books>> /\ (notes' = notes \/ notes' = notes \cup {r})
    BY <1>2, <1>8 DEF RaiseNote
  <2>2. Has(r, 4) => Has(r, 4)'
    BY <2>1 DEF Has
  <2>3. \A x \in Rev, j \in Owed : x # r \/ j # 4 => Same(x, j)
    BY <2>1 DEF Has, Same
  <2> QED BY <1>3, <1>4, <2>2, <2>3, Lands
<1> QED BY <1>5, <1>6, <1>7, <1>8 DEF Calls

LEMMA EveryStepFollows ==
    ASSUME IInv, [Next]_vars
    PROVE  Follows
<1>1. CASE UNCHANGED vars
  <2>1. \A o \in Rev, j \in Owed : Same(o, j)
    BY <1>1, WorldKept DEF vars
  <2> QED BY <1>1, <2>1, Quiet DEF vars
<1>2. ASSUME NEW p \in Proc, Request(p) \/ (\E r \in Rev : Retry(p, r)) \/ Crash(p)
                             \/ ReadLine(p) \/ VoidLine(p) \/ SplitGL(p)
      PROVE  Follows
  <2>1. rev' = rev /\ UNCHANGED <<sale, voids, stock, books, notes>>
    BY <1>2 DEF Request, Execute, Retry, Crash, ReadLine, VoidLine, SplitGL, world
  <2> QED BY <2>1, WorldKept, Quiet
<1>3. ASSUME NEW p \in Proc, NEW how \in {"taken", "skipped", "failed"}, ClawBack(p, how)
      PROVE  Follows
  <2>1. rev' = rev /\ UNCHANGED <<sale, voids, stock, books, notes>>
    BY <1>3 DEF ClawBack
  <2> QED BY <2>1, WorldKept, Quiet
<1>4. ASSUME NEW p \in Proc, NEW ok \in BOOLEAN, Persist(p, ok)
      PROVE  Follows
  <2>1. rev \in [Rev -> Ledgers]
    BY Typing DEF IInv, TypeRest
  <2>2. UNCHANGED <<sale, voids, stock, books, notes>> /\ \A o \in Rev : rev'[o].status = rev[o].status
    BY <1>4, <2>1 DEF Persist, world, Ledgers
  <2> QED BY <2>2, WorldKept, Quiet
<1> QED BY <1>1, <1>2, <1>3, <1>4, CreateTells, FinalizeTells, CallLands DEF Next, Handler

\* The ledgers of all reversals implement the abstract resumable steps: no effect that has
\* landed is ever lost, and a report of completion follows all of them (runSteps, Retry).
THEOREM LedgerKept == Spec => KeepsLedger
<1>1. Init => Ledger!Init
  <2> SUFFICES ASSUME Init
               PROVE  Ledger!Init
    OBVIOUS
  <2>1. \A r \in Rev : Landed(r) \in SUBSET Owed
    BY DEF Landed
  <2>2. \A r \in Rev : rev[r].status = "none"
    BY DEF Init, NoRow
  <2> QED BY <2>1, <2>2 DEF Ledger!Init
<1>2. IInv /\ [Next]_vars => [Ledger!Next]_(Ledger!vars)
  BY EveryStepFollows DEF Follows
<1> QED BY <1>1, <1>2, Holds, PTL DEF Spec, KeepsLedger, Ledger!Spec

----------------------------------------------------------------------------
(* Sums.  The library's sum of a function over a finite set takes whichever  *)
(* member CHOOSE picks, and then the others.  A claim about the sums over    *)
(* all subsets of a finite set holds if no least subset refutes it, which is *)
(* how each lemma is shown; none needs an induction rule with a predicate    *)
(* as its parameter.                                                         *)

Pick(s) == CHOOSE x \in s : TRUE
IsSum(g, f, S) == g = [s \in SUBSET S |-> IF s = {} THEN 0 ELSE f[Pick(s)] + g[s \ {Pick(s)}]]

LEMMA Picked == ASSUME NEW S, S # {} PROVE Pick(S) \in S
BY DEF Pick

LEMMA LeastSubset ==
    ASSUME NEW S, IsFiniteSet(S), NEW T, T \subseteq SUBSET S, T # {}
    PROVE  \E t \in T : \A u \in SUBSET t : u # t => u \notin T
<1>1. IsWellFoundedOn(StrictSubsetOrdering(S), SUBSET S)
  BY FS_StrictSubsetOrderingWellFounded, FS_FiniteSubsetsOfFinite
<1>2. PICK t \in T : \A u \in T : <<u, t>> \notin StrictSubsetOrdering(S)
  <2> PICK R : R = StrictSubsetOrdering(S)
    OBVIOUS
  <2> QED BY <1>1, WFMin, Zenon
<1>3. ASSUME NEW u \in SUBSET t, u # t, u \in T PROVE FALSE
  <2>1. <<u, t>> \in StrictSubsetOrdering(S)
    <3>1. <<u, t>> \in (SUBSET S) \X (SUBSET S)
      BY <1>3
    <3> QED BY <1>3, <3>1 DEF StrictSubsetOrdering
  <2> QED BY <1>2, <1>3, <2>1
<1> QED BY <1>3

LEMMA SumUnique ==
    ASSUME NEW f, NEW S, NEW U, NEW g, NEW h, IsSum(g, f, S), IsSum(h, f, U),
           NEW t, IsFiniteSet(t), t \subseteq S, t \subseteq U
    PROVE  g[t] = h[t]
<1> DEFINE T == {s \in SUBSET t : g[s] # h[s]}
<1>1. ASSUME NEW s \in T, \A u \in SUBSET s : u # s => u \notin T PROVE FALSE
  <2>1. s \in SUBSET S /\ s \in SUBSET U /\ s \in SUBSET t /\ g[s] # h[s]
    OBVIOUS
  <2>2. g[s] = IF s = {} THEN 0 ELSE f[Pick(s)] + g[s \ {Pick(s)}]
    BY <2>1 DEF IsSum
  <2>3. h[s] = IF s = {} THEN 0 ELSE f[Pick(s)] + h[s \ {Pick(s)}]
    BY <2>1 DEF IsSum
  <2>4. s # {}
    BY <2>1, <2>2, <2>3
  <2>5. s \ {Pick(s)} \in SUBSET s /\ s \ {Pick(s)} # s
    BY <2>4, Picked
  <2>6. g[s \ {Pick(s)}] = h[s \ {Pick(s)}]
    BY <1>1, <2>1, <2>5
  <2> QED BY <2>1, <2>2, <2>3, <2>4, <2>6
<1>2. T \subseteq SUBSET t
  OBVIOUS
<1> HIDE DEF T
<1>3. T = {}
  BY <1>1, <1>2, LeastSubset
<1> QED BY <1>3 DEF T

LEMMA SumExists ==
    ASSUME NEW f, NEW S, IsFiniteSet(S)
    PROVE  \E g : IsSum(g, f, S)
<1> DEFINE T == {s \in SUBSET S : ~\E g : IsSum(g, f, s)}
<1>1. ASSUME NEW s \in T, \A u \in SUBSET s : u # s => u \notin T PROVE FALSE
  <2> DEFINE G(u) == CHOOSE g : IsSum(g, f, u)
             rest(u) == u \ {Pick(u)}
             value(u) == IF u = {} THEN 0 ELSE f[Pick(u)] + G(rest(u))[rest(u)]
             h == [u \in SUBSET s |-> value(u)]
  <2>1. s \in SUBSET S /\ ~\E g : IsSum(g, f, s)
    OBVIOUS
  <2>2. ASSUME NEW u \in SUBSET s, u # s PROVE IsSum(G(u), f, u)
    <3>1. \E g : IsSum(g, f, u)
      BY <1>1, <2>1, <2>2
    <3> QED BY <3>1
  <2> HIDE DEF G
  <2>3. ASSUME NEW u \in SUBSET s, u # s PROVE G(u)[u] = value(u)
    <3>1. IsSum(G(u), f, u)
      BY <2>2, <2>3
    <3>2. G(u)[u] = IF u = {} THEN 0 ELSE f[Pick(u)] + G(u)[rest(u)]
      BY <3>1 DEF IsSum
    <3>3. CASE u # {}
      <4>1. rest(u) \in SUBSET u /\ rest(u) \in SUBSET s /\ rest(u) # s
        BY <2>3
      <4>1a. IsSum(G(rest(u)), f, rest(u))
        BY <2>2, <4>1
      <4>2. IsFiniteSet(rest(u))
        BY <2>1, <4>1, FS_Subset
      <4> HIDE DEF rest
      <4>3. G(u)[rest(u)] = G(rest(u))[rest(u)]
        BY <3>1, <4>1, <4>1a, <4>2, SumUnique
      <4> QED BY <3>2, <3>3, <4>3
    <3> QED BY <3>2, <3>3
  <2>4. ASSUME NEW u \in SUBSET s PROVE h[u] = IF u = {} THEN 0 ELSE f[Pick(u)] + h[rest(u)]
    <3>1. CASE u # {}
      <4>1. rest(u) \in SUBSET s /\ rest(u) # s
        BY <3>1, Picked
      <4>2. h[rest(u)] = G(rest(u))[rest(u)]
        BY <2>3, <4>1
      <4> QED BY <3>1, <4>2
    <3> QED BY <3>1
  <2> PICK k : k = h
    OBVIOUS
  <2>5. IsSum(k, f, s)
    <3>1. k = [u \in SUBSET s |-> k[u]]
      OBVIOUS
    <3>2. \A u \in SUBSET s : k[u] = IF u = {} THEN 0 ELSE f[Pick(u)] + k[u \ {Pick(u)}]
      BY <2>4
    <3> HIDE DEF h
    <3> QED BY <3>1, <3>2 DEF IsSum
  <2> QED BY <2>1, <2>5
<1>2. T \subseteq SUBSET S
  OBVIOUS
<1> HIDE DEF T
<1>3. T = {}
  BY <1>1, <1>2, LeastSubset
<1> QED BY <1>3 DEF T

\* The library's sum is its picked member and the sum of the others.
LEMMA SumIs ==
    ASSUME NEW f, NEW S, IsFiniteSet(S), NEW g, IsSum(g, f, S)
    PROVE  SumFunctionOnSet(f, S) = g[S]
<1> DEFINE P(h) == h = [s \in SUBSET S |-> IF s = {} THEN 0
                                           ELSE f[CHOOSE x \in s : TRUE] + h[s \ {CHOOSE x \in s : TRUE}]]
           sum == CHOOSE h : P(h)
<1>1. ASSUME NEW h PROVE IsSum(h, f, S) <=> P(h)
  BY DEF IsSum, Pick
<1>2. SumFunctionOnSet(f, S) = sum[S]
  BY Zenon DEF SumFunctionOnSet, FoldFunctionOnSet, MapThenFoldSet
<1>3. P(sum)
  <2>1. P(g)
    BY <1>1
  <2> HIDE DEF P
  <2> QED BY <2>1, Zenon
<1>4. IsSum(sum, f, S)
  BY <1>1, <1>3
<1> HIDE DEF sum, P
<1> QED BY <1>2, <1>4, SumUnique

LEMMA SumPick ==
    ASSUME NEW f, NEW S, IsFiniteSet(S)
    PROVE  SumFunctionOnSet(f, S) = IF S = {} THEN 0 ELSE f[Pick(S)] + SumFunctionOnSet(f, S \ {Pick(S)})
<1>1. PICK g : IsSum(g, f, S)
  BY SumExists
<1>2. g[S] = IF S = {} THEN 0 ELSE f[Pick(S)] + g[S \ {Pick(S)}]
  BY <1>1 DEF IsSum
<1>3. SumFunctionOnSet(f, S) = g[S]
  BY <1>1, SumIs
<1>4. CASE S # {}
  <2> PICK U : U = S \ {Pick(S)}
    OBVIOUS
  <2>1. IsFiniteSet(U) /\ U \subseteq S
    BY FS_Subset
  <2>2. PICK h : IsSum(h, f, U)
    BY <2>1, SumExists
  <2>3. h[U] = g[U] /\ SumFunctionOnSet(f, U) = h[U]
    BY <1>1, <2>1, <2>2, SumUnique, SumIs
  <2> QED BY <1>2, <1>3, <1>4, <2>3
<1> QED BY <1>2, <1>3, <1>4

LEMMA SumNumber ==
    ASSUME NEW N \in {Nat, Int}, NEW f, NEW S, IsFiniteSet(S), \A x \in S : f[x] \in N
    PROVE  SumFunctionOnSet(f, S) \in N
<1> DEFINE T == {s \in SUBSET S : SumFunctionOnSet(f, s) \notin N}
<1>1. ASSUME NEW s \in T, \A u \in SUBSET s : u # s => u \notin T PROVE FALSE
  <2>1. s \in SUBSET S /\ IsFiniteSet(s) /\ SumFunctionOnSet(f, s) \notin N
    BY FS_Subset
  <2>2. SumFunctionOnSet(f, s) = IF s = {} THEN 0 ELSE f[Pick(s)] + SumFunctionOnSet(f, s \ {Pick(s)})
    BY <2>1, SumPick
  <2>3. s # {}
    BY <2>1, <2>2
  <2>4. s \ {Pick(s)} \in SUBSET s /\ s \ {Pick(s)} # s /\ f[Pick(s)] \in N
    BY <2>1, <2>3, Picked
  <2>5. SumFunctionOnSet(f, s \ {Pick(s)}) \in N
    BY <1>1, <2>1, <2>4
  <2> QED BY <2>1, <2>2, <2>3, <2>4, <2>5
<1>2. T \subseteq SUBSET S
  OBVIOUS
<1> HIDE DEF T
<1>3. T = {}
  BY <1>1, <1>2, LeastSubset
<1> QED BY <1>3 DEF T

\* Whichever member is taken first.
LEMMA SumTakes ==
    ASSUME NEW f, NEW S, IsFiniteSet(S), \A x \in S : f[x] \in Int, NEW y \in S
    PROVE  SumFunctionOnSet(f, S) = f[y] + SumFunctionOnSet(f, S \ {y})
<1> DEFINE T == {s \in SUBSET S : \E x \in s : SumFunctionOnSet(f, s) # f[x] + SumFunctionOnSet(f, s \ {x})}
<1>1. ASSUME NEW s \in T, \A u \in SUBSET s : u # s => u \notin T PROVE FALSE
  <2>1. PICK x \in s : s \in SUBSET S /\ SumFunctionOnSet(f, s) # f[x] + SumFunctionOnSet(f, s \ {x})
    OBVIOUS
  <2>2. IsFiniteSet(s)
    BY <2>1, FS_Subset
  <2> PICK p : p = Pick(s)
    OBVIOUS
  <2>3. p \in s /\ SumFunctionOnSet(f, s) = f[p] + SumFunctionOnSet(f, s \ {p})
    BY <2>1, <2>2, SumPick, Picked
  <2>4. p # x
    BY <2>1, <2>3
  <2>5. ASSUME NEW u \in SUBSET s, u # s, NEW q \in u PROVE SumFunctionOnSet(f, u) = f[q] + SumFunctionOnSet(f, u \ {q})
    BY <1>1, <2>1, <2>5
  <2>6. SumFunctionOnSet(f, s \ {p}) = f[x] + SumFunctionOnSet(f, (s \ {p}) \ {x})
    BY <2>3, <2>4, <2>5
  <2>7. SumFunctionOnSet(f, s \ {x}) = f[p] + SumFunctionOnSet(f, (s \ {x}) \ {p})
    BY <2>3, <2>4, <2>5
  <2>8. (s \ {p}) \ {x} = (s \ {x}) \ {p}
    OBVIOUS
  <2> PICK both : both = (s \ {x}) \ {p}
    OBVIOUS
  <2>9. SumFunctionOnSet(f, both) \in Int
    <3>1. IsFiniteSet(both) /\ \A z \in both : f[z] \in Int
      BY <2>1, <2>2, FS_Subset
    <3> QED BY <3>1, SumNumber
  <2>10. f[p] \in Int /\ f[x] \in Int
    BY <2>1, <2>3
  <2>11. SumFunctionOnSet(f, s) = f[p] + (f[x] + SumFunctionOnSet(f, both)) /\ SumFunctionOnSet(f, s \ {x}) = f[p] + SumFunctionOnSet(f, both)
    BY <2>3, <2>6, <2>7, <2>8
  <2>12. \A a, b, c \in Int : a + (b + c) = b + (a + c)
    OBVIOUS
  <2> QED BY <2>1, <2>9, <2>10, <2>11, <2>12
<1>2. T \subseteq SUBSET S
  OBVIOUS
<1> HIDE DEF T
<1>3. T = {}
  BY <1>1, <1>2, LeastSubset
<1> QED BY <1>3 DEF T

LEMMA SumSame ==
    ASSUME NEW f, NEW g, NEW S, IsFiniteSet(S), \A x \in S : f[x] = g[x]
    PROVE  SumFunctionOnSet(f, S) = SumFunctionOnSet(g, S)
<1> DEFINE T == {s \in SUBSET S : SumFunctionOnSet(f, s) # SumFunctionOnSet(g, s)}
<1>1. ASSUME NEW s \in T, \A u \in SUBSET s : u # s => u \notin T PROVE FALSE
  <2>1. s \in SUBSET S /\ IsFiniteSet(s) /\ SumFunctionOnSet(f, s) # SumFunctionOnSet(g, s)
    BY FS_Subset
  <2>2. SumFunctionOnSet(f, s) = IF s = {} THEN 0 ELSE f[Pick(s)] + SumFunctionOnSet(f, s \ {Pick(s)})
    BY <2>1, SumPick
  <2>3. SumFunctionOnSet(g, s) = IF s = {} THEN 0 ELSE g[Pick(s)] + SumFunctionOnSet(g, s \ {Pick(s)})
    BY <2>1, SumPick
  <2>4. s # {}
    BY <2>1, <2>2, <2>3
  <2>5. s \ {Pick(s)} \in SUBSET s /\ s \ {Pick(s)} # s /\ f[Pick(s)] = g[Pick(s)]
    BY <2>1, <2>4, Picked
  <2>6. SumFunctionOnSet(f, s \ {Pick(s)}) = SumFunctionOnSet(g, s \ {Pick(s)})
    BY <1>1, <2>1, <2>5
  <2> QED BY <2>1, <2>2, <2>3, <2>4, <2>5, <2>6
<1>2. T \subseteq SUBSET S
  OBVIOUS
<1> HIDE DEF T
<1>3. T = {}
  BY <1>1, <1>2, LeastSubset
<1> QED BY <1>3 DEF T

LEMMA SumEmpty == ASSUME NEW f PROVE SumFunctionOnSet(f, {}) = 0
BY SumPick, FS_EmptySet

\* One value changes by d.
LEMMA SumChanges ==
    ASSUME NEW f, NEW g, NEW S, IsFiniteSet(S), \A x \in S : f[x] \in Int /\ g[x] \in Int,
           NEW y \in S, \A x \in S : x # y => g[x] = f[x]
    PROVE  SumFunctionOnSet(g, S) = SumFunctionOnSet(f, S) + g[y] - f[y]
<1> PICK R : R = S \ {y}
  OBVIOUS
<1>1. IsFiniteSet(R) /\ (\A x \in R : f[x] \in Int /\ g[x] = f[x])
  BY FS_Subset
<1>2. SumFunctionOnSet(f, S) = f[y] + SumFunctionOnSet(f, R) /\ SumFunctionOnSet(g, S) = g[y] + SumFunctionOnSet(g, R)
  BY SumTakes
<1>3. SumFunctionOnSet(g, R) = SumFunctionOnSet(f, R) /\ SumFunctionOnSet(f, R) \in Int
  BY <1>1, SumSame, SumNumber
<1> QED BY <1>2, <1>3

LEMMA SumAdds ==
    ASSUME NEW f, NEW g, NEW h, NEW S, IsFiniteSet(S),
           \A x \in S : f[x] \in Int /\ g[x] \in Int /\ h[x] = f[x] + g[x]
    PROVE  SumFunctionOnSet(h, S) = SumFunctionOnSet(f, S) + SumFunctionOnSet(g, S)
<1> DEFINE T == {s \in SUBSET S : SumFunctionOnSet(h, s) # SumFunctionOnSet(f, s) + SumFunctionOnSet(g, s)}
<1>1. ASSUME NEW s \in T, \A u \in SUBSET s : u # s => u \notin T PROVE FALSE
  <2>1. s \in SUBSET S /\ SumFunctionOnSet(h, s) # SumFunctionOnSet(f, s) + SumFunctionOnSet(g, s)
    OBVIOUS
  <2>2. IsFiniteSet(s)
    BY <2>1, FS_Subset
  <2>3. s # {}
    <3>1. SumFunctionOnSet(f, {}) = 0 /\ SumFunctionOnSet(g, {}) = 0 /\ SumFunctionOnSet(h, {}) = 0
      BY SumEmpty
    <3>2. SumFunctionOnSet(h, {}) = SumFunctionOnSet(f, {}) + SumFunctionOnSet(g, {})
      BY <3>1
    <3> QED BY <2>1, <3>2
  <2>4. PICK y \in s : f[y] \in Int /\ g[y] \in Int /\ h[y] = f[y] + g[y]
    BY <2>1, <2>3
  <2> PICK u : u = s \ {y}
    OBVIOUS
  <2>5. SumFunctionOnSet(h, u) = SumFunctionOnSet(f, u) + SumFunctionOnSet(g, u)
    BY <1>1, <2>1, <2>4
  <2>6. SumFunctionOnSet(f, u) \in Int /\ SumFunctionOnSet(g, u) \in Int
    <3>1. IsFiniteSet(u) /\ (\A x \in u : f[x] \in Int /\ g[x] \in Int)
      BY <2>1, <2>2, FS_Subset
    <3> QED BY <3>1, SumNumber
  <2>7. \A x \in s : f[x] \in Int /\ g[x] \in Int /\ h[x] \in Int
    BY <2>1
  <2>8. /\ SumFunctionOnSet(f, s) = f[y] + SumFunctionOnSet(f, u)
        /\ SumFunctionOnSet(g, s) = g[y] + SumFunctionOnSet(g, u)
        /\ SumFunctionOnSet(h, s) = h[y] + SumFunctionOnSet(h, u)
    BY <2>2, <2>4, <2>7, SumTakes
  <2>9. \A a, b, c, d \in Int : (a + b) + (c + d) = (a + c) + (b + d)
    OBVIOUS
  <2> QED BY <2>1, <2>4, <2>5, <2>6, <2>8, <2>9
<1>2. T \subseteq SUBSET S
  OBVIOUS
<1> HIDE DEF T
<1>3. T = {}
  BY <1>1, <1>2, LeastSubset
<1> QED BY <1>3 DEF T

\* Nothing but zeros.
LEMMA SumZero ==
    ASSUME NEW f, NEW S, IsFiniteSet(S), \A x \in S : f[x] = 0
    PROVE  SumFunctionOnSet(f, S) = 0
<1>1. \A x \in S : f[x] \in Int /\ f[x] = f[x] + f[x]
  OBVIOUS
<1>2. SumFunctionOnSet(f, S) \in Int
  BY <1>1, SumNumber
<1>3. SumFunctionOnSet(f, S) = SumFunctionOnSet(f, S) + SumFunctionOnSet(f, S)
  BY <1>1, SumAdds
<1>4. \A a \in Int : a = a + a => a = 0
  OBVIOUS
<1> QED BY <1>2, <1>3, <1>4

----------------------------------------------------------------------------
(* Calm behaviours: orderly and sound.  One request at a time is at work,    *)
(* its copy of the ledger is the row's but for the step it is in, and what   *)
(* it has read still stands.                                                *)

Working(p) == proc[p].at \notin {"idle", "create"}

\* Step k of r has been run: its row says so, or the request about to write that.
Through(r, k) ==
    \/ rev[r].steps[k] = "done"
    \/ \E p \in Proc : At(p, "persist") /\ proc[p].r = r /\ proc[p].k = k /\ proc[p].steps[k] = "done"

\* Nobody else is at it, and every other reversal is settled.
Alone(p) ==
    ~At(p, "idle") =>
        /\ \A q \in Proc \ {p} : At(q, "idle")
        /\ \A o \in Rev \ {proc[p].r} : rev[o].status \in {"none", "completed"}

\* The copy differs from the row at most in the step that is about to be written, which the
\* row does not call done; after the first step the sale's own totals are done.
Copied(p) ==
    LET q == proc[p] IN
    Working(p) =>
        /\ rev[q.r].status # "completed"
        /\ \A j \in Step : (q.at = "persist" /\ j = q.k) \/ q.steps[j] = rev[q.r].steps[j]
        /\ q.k \in Step => rev[q.r].steps[q.k] # "done"
        /\ (q.k = Totals /\ q.at # "persist") \/ q.steps[Totals] = "done"

\* So much is left of the line.
Fits(qty) == qty + line.voided + sale.returned <= Sold

\* The treasury's refund of r, by channel, and whether it takes both.
Shares(r) == [w \in Row |-> IF w = "cash" THEN CashNetted(r) ELSE rev[r].qty - CashNetted(r)]
Both(r)   == CashNetted(r) > 0 /\ CashNetted(r) < rev[r].qty

\* What a request has read or worked out is still so.
Known(p) ==
    LET q == proc[p] IN
    /\ q.at = "create" => ~Exists(q.r) /\ Fits(q.qty) /\ q.scope \in {"full", "partial"}
    /\ q.at \in {"void", "commit"} => q.seen = line
    /\ q.at = "commit" => /\ q.was = [w \in Row |-> rows[w].amount]
                          /\ q.cut = IF rev[q.r].scope = "full" THEN Zero ELSE Cuts(q.r)
    /\ q.at \in {"post", "post_cash", "post_ar"} =>
           q.cut = Shares(q.r) /\ (q.at = "post" <=> ~Both(q.r))

\* A reversal has voided its units, stamped a payment row or taken points only if that step
\* of its ledger has been run, and points only once.
Tally(r) ==
    /\ ~Exists(r) => rev[r] = NoRow
    /\ Exists(r) => rev[r].scope \in {"full", "partial"}
    /\ voids[r] > 0 => Exists(r) /\ Through(r, Totals)
    /\ clawed[r] > 0 => clawed[r] = 1 /\ Through(r, Loyalty)
    /\ Exists(r) /\ voids[r] = 0 => Fits(rev[r].qty)
    /\ \A w \in Row : rows[w].by = r => voids[r] > 0

\* What the treasury has posted for r: nothing before its totals are done, then its shares,
\* one at a time, and all of it once it is completed.
Booked(r) ==
    LET b == books[r] IN
    /\ voids[r] = 0 => b.ids = {} /\ b.cash = 0 /\ b.ar = 0
    /\ voids[r] > 0 /\ rev[r].status # "completed" =>
         /\ b.ids \subseteq IF Both(r) THEN {"cash", "ar"} ELSE {"whole"}
         /\ b.cash = IF b.ids \cap {"whole", "cash"} # {} THEN CashNetted(r) ELSE 0
         /\ b.ar = IF b.ids \cap {"whole", "ar"} # {} THEN rev[r].qty - CashNetted(r) ELSE 0
    /\ rev[r].status = "completed" => b.cash + b.ar = rev[r].qty

\* The cash the till gave back for r: once its totals are done, whatever is posted by then.
Given == [r \in Rev |-> IF voids[r] > 0 /\ rev[r].status # "completed" THEN CashNetted(r) ELSE books[r].cash]

\* Units, payment rows and cash, summed over the reversals.
Partial == { r \in Voided : rev[r].scope = "partial" }
PaidIn  == sale.paid["on_account"] + sale.paid["cash"]
Counted == line.voided + sale.returned <= Sold /\ line.voided = SumFunctionOnSet(Amount, Voided)
Netting == rows["on_account"].amount + rows["cash"].amount = Max({0, PaidIn - SumFunctionOnSet(Amount, Partial)})
Till    == SumFunctionOnSet(Given, Rev) = sale.paid["cash"] - rows["cash"].amount

Held    == \A p \in Proc : Alone(p) /\ Copied(p) /\ Known(p)
Told    == \A r \in Rev : Tally(r) /\ Booked(r)
CalmInv == Calm => Held /\ Told /\ Counted /\ Netting /\ Till

----------------------------------------------------------------------------
(* Helpers                                                                  *)

LEMMA MaxIs ==
    ASSUME NEW a \in Int, NEW b \in Int
    PROVE  Max({a, b}) = IF a < b THEN b ELSE a
<1>1. (IF a < b THEN b ELSE a) \in {a, b} /\ \A y \in {a, b} : (IF a < b THEN b ELSE a) >= y
  OBVIOUS
<1>2. \A x \in {a, b} : (\A y \in {a, b} : x >= y) => x = IF a < b THEN b ELSE a
  OBVIOUS
<1> QED BY <1>1, <1>2 DEF Max

\* Where a run sets out: at a step from k on that is not done, past none that is not.
LEMMA FromIs ==
    ASSUME NEW steps \in Steps, NEW k \in 1 .. 6
    PROVE  /\ From(steps, k) \in k .. 6
           /\ From(steps, k) \in Step => steps[From(steps, k)] # "done"
           /\ k = 1 /\ From(steps, k) # 1 => steps[1] = "done"
<1> DEFINE T == { j \in Step : j >= k /\ steps[j] # "done" } \cup {6}
<1>1. T \subseteq 1 .. 6 /\ 6 \in T
  BY DEF Step
<1>2. Min(T) \in T /\ \A y \in T : Min(T) <= y
  BY <1>1, Least
<1>3. From(steps, k) = Min(T)
  BY DEF From
<1>4. Min(T) \in k .. 6
  BY <1>2 DEF Step
<1>5. Min(T) \in Step => steps[Min(T)] # "done"
  BY <1>2 DEF Step
<1>6. k = 1 /\ Min(T) # 1 => steps[1] = "done"
  <2> SUFFICES ASSUME k = 1, Min(T) # 1, steps[1] # "done"
               PROVE  FALSE
    OBVIOUS
  <2>1. 1 \in T
    BY DEF Step
  <2> QED BY <1>2, <1>4, <2>1
<1> QED BY <1>3, <1>4, <1>5, <1>6

\* In a calm behaviour no statement fails and nobody dies.
LEMMA NoMishap == ASSUME Calm, Mishap PROVE FALSE
BY DEF Calm, Mishap

LEMMA Posting ==
    ASSUME TypeOK, NEW r \in Rev
    PROVE  CashNetted(r) \in Nat /\ CashNetted(r) <= rev[r].qty /\ rev[r].qty \in Nat
<1>1. rev[r].qty \in Nat
  BY DEF TypeOK
<1>2. PICK c : c = IF rows["cash"].by = r THEN rows["cash"].cut ELSE 0
  OBVIOUS
<1>3. c \in Nat
  BY <1>2 DEF TypeOK, Row
<1> QED BY <1>1, <1>2, <1>3 DEF CashNetted, Lesser

----------------------------------------------------------------------------
(* One request at a time, and what it knows.                                *)

LEMMA Sole ==
    ASSUME Calm, CalmInv, NEW p \in Proc, proc[p].at # "idle"
    PROVE  /\ \A q \in Proc \ {p} : proc[q].at = "idle"
           /\ \A o \in Rev \ {proc[p].r} : rev[o].status \in {"none", "completed"}
           /\ Alone(p) /\ Copied(p) /\ Known(p)
BY DEF CalmInv, Held, Alone, At

\* Idle requests hold nothing, so only the one that steps is looked at.
LEMMA HeldBy ==
    ASSUME NEW p \in Proc, \A q \in Proc \ {p} : proc[q].at = "idle" /\ proc'[q] = proc[q],
           Alone(p)', Copied(p)', Known(p)'
    PROVE  Held'
<1>1. ASSUME NEW q \in Proc \ {p}
      PROVE  (Alone(q) /\ Copied(q) /\ Known(q))'
  <2>1. proc'[q].at = "idle"
    OBVIOUS
  <2> QED BY <2>1 DEF Alone, Copied, Known, Working, At
<1> QED BY <1>1 DEF Held

LEMMA AloneStays ==
    ASSUME NEW p \in Proc, \A q \in Proc \ {p} : proc'[q].at = "idle",
           \A o \in Rev \ {proc'[p].r} : rev'[o].status \in {"none", "completed"}
    PROVE  Alone(p)'
BY DEF Alone, At

LEMMA EndHeld ==
    ASSUME IInv, NEW p \in Proc, \A q \in Proc \ {p} : proc[q].at = "idle", proc' = [proc EXCEPT ![p] = Idle]
    PROVE  Held'
<1>1. proc \in [Proc -> Requests]
  BY Typing DEF IInv
<1>2. proc'[p] = Idle /\ \A q \in Proc \ {p} : proc'[q] = proc[q]
  BY <1>1
<1>3. proc'[p].at = "idle"
  BY <1>2 DEF Idle, Handling
<1>4. (Alone(p) /\ Copied(p) /\ Known(p))'
  BY <1>3 DEF Alone, Copied, Known, Working, At
<1> QED BY <1>2, <1>4, HeldBy

LEMMA RunHeld ==
    ASSUME IInv, NEW p \in Proc, NEW r \in Rev, NEW steps \in Steps, NEW k \in 1 .. 6,
           RunFrom(p, r, steps, k), \A q \in Proc \ {p} : proc[q].at = "idle",
           \A o \in Rev \ {r} : rev'[o].status \in {"none", "completed"},
           rev'[r].status # "completed", rev'[r].steps = steps, k = 1 \/ steps[1] = "done"
    PROVE  Held'
<1> DEFINE n == From(steps, k)
           x == Handling("run", r, "none", 0, n, steps)
<1>1. proc \in [Proc -> Requests]
  BY Typing DEF IInv
<1>2. proc' = [proc EXCEPT ![p] = x]
  BY DEF RunFrom
<1>3. x.at = "run" /\ x.r = r /\ x.k = n /\ x.steps = steps
  BY DEF Handling
<1>4. n \in k .. 6 /\ (n \in Step => steps[n] # "done") /\ (k = 1 /\ n # 1 => steps[1] = "done")
  BY FromIs
<1> HIDE DEF x, n
<1>5. proc'[p] = x /\ \A q \in Proc \ {p} : proc'[q] = proc[q]
  BY <1>1, <1>2
<1>6. Alone(p)'
  BY <1>3, <1>5, AloneStays
<1>7. Copied(p)'
  BY <1>3, <1>4, <1>5 DEF Copied, Working
<1>8. Known(p)'
  BY <1>3, <1>5 DEF Known
<1> QED BY <1>5, <1>6, <1>7, <1>8, HeldBy

LEMMA MarkedHeld ==
    ASSUME IInv, Calm, CalmInv, NEW p \in Proc, NEW ok \in BOOLEAN, Marked(p, ok), Working(p),
           proc[p].at # "persist", proc[p].k \in Step, proc[p].k = 1 => ok, rev' = rev
    PROVE  Held'
<1> DEFINE q == proc[p]
           v == IF ok THEN "done" ELSE "failed"
<1>1. proc \in [Proc -> Requests] /\ q \in Requests
  BY Typing DEF IInv
<1>2. proc' = [proc EXCEPT ![p].at = "persist", ![p].steps[proc[p].k] = v]
  BY DEF Marked
<1>3. /\ proc'[p].at = "persist" /\ proc'[p].r = q.r /\ proc'[p].k = q.k
      /\ proc'[p].steps = [q.steps EXCEPT ![q.k] = v]
      /\ \A o \in Proc \ {p} : proc'[o] = proc[o]
  BY <1>1, <1>2 DEF Requests
<1>4. /\ \A o \in Proc \ {p} : proc[o].at = "idle"
      /\ \A o \in Rev \ {q.r} : rev[o].status \in {"none", "completed"}
      /\ Copied(p)
  BY Sole DEF Working
<1>5. q.steps \in Steps
  BY <1>1 DEF Requests
<1>6. /\ rev[q.r].status # "completed" /\ (q.k \in Step => rev[q.r].steps[q.k] # "done")
      /\ \A j \in Step : q.steps[j] = rev[q.r].steps[j]
      /\ q.k = 1 \/ q.steps[1] = "done"
  BY <1>4 DEF Copied, Working
<1> HIDE DEF q
<1>7. \A j \in Step : j = q.k \/ proc'[p].steps[j] = rev[q.r].steps[j]
  BY <1>3, <1>5, <1>6 DEF Steps
<1>8. proc'[p].steps[1] = "done"
  <2>1. 1 \in Step
    BY DEF Step
  <2>2. CASE q.k = 1
    BY <1>3, <1>5, <2>1, <2>2 DEF Steps, q
  <2>3. CASE q.k # 1
    BY <1>3, <1>5, <1>6, <2>1, <2>3 DEF Steps
  <2> QED BY <2>2, <2>3
<1>9. Copied(p)'
  BY <1>3, <1>6, <1>7, <1>8 DEF Copied, Working
<1>10. Known(p)'
  BY <1>3 DEF Known
<1>11. Alone(p)'
  BY <1>3, <1>4, AloneStays
<1> QED BY <1>3, <1>4, <1>9, <1>10, <1>11, HeldBy

\* A request that moves on within a step.
LEMMA MoveHeld ==
    ASSUME IInv, Calm, CalmInv, NEW p \in Proc, NEW x, proc' = [proc EXCEPT ![p] = x], Working(p),
           proc[p].at # "persist", x.at \notin {"idle", "create", "persist"},
           x.r = proc[p].r, x.k = proc[p].k, x.steps = proc[p].steps, rev' = rev, Known(p)'
    PROVE  Held'
<1>1. proc \in [Proc -> Requests]
  BY Typing DEF IInv
<1>2. proc'[p] = x /\ \A o \in Proc \ {p} : proc'[o] = proc[o]
  BY <1>1
<1>3. /\ \A o \in Proc \ {p} : proc[o].at = "idle"
      /\ \A o \in Rev \ {proc[p].r} : rev[o].status \in {"none", "completed"}
      /\ Copied(p)
  BY Sole DEF Working
<1>4. Copied(p)'
  BY <1>2, <1>3 DEF Copied, Working
<1>5. Alone(p)'
  BY <1>2, <1>3, AloneStays
<1> QED BY <1>2, <1>3, <1>4, <1>5, HeldBy

LEMMA ExecuteHeld ==
    ASSUME IInv, Calm, CalmInv, NEW p \in Proc, NEW r \in Rev, NEW scope \in {"full", "partial"},
           NEW want \in 1 .. Sold, Execute(p, r, scope, want)
    PROVE  Held'
<1> DEFINE qty == IF scope = "full" THEN Remaining ELSE Lesser(want, Remaining)
           x == Handling("create", r, scope, qty, Finished, AllPending)
<1>1. proc \in [Proc -> Requests] /\ TypeOK
  BY Typing DEF IInv
<1>2. x.at = "create" /\ x.r = r /\ x.scope = scope /\ x.qty = qty
  BY DEF Handling
<1>3. UNCHANGED <<sale, rev, line>> /\ ~Exists(r) /\ proc' = [proc EXCEPT ![p] = x]
  BY DEF Execute, world
<1>4. /\ \A q \in Proc : proc[q].at = "idle"
      /\ \A o \in Rev \ {r} : rev[o].status \in {"none", "completed"}
  BY DEF Execute, Undisturbed, Calm, At
<1>5. Fits(qty)
  <2>1. PICK a \in Nat, b \in Int, n \in Nat : a = line.voided /\ b = sale.returned /\ n = Sold
    <3>1. sale.returned \in 0 .. Sold - 1 /\ line.voided \in Nat /\ Sold \in Nat
      BY <1>1, ReversalAssumption DEF TypeOK
    <3> QED BY <3>1
  <2>2. qty <= n - a - b
    BY <2>1 DEF Lesser, Remaining
  <2>3. qty \in Int
    BY <2>1 DEF Lesser, Remaining
  <2> HIDE DEF qty
  <2> QED BY <2>1, <2>2, <2>3 DEF Fits
<1> HIDE DEF x, qty
<1>6. proc'[p] = x /\ \A q \in Proc \ {p} : proc'[q] = proc[q]
  BY <1>1, <1>3
<1>7. Alone(p)'
  BY <1>2, <1>3, <1>4, <1>6, AloneStays
<1>8. Copied(p)'
  BY <1>2, <1>6 DEF Copied, Working
<1>9. Known(p)'
  BY <1>2, <1>3, <1>5, <1>6 DEF Known, Exists, Fits
<1> QED BY <1>4, <1>6, <1>7, <1>8, <1>9, HeldBy

\* Creating the row finds none of that name: nobody else could have made it.
LEMMA Creating ==
    ASSUME IInv, Calm, CalmInv, NEW p \in Proc, Create(p)
    PROVE  \E r \in Rev, scope \in {"full", "partial"}, qty \in Nat :
             /\ proc[p].r = r /\ ~Exists(r) /\ Fits(qty)
             /\ rev' = [rev EXCEPT ![r] = [status |-> "pending", scope |-> scope, qty |-> qty,
                                           steps |-> AllPending]]
             /\ RunFrom(p, r, AllPending, 1)
<1>1. proc[p] \in Requests /\ proc[p].at = "create" /\ proc[p].r \in Rev
  BY Typing DEF IInv, Create, At, RequestInv
<1>2. Known(p)
  BY <1>1, Sole
<1>3. ~Exists(proc[p].r) /\ Fits(proc[p].qty) /\ proc[p].scope \in {"full", "partial"} /\ proc[p].qty \in Nat
  BY <1>1, <1>2 DEF Known, Requests
<1> QED BY <1>1, <1>3 DEF Create

LEMMA CreateHeld ==
    ASSUME IInv, Calm, CalmInv, NEW p \in Proc, Create(p)
    PROVE  Held'
<1>1. PICK r \in Rev, scope \in {"full", "partial"}, qty \in Nat :
             /\ proc[p].r = r /\ ~Exists(r) /\ Fits(qty)
             /\ rev' = [rev EXCEPT ![r] = [status |-> "pending", scope |-> scope, qty |-> qty,
                                           steps |-> AllPending]]
             /\ RunFrom(p, r, AllPending, 1)
  BY Creating
<1>2. rev \in [Rev -> Ledgers] /\ proc[p].at = "create" /\ AllPending \in Steps
  BY Typing, IdleIs DEF IInv, TypeRest, Create, At
<1>3. /\ \A q \in Proc \ {p} : proc[q].at = "idle"
      /\ \A o \in Rev \ {r} : rev[o].status \in {"none", "completed"}
  BY <1>1, <1>2, Sole
<1>4. rev'[r].status = "pending" /\ rev'[r].steps = AllPending /\ \A o \in Rev \ {r} : rev'[o] = rev[o]
  BY <1>1, <1>2
<1> QED BY <1>1, <1>2, <1>3, <1>4, RunHeld

LEMMA RetryHeld ==
    ASSUME IInv, Calm, NEW p \in Proc, NEW r \in Rev, Retry(p, r)
    PROVE  Held'
<1>1. rev \in [Rev -> Ledgers] /\ rev[r].steps \in Steps
  BY Typing DEF IInv, TypeRest, Ledgers
<1>2. /\ \A q \in Proc \ {p} : proc[q].at = "idle"
      /\ \A o \in Rev \ {r} : rev[o].status \in {"none", "completed"}
      /\ rev[r].status # "completed" /\ rev' = rev /\ RunFrom(p, r, rev[r].steps, 1)
  BY DEF Retry, Undisturbed, Calm, At
<1> QED BY <1>1, <1>2, RunHeld

\* The ledger's write never fails, and it tells the truth about every step.
LEMMA Persisting ==
    ASSUME IInv, Calm, CalmInv, NEW p \in Proc, NEW ok \in BOOLEAN, Persist(p, ok)
    PROVE  \E r \in Rev, k \in Step, steps \in Steps :
             /\ proc[p].at = "persist" /\ proc[p].r = r /\ proc[p].k = k /\ proc[p].steps = steps
             /\ rev' = [rev EXCEPT ![r].steps = steps]
             /\ RunFrom(p, r, steps, k + 1)
             /\ UNCHANGED <<sale, lock, status, line, rows, voids, stock, books, notes, clawed>>
             /\ rev[r].status \notin {"none", "completed"}
             /\ rev[r].steps[k] # "done" /\ steps[1] = "done"
             /\ \A j \in Step : j = k \/ steps[j] = rev[r].steps[j]
<1>1. proc[p] \in Requests /\ proc[p].at = "persist" /\ RequestInv(p)
  BY Typing DEF IInv, Persist, At
<1>2. proc[p].r \in Rev /\ proc[p].k \in Step /\ proc[p].steps \in Steps /\ rev[proc[p].r].status # "none"
  BY <1>1 DEF RequestInv, Requests
<1>3. ok
  BY NoMishap DEF Persist
<1>4. Copied(p)
  BY <1>1, Sole
<1>5. /\ rev' = [rev EXCEPT ![proc[p].r].steps = proc[p].steps]
      /\ RunFrom(p, proc[p].r, proc[p].steps, proc[p].k + 1)
      /\ UNCHANGED <<sale, lock, status, line, rows, voids, stock, books, notes, clawed>>
  BY <1>3 DEF Persist, world
<1>6. /\ rev[proc[p].r].status # "completed"
      /\ rev[proc[p].r].steps[proc[p].k] # "done" /\ proc[p].steps[1] = "done"
      /\ \A j \in Step : j = proc[p].k \/ proc[p].steps[j] = rev[proc[p].r].steps[j]
  BY <1>1, <1>2, <1>4 DEF Copied, Working
<1> QED BY <1>1, <1>2, <1>5, <1>6

LEMMA PersistHeld ==
    ASSUME IInv, Calm, CalmInv, NEW p \in Proc, NEW ok \in BOOLEAN, Persist(p, ok)
    PROVE  Held'
<1>1. PICK r \in Rev, k \in Step, steps \in Steps :
             /\ proc[p].at = "persist" /\ proc[p].r = r /\ proc[p].k = k /\ proc[p].steps = steps
             /\ rev' = [rev EXCEPT ![r].steps = steps]
             /\ RunFrom(p, r, steps, k + 1)
             /\ UNCHANGED <<sale, lock, status, line, rows, voids, stock, books, notes, clawed>>
             /\ rev[r].status \notin {"none", "completed"}
             /\ rev[r].steps[k] # "done" /\ steps[1] = "done"
             /\ \A j \in Step : j = k \/ steps[j] = rev[r].steps[j]
  BY Persisting
<1>2. rev \in [Rev -> Ledgers] /\ k + 1 \in 1 .. 6
  BY Typing DEF IInv, TypeRest, Step
<1>3. /\ \A q \in Proc \ {p} : proc[q].at = "idle"
      /\ \A o \in Rev \ {r} : rev[o].status \in {"none", "completed"}
  BY <1>1, Sole
<1>4. rev'[r].steps = steps /\ rev'[r].status = rev[r].status /\ \A o \in Rev \ {r} : rev'[o] = rev[o]
  BY <1>1, <1>2 DEF Ledgers
<1> QED BY <1>1, <1>2, <1>3, <1>4, RunHeld

LEMMA FinalizeHeld ==
    ASSUME IInv, Calm, CalmInv, NEW p \in Proc, NEW ok \in BOOLEAN, Finalize(p, ok)
    PROVE  Held'
BY Sole, EndHeld DEF Finalize, At_, At

LEMMA ReadLineHeld ==
    ASSUME IInv, Calm, CalmInv, NEW p \in Proc, ReadLine(p)
    PROVE  Held'
<1> DEFINE x == [proc[p] EXCEPT !.at = "void", !.seen = line]
<1>1. proc \in [Proc -> Requests] /\ proc[p] \in Requests /\ proc[p].at = "run"
  BY Typing DEF IInv, ReadLine, At_, At
<1>2. proc' = [proc EXCEPT ![p] = x] /\ rev' = rev /\ line' = line
  BY <1>1 DEF ReadLine, world
<1>3. x.at = "void" /\ x.seen = line /\ x.r = proc[p].r /\ x.k = proc[p].k /\ x.steps = proc[p].steps
  BY <1>1 DEF Requests
<1> HIDE DEF x
<1>4. proc'[p] = x
  BY <1>1, <1>2
<1>5. Known(p)'
  BY <1>2, <1>3, <1>4 DEF Known
<1> QED BY <1>1, <1>2, <1>3, <1>5, MoveHeld DEF Working

LEMMA VoidLineHeld ==
    ASSUME IInv, Calm, CalmInv, NEW p \in Proc, VoidLine(p)
    PROVE  Held'
<1> DEFINE was == [w \in Row |-> rows[w].amount]
           cut == IF rev[proc[p].r].scope = "full" THEN Zero ELSE Cuts(proc[p].r)
           x == [proc[p] EXCEPT !.at = "commit", !.was = was, !.cut = cut]
<1>1. proc \in [Proc -> Requests] /\ proc[p] \in Requests /\ proc[p].at = "void"
  BY Typing DEF IInv, VoidLine, At
<1>2. proc' = [proc EXCEPT ![p] = x] /\ rev' = rev /\ line' = line /\ rows' = rows
  BY <1>1 DEF VoidLine, world
<1>3. Known(p)
  BY <1>1, Sole
<1>4. /\ x.at = "commit" /\ x.seen = line /\ x.was = was /\ x.cut = cut
      /\ x.r = proc[p].r /\ x.k = proc[p].k /\ x.steps = proc[p].steps
  BY <1>1, <1>3 DEF Requests, Known
<1>r. PICK r : r = proc[p].r
  OBVIOUS
<1>5. /\ cut = (IF rev[r].scope = "full" THEN Zero ELSE Cuts(r))'
      /\ was = [w \in Row |-> rows[w].amount]'
  BY <1>2, <1>r DEF Cuts
<1> HIDE DEF x, was, cut
<1>6. proc'[p] = x
  BY <1>1, <1>2
<1>7. Known(p)'
  BY <1>2, <1>4, <1>5, <1>6, <1>r DEF Known
<1> QED BY <1>1, <1>2, <1>4, <1>7, MoveHeld DEF Working

LEMMA SplitHeld ==
    ASSUME IInv, Calm, CalmInv, NEW p \in Proc, SplitGL(p)
    PROVE  Held'
<1> PICK r : r = proc[p].r
  OBVIOUS
<1> DEFINE cut == Shares(r)
           at == IF Both(r) THEN "post_cash" ELSE "post"
           x == [proc[p] EXCEPT !.cut = cut, !.at = at]
<1>1. proc \in [Proc -> Requests] /\ proc[p] \in Requests /\ proc[p].at = "run"
  BY Typing DEF IInv, SplitGL, At_, At
<1>2. proc' = [proc EXCEPT ![p] = x] /\ rev' = rev /\ rows' = rows
  BY <1>1 DEF SplitGL, world, Shares, Both
<1>3. /\ x.at = at /\ x.cut = cut
      /\ x.r = r /\ x.k = proc[p].k /\ x.steps = proc[p].steps
  BY <1>1 DEF Requests
<1>4. cut = Shares(r)' /\ (at = "post" <=> ~Both(r)') /\ at \in {"post", "post_cash"}
  BY <1>2 DEF Shares, Both, CashNetted
<1> HIDE DEF x, cut, at
<1>6. proc'[p] = x
  BY <1>1, <1>2
<1>7. Known(p)'
  BY <1>2, <1>3, <1>4, <1>6 DEF Known
<1> QED BY <1>1, <1>2, <1>3, <1>4, <1>7, MoveHeld DEF Working

\* The commit of a calm behaviour succeeds.
LEMMA CommitHeld ==
    ASSUME IInv, Calm, CalmInv, NEW p \in Proc, NEW o \in Answer, Commit(p, o)
    PROVE  Held' /\ o = "ok"
<1>1. o = "ok"
  BY NoMishap DEF Commit
<1>2. PICK ok \in BOOLEAN : Marked(p, ok) /\ ok /\ rev' = rev
  BY <1>1 DEF Commit
<1>3. proc[p].at = "commit" /\ proc[p].k = 1
  BY DEF Commit, At, IInv, RequestInv
<1>w. Working(p) /\ proc[p].k \in Step /\ proc[p].at # "persist"
  BY <1>3 DEF Working, Step
<1> QED BY <1>1, <1>2, <1>w, MarkedHeld

LEMMA StockHeld ==
    ASSUME IInv, Calm, CalmInv, NEW p \in Proc, NEW o \in Answer, ReverseStock(p, o)
    PROVE  Held'
<1>1. proc[p].at = "run" /\ proc[p].k = 2 /\ rev' = rev
  BY DEF ReverseStock, At_, At
<1>m. PICK ok \in BOOLEAN : Marked(p, ok)
  BY DEF ReverseStock
<1>w. Working(p) /\ proc[p].k \in Step /\ proc[p].k # 1 /\ proc[p].at # "persist"
  BY <1>1 DEF Working, Step
<1> QED BY <1>1, <1>m, <1>w, MarkedHeld

LEMMA NoteHeld ==
    ASSUME IInv, Calm, CalmInv, NEW p \in Proc, NEW o \in Answer, NEW readable \in BOOLEAN, RaiseNote(p, o, readable)
    PROVE  Held'
<1>1. proc[p].at = "run" /\ proc[p].k = 4 /\ rev' = rev
  BY DEF RaiseNote, At_, At
<1>m. PICK ok \in BOOLEAN : Marked(p, ok)
  BY DEF RaiseNote
<1>w. Working(p) /\ proc[p].k \in Step /\ proc[p].k # 1 /\ proc[p].at # "persist"
  BY <1>1 DEF Working, Step
<1> QED BY <1>1, <1>m, <1>w, MarkedHeld

LEMMA ClawHeld ==
    ASSUME IInv, Calm, CalmInv, NEW p \in Proc, NEW how \in {"taken", "skipped", "failed"}, ClawBack(p, how)
    PROVE  Held' /\ how # "failed"
<1>1. proc[p].at = "run" /\ proc[p].k = 5 /\ rev' = rev
  BY DEF ClawBack, At_, At
<1>2. how # "failed"
  BY NoMishap DEF ClawBack
<1>m. PICK ok \in BOOLEAN : Marked(p, ok)
  BY DEF ClawBack
<1>w. Working(p) /\ proc[p].k \in Step /\ proc[p].k # 1 /\ proc[p].at # "persist"
  BY <1>1 DEF Working, Step
<1> QED BY <1>1, <1>2, <1>m, <1>w, MarkedHeld

LEMMA PostHeld ==
    ASSUME IInv, Calm, CalmInv, NEW p \in Proc, NEW o \in Answer, PostWhole(p, o) \/ PostAR(p, o)
    PROVE  Held'
<1>1. proc[p].at \in {"post", "post_ar"} /\ rev' = rev
  BY DEF PostWhole, PostAR, At
<1>2. proc[p].k = 3
  BY <1>1 DEF IInv, RequestInv
<1>m. PICK ok \in BOOLEAN : Marked(p, ok)
  BY DEF PostWhole, PostAR
<1>w. Working(p) /\ proc[p].k \in Step /\ proc[p].k # 1 /\ proc[p].at # "persist"
  BY <1>1, <1>2 DEF Working, Step
<1> QED BY <1>1, <1>m, <1>w, MarkedHeld

LEMMA PostCashHeld ==
    ASSUME IInv, Calm, CalmInv, NEW p \in Proc, NEW o \in Answer, PostCash(p, o)
    PROVE  Held'
<1>1. proc \in [Proc -> Requests] /\ proc[p] \in Requests /\ proc[p].at = "post_cash" /\ rev' = rev /\ rows' = rows
  BY Typing DEF IInv, PostCash, At
<1>2. proc[p].k = 3
  BY <1>1 DEF IInv, RequestInv
<1>3. CASE o # "ok"
  <2>1. PICK ok \in BOOLEAN : Marked(p, ok)
    BY <1>3 DEF PostCash
  <2>2. Working(p) /\ proc[p].k \in Step /\ proc[p].k # 1 /\ proc[p].at # "persist"
    BY <1>1, <1>2 DEF Working, Step
  <2> QED BY <1>1, <2>1, <2>2, MarkedHeld
<1>4. CASE o = "ok"
  <2> DEFINE x == [proc[p] EXCEPT !.at = "post_ar"]
  <2>1. proc' = [proc EXCEPT ![p] = x]
    BY <1>1, <1>4 DEF PostCash, Goto
  <2>2. /\ x.at = "post_ar" /\ x.cut = proc[p].cut
        /\ x.r = proc[p].r /\ x.k = proc[p].k /\ x.steps = proc[p].steps
    BY <1>1 DEF Requests
  <2> HIDE DEF x
  <2>3. PICK r, cut : r = proc[p].r /\ cut = proc[p].cut
    OBVIOUS
  <2>4. cut = Shares(r) /\ Both(r)
    BY <1>1, <2>3, Sole DEF Known
  <2>5. cut = Shares(r)' /\ Both(r)'
    BY <1>1, <2>4 DEF Shares, Both, CashNetted
  <2>6. proc'[p] = x
    BY <1>1, <2>1
  <2>7. Known(p)'
    BY <2>2, <2>3, <2>5, <2>6 DEF Known
  <2> QED BY <1>1, <2>1, <2>2, <2>7, MoveHeld DEF Working
<1> QED BY <1>3, <1>4

----------------------------------------------------------------------------
(* The reversals' own units, payment rows, refunds and points.              *)

Balanced == Told /\ Counted /\ Netting /\ Till

\* A step that moves none of them, whatever it writes to the rows' ledgers.
LEMMA QuietBalanced ==
    ASSUME IInv, Balanced, UNCHANGED <<sale, line, rows, voids, books, clawed>>,
           \A r \in Rev : /\ rev'[r].scope = rev[r].scope /\ rev'[r].qty = rev[r].qty
                          /\ ~Exists(r) => rev'[r] = rev[r]
                          /\ Exists(r) => rev'[r].status # "none"
                          /\ \/ rev[r].status = "completed" <=> rev'[r].status = "completed"
                             \/ /\ voids[r] > 0 /\ rev[r].status # "completed" /\ rev'[r].status = "completed"
                                /\ books[r].cash = CashNetted(r) /\ books[r].ar = rev[r].qty - CashNetted(r),
           \A r \in Rev, k \in {1, 5} : Through(r, k) => Through(r, k)'
    PROVE  Balanced'
<1>1. \A r \in Rev : CashNetted(r)' = CashNetted(r) /\ (Both(r)' <=> Both(r))
  BY DEF CashNetted, Both
<1>2. \A r \in Rev : Exists(r)' <=> Exists(r)
  BY DEF Exists
<1>3. \A r \in Rev : Tally(r)'
  <2> SUFFICES ASSUME NEW r \in Rev
               PROVE  Tally(r)'
    OBVIOUS
  <2>1. Tally(r)
    BY DEF Balanced, Told
  <2>2. Fits(rev[r].qty)' <=> Fits(rev[r].qty)
    BY DEF Fits
  <2>3. (Through(r, 1) => Through(r, 1)') /\ (Through(r, 5) => Through(r, 5)')
    OBVIOUS
  <2> QED BY <1>2, <2>1, <2>2, <2>3 DEF Tally
<1>4. \A r \in Rev : Booked(r)'
  <2> SUFFICES ASSUME NEW r \in Rev
               PROVE  Booked(r)'
    OBVIOUS
  <2>1. Booked(r)
    BY DEF Balanced, Told
  <2>2. CASE rev[r].status = "completed" <=> rev'[r].status = "completed"
    BY <1>1, <2>1, <2>2 DEF Booked
  <2>3. CASE ~(rev[r].status = "completed" <=> rev'[r].status = "completed")
    <3>1. /\ voids[r] > 0 /\ rev'[r].status = "completed" /\ rev'[r].qty = rev[r].qty /\ books' = books
          /\ books[r].cash = CashNetted(r) /\ books[r].ar = rev[r].qty - CashNetted(r) /\ voids'[r] = voids[r]
      BY <2>3
    <3>2. PICK c \in Nat, n \in Nat : c = CashNetted(r) /\ n = rev[r].qty
      BY Posting DEF IInv
    <3>3. books[r].cash + books[r].ar = n
      BY ONLY c \in Nat, n \in Nat, <3>1, <3>2
    <3>4. voids'[r] # 0
      BY <3>1
    <3> QED BY <3>1, <3>2, <3>3, <3>4 DEF Booked
  <2> QED BY <2>2, <2>3
<1>5. Amount' = Amount /\ Voided' = Voided /\ Partial' = Partial /\ PaidIn' = PaidIn
  BY DEF Amount, Voided, Partial, PaidIn
<1>6. Counted' /\ Netting'
  BY <1>5 DEF Balanced, Counted, Netting
<1>7. Given' = Given
  <2>1. \A r \in Rev : Given'[r] = Given[r]
    <3> SUFFICES ASSUME NEW r \in Rev
                 PROVE  Given'[r] = Given[r]
      OBVIOUS
    <3>1. CASE rev[r].status = "completed" <=> rev'[r].status = "completed"
      BY <1>1, <3>1 DEF Given
    <3>2. CASE ~(rev[r].status = "completed" <=> rev'[r].status = "completed")
      BY <3>2 DEF Given
    <3> QED BY <3>1, <3>2
  <2> QED BY <2>1 DEF Given
<1>8. Till'
  BY <1>7 DEF Balanced, Till
<1> QED BY <1>3, <1>4, <1>6, <1>8 DEF Balanced, Told

\* A step that leaves the rows alone too, with nothing waiting to be written.
LEMMA SameBalanced ==
    ASSUME IInv, Balanced, UNCHANGED <<sale, line, rows, voids, books, clawed, rev>>,
           \A q \in Proc : proc[q].at # "persist"
    PROVE  Balanced'
<1>1. \A r \in Rev, k \in {1, 5} : Through(r, k) => Through(r, k)'
  BY DEF Through, At
<1>2. \A r \in Rev : Exists(r) => rev'[r].status # "none"
  BY DEF Exists
<1> QED BY <1>1, <1>2, QuietBalanced

\* Nothing is waiting to be written while the one request at work is somewhere else.
LEMMA NoneWaits ==
    ASSUME Calm, CalmInv, NEW p \in Proc, proc[p].at \notin {"idle", "persist"}
    PROVE  \A q \in Proc : proc[q].at # "persist"
BY Sole

LEMMA QuietStep ==
    ASSUME IInv, Calm, CalmInv, NEW p \in Proc,
           \/ \E r \in Rev, scope \in {"full", "partial"}, want \in 1 .. Sold : Execute(p, r, scope, want)
           \/ \E r \in Rev : Retry(p, r)
           \/ ReadLine(p) \/ VoidLine(p) \/ SplitGL(p)
           \/ \E o \in Answer : ReverseStock(p, o)
           \/ \E o \in Answer, readable \in BOOLEAN : RaiseNote(p, o, readable)
    PROVE  Balanced'
<1>1. UNCHANGED <<sale, line, rows, voids, books, clawed, rev>>
  BY DEF Execute, Retry, ReadLine, VoidLine, SplitGL, ReverseStock, RaiseNote, world
<1>2. \A q \in Proc : proc[q].at # "persist"
  <2>1. CASE proc[p].at = "idle"
    <3>1. sale.orderly
      BY DEF Calm
    <3>2. \A q \in Proc : proc[q].at = "idle"
      BY <2>1, <3>1 DEF Execute, Retry, ReadLine, VoidLine, SplitGL, ReverseStock, RaiseNote, Undisturbed, At_, At
    <3> QED BY <3>2
  <2>2. CASE proc[p].at # "idle"
    <3>1. proc[p].at # "persist"
      BY DEF Execute, Retry, ReadLine, VoidLine, SplitGL, ReverseStock, RaiseNote, At_, At
    <3> QED BY <2>2, <3>1, NoneWaits
  <2> QED BY <2>1, <2>2
<1>3. Balanced
  BY DEF CalmInv, Balanced
<1> QED BY <1>1, <1>2, <1>3, SameBalanced

LEMMA PersistBalanced ==
    ASSUME IInv, Calm, CalmInv, NEW p \in Proc, NEW ok \in BOOLEAN, Persist(p, ok)
    PROVE  Balanced'
<1>1. PICK r \in Rev, k \in Step, steps \in Steps :
             /\ proc[p].at = "persist" /\ proc[p].r = r /\ proc[p].k = k /\ proc[p].steps = steps
             /\ rev' = [rev EXCEPT ![r].steps = steps]
             /\ RunFrom(p, r, steps, k + 1)
             /\ UNCHANGED <<sale, lock, status, line, rows, voids, stock, books, notes, clawed>>
             /\ rev[r].status \notin {"none", "completed"}
             /\ rev[r].steps[k] # "done" /\ steps[1] = "done"
             /\ \A j \in Step : j = k \/ steps[j] = rev[r].steps[j]
  BY Persisting
<1>2. rev \in [Rev -> Ledgers]
  BY Typing DEF IInv, TypeRest
<1>3. \A q \in Proc \ {p} : proc[q].at = "idle"
  BY <1>1, Sole
<1>4. /\ rev'[r].steps = steps /\ rev'[r].status = rev[r].status
      /\ rev'[r].scope = rev[r].scope /\ rev'[r].qty = rev[r].qty
      /\ \A o \in Rev \ {r} : rev'[o] = rev[o]
  BY <1>1, <1>2 DEF Ledgers
<1>5. ASSUME NEW o \in Rev, NEW j \in {1, 5}, Through(o, j)
      PROVE  Through(o, j)'
  <2>1. rev[o].steps[j] = "done" \/ (r = o /\ k = j /\ steps[j] = "done")
    BY <1>1, <1>3, <1>5 DEF Through, At
  <2>2. j \in Step
    BY DEF Step
  <2>3. rev'[o].steps[j] = "done"
    BY <1>1, <1>4, <2>1, <2>2
  <2> QED BY <2>3 DEF Through
<1>6. Balanced
  BY DEF CalmInv, Balanced
<1>7. \A o \in Rev : /\ rev'[o].scope = rev[o].scope /\ rev'[o].qty = rev[o].qty
                     /\ ~Exists(o) => rev'[o] = rev[o]
                     /\ Exists(o) => rev'[o].status # "none"
                     /\ rev[o].status = "completed" <=> rev'[o].status = "completed"
  BY <1>1, <1>4 DEF Exists
<1> QED BY <1>1, <1>5, <1>6, <1>7, QuietBalanced

\* A reversal whose treasury step is done has been posted in full.
LEMMA PostedInFull ==
    ASSUME NEW r \in Rev, Booked(r), voids[r] > 0, rev[r].status # "completed", Has(r, 3)
    PROVE  books[r].cash = CashNetted(r) /\ books[r].ar = rev[r].qty - CashNetted(r)
<1>1. "whole" \in books[r].ids \/ {"cash", "ar"} \subseteq books[r].ids
  BY DEF Has
<1>2. /\ books[r].cash = IF books[r].ids \cap {"whole", "cash"} # {} THEN CashNetted(r) ELSE 0
      /\ books[r].ar = IF books[r].ids \cap {"whole", "ar"} # {} THEN rev[r].qty - CashNetted(r) ELSE 0
  BY DEF Booked
<1>3. books[r].ids \cap {"whole", "cash"} # {} /\ books[r].ids \cap {"whole", "ar"} # {}
  BY <1>1
<1> QED BY <1>2, <1>3

LEMMA FinalizeBalanced ==
    ASSUME IInv, Calm, CalmInv, NEW p \in Proc, NEW ok \in BOOLEAN, Finalize(p, ok)
    PROVE  Balanced'
<1>1. PICK r, steps : r = proc[p].r /\ steps = proc[p].steps
  OBVIOUS
<1>2. proc[p].at = "run" /\ ok
  BY NoMishap DEF Finalize, At_, At
<1>3. r \in Rev /\ rev[r].status # "none" /\ steps \in Steps /\ DoneIsHad(r, steps)
  BY <1>1, <1>2, AtWork
<1>4. rev[r].status # "completed" /\ \A j \in Step : steps[j] = rev[r].steps[j]
  BY <1>1, <1>2, Sole DEF Copied, Working
<1>5. rev \in [Rev -> Ledgers] /\ TypeOK
  BY Typing DEF IInv, TypeRest
<1>6. PICK v : v = Outcome(steps)
  OBVIOUS
<1>7. v \in {"pending", "completed", "partial_failure", "failed"} /\ (v = "completed" => { k \in Step : steps[k] = "done" } = Step)
  BY <1>6 DEF Outcome
<1>8. rev' = [rev EXCEPT ![r].steps = steps, ![r].status = v] /\ UNCHANGED <<sale, line, rows, voids, books, clawed>>
  BY <1>1, <1>2, <1>6 DEF Finalize, world
<1>9. /\ rev'[r].steps = steps /\ rev'[r].status = v
      /\ rev'[r].scope = rev[r].scope /\ rev'[r].qty = rev[r].qty
      /\ \A o \in Rev \ {r} : rev'[o] = rev[o]
  BY <1>3, <1>5, <1>8 DEF Ledgers
<1>10. ASSUME v = "completed"
       PROVE  voids[r] > 0 /\ books[r].cash = CashNetted(r) /\ books[r].ar = rev[r].qty - CashNetted(r)
  <2>1. 1 \in Step /\ 3 \in Step /\ 1 \in Owed /\ 3 \in Owed
    BY DEF Step, Owed
  <2>2. steps[1] = "done" /\ steps[3] = "done"
    BY <1>7, <1>10, <2>1
  <2>3. Has(r, 1) /\ Has(r, 3)
    BY <1>3, <2>1, <2>2 DEF DoneIsHad
  <2>4. voids[r] > 0
    BY <2>3 DEF Has
  <2>5. Booked(r)
    BY <1>3 DEF CalmInv, Told
  <2> QED BY <1>3, <1>4, <2>3, <2>4, <2>5, PostedInFull
<1>11. \A q \in Proc : proc[q].at # "persist"
  BY <1>2, NoneWaits
<1>12. ASSUME NEW o \in Rev, NEW j \in {1, 5}, Through(o, j)
       PROVE  Through(o, j)'
  <2>1. rev[o].steps[j] = "done" /\ j \in Step
    BY <1>11, <1>12 DEF Through, At, Step
  <2>2. rev'[o].steps[j] = "done"
    BY <1>4, <1>9, <2>1
  <2> QED BY <2>2 DEF Through
<1>13. Balanced
  BY DEF CalmInv, Balanced
<1>14. ASSUME NEW o \in Rev
       PROVE  /\ rev'[o].scope = rev[o].scope /\ rev'[o].qty = rev[o].qty
              /\ ~Exists(o) => rev'[o] = rev[o]
              /\ Exists(o) => rev'[o].status # "none"
              /\ \/ rev[o].status = "completed" <=> rev'[o].status = "completed"
                 \/ /\ voids[o] > 0 /\ rev[o].status # "completed" /\ rev'[o].status = "completed"
                    /\ books[o].cash = CashNetted(o) /\ books[o].ar = rev[o].qty - CashNetted(o)
  <2>1. CASE o # r
    BY <1>9, <2>1 DEF Exists
  <2>2. CASE o = r /\ v = "completed"
    BY <1>3, <1>4, <1>9, <1>10, <2>2 DEF Exists
  <2>3. CASE o = r /\ v # "completed"
    BY <1>3, <1>4, <1>7, <1>9, <2>3 DEF Exists
  <2> QED BY <2>1, <2>2, <2>3
<1> QED BY <1>8, <1>12, <1>13, <1>14, QuietBalanced

LEMMA CreateBalanced ==
    ASSUME IInv, Calm, CalmInv, NEW p \in Proc, Create(p)
    PROVE  Balanced'
<1>1. PICK r \in Rev, scope \in {"full", "partial"}, qty \in Nat :
             /\ proc[p].r = r /\ ~Exists(r) /\ Fits(qty)
             /\ rev' = [rev EXCEPT ![r] = [status |-> "pending", scope |-> scope, qty |-> qty,
                                           steps |-> AllPending]]
             /\ RunFrom(p, r, AllPending, 1)
  BY Creating
<1>2. rev \in [Rev -> Ledgers] /\ TypeOK /\ proc[p].at = "create" /\ UNCHANGED <<sale, line, rows, voids, books, clawed>>
  BY Typing DEF IInv, TypeRest, Create, At, world
<1>3. /\ rev'[r].status = "pending" /\ rev'[r].scope = scope /\ rev'[r].qty = qty
      /\ \A o \in Rev \ {r} : rev'[o] = rev[o]
  BY <1>1, <1>2
<1>4. \A q \in Proc : proc[q].at # "persist"
  BY <1>2, NoneWaits
<1>5. \A o \in Rev : Tally(o) /\ Booked(o)
  BY DEF CalmInv, Told
<1>6. rev[r] = NoRow /\ voids[r] \in Nat /\ ~(voids[r] > 0)
  BY <1>1, <1>2, <1>5 DEF Tally, TypeOK
<1>7. voids[r] = 0
  BY <1>6
<1>8. ~Through(r, 5)
  <2>1. rev[r].steps[5] # "done"
    BY <1>6 DEF NoRow, AllPending, Step
  <2> QED BY <1>4, <2>1 DEF Through, At
<1>9. ASSUME NEW o \in Rev
      PROVE  Tally(o)' /\ Booked(o)'
  <2>1. CASE o = r
    <3>1. ~(clawed[r] > 0)
      BY <1>5, <1>8 DEF Tally
    <3>2. Exists(r)' /\ rev'[r].status # "completed" /\ rev'[r].scope \in {"full", "partial"}
      BY <1>3 DEF Exists
    <3>3. Fits(rev[r].qty)'
      BY <1>1, <1>2, <1>3 DEF Fits
    <3>4. Tally(r)'
      BY <1>2, <1>5, <1>6, <3>1, <3>2, <3>3 DEF Tally
    <3>5. Booked(r)'
      BY <1>2, <1>5, <1>6, <1>7, <3>2 DEF Booked
    <3> QED BY <2>1, <3>4, <3>5
  <2>2. CASE o # r
    <3>1. rev'[o] = rev[o]
      BY <1>3, <2>2
    <3>2. \A k : Through(o, k) => Through(o, k)'
      BY <1>4, <3>1 DEF Through, At
    <3>3. Tally(o)'
      BY <1>2, <1>5, <3>1, <3>2 DEF Tally, Exists, Fits
    <3>4. Booked(o)'
      BY <1>2, <1>5, <3>1 DEF Booked, CashNetted, Both
    <3> QED BY <3>3, <3>4
  <2> QED BY <2>1, <2>2
<1>10. Voided' = Voided /\ r \notin Voided /\ Voided \subseteq Rev
  BY <1>2, <1>6 DEF Voided
<1>11. Partial' = Partial /\ Partial \subseteq Voided
  BY <1>3, <1>10 DEF Partial
<1>12. /\ SumFunctionOnSet(Amount', Voided) = SumFunctionOnSet(Amount, Voided)
       /\ SumFunctionOnSet(Amount', Partial) = SumFunctionOnSet(Amount, Partial)
  <2>1. IsFiniteSet(Voided) /\ IsFiniteSet(Partial)
    BY <1>10, <1>11, ReversalAssumption, FS_Subset
  <2>2. \A x \in Voided : Amount'[x] = Amount[x]
    BY <1>3, <1>10 DEF Amount
  <2> PICK f, g : f = Amount /\ g = Amount'
    OBVIOUS
  <2>3. SumFunctionOnSet(g, Voided) = SumFunctionOnSet(f, Voided) /\ SumFunctionOnSet(g, Partial) = SumFunctionOnSet(f, Partial)
    BY <1>11, <2>1, <2>2, SumSame
  <2> QED BY <2>3
<1>13. Counted' /\ Netting'
  BY <1>2, <1>10, <1>11, <1>12 DEF CalmInv, Counted, Netting, PaidIn
<1>14. Given' = Given
  <2>1. \A o \in Rev : Given'[o] = Given[o]
    <3> SUFFICES ASSUME NEW o \in Rev
                 PROVE  Given'[o] = Given[o]
      OBVIOUS
    <3>1. CASE o = r
      BY <1>2, <1>6, <3>1 DEF Given
    <3>2. CASE o # r
      <4>1. rev'[o] = rev[o]
        BY <1>3, <3>2
      <4> QED BY <1>2, <4>1 DEF Given, CashNetted
    <3> QED BY <3>1, <3>2
  <2> QED BY <2>1 DEF Given
<1>15. Till'
  BY <1>2, <1>14 DEF CalmInv, Till
<1> QED BY <1>9, <1>13, <1>15 DEF Balanced, Told

\* Points are only taken in a step the ledger does not call done, so none were before.
LEMMA ClawBalanced ==
    ASSUME IInv, Calm, CalmInv, NEW p \in Proc, NEW how \in {"taken", "skipped", "failed"}, ClawBack(p, how)
    PROVE  Balanced'
<1>1. PICK r : r = proc[p].r
  OBVIOUS
<1>2. proc \in [Proc -> Requests] /\ proc[p] \in Requests /\ TypeOK
  BY Typing DEF IInv
<1>3. /\ proc[p].at = "run" /\ proc[p].k = 5 /\ Marked(p, how # "failed")
      /\ UNCHANGED <<sale, line, rows, voids, books, rev>>
      /\ clawed' = clawed \/ clawed' = [clawed EXCEPT ![r] = clawed[r] + 1]
  BY <1>1 DEF ClawBack, At_, At
<1>4. how # "failed"
  BY ClawHeld
<1>5. r \in Rev /\ clawed \in [Rev -> Nat]
  BY <1>1, <1>2, <1>3, AtWork DEF TypeOK
<1>6. \A q \in Proc : proc[q].at # "persist"
  BY <1>3, NoneWaits
<1>7. \A o \in Rev : Tally(o) /\ Booked(o)
  BY DEF CalmInv, Told
<1>8. rev[r].steps[5] # "done"
  BY <1>1, <1>3, Sole DEF Copied, Working, Step
<1>9. clawed[r] = 0
  <2>1. ~Through(r, 5)
    BY <1>6, <1>8 DEF Through, At
  <2> QED BY <1>5, <1>7, <2>1 DEF Tally
<1>10. Through(r, 5)'
  <2>1. proc' = [proc EXCEPT ![p].at = "persist", ![p].steps[proc[p].k] = "done"]
    BY <1>3, <1>4 DEF Marked
  <2>2. /\ proc'[p].at = "persist" /\ proc'[p].r = r /\ proc'[p].k = 5
        /\ proc'[p].steps = [proc[p].steps EXCEPT ![5] = "done"]
    BY <1>1, <1>2, <1>3, <2>1 DEF Requests
  <2>3. proc[p].steps \in Steps
    BY <1>2 DEF Requests
  <2>4. proc'[p].steps[5] = "done"
    BY <2>2, <2>3 DEF Steps, Step
  <2> QED BY <2>2, <2>4 DEF Through, At
<1>11. \A o \in Rev : Tally(o)'
  <2> SUFFICES ASSUME NEW o \in Rev
               PROVE  Tally(o)'
    OBVIOUS
  <2>1. \A k : Through(o, k) => Through(o, k)'
    BY <1>3, <1>6 DEF Through, At
  <2>2. clawed'[o] = clawed[o] \/ (o = r /\ clawed'[o] = 1)
    BY <1>3, <1>5, <1>9
  <2> QED BY <1>3, <1>7, <1>10, <2>1, <2>2 DEF Tally, Exists, Fits
<1>12. \A o \in Rev : Booked(o)'
  BY <1>3, <1>7 DEF Booked, CashNetted, Both
<1>13. Counted' /\ Netting' /\ Till'
  <2>1. Amount' = Amount /\ Voided' = Voided /\ Partial' = Partial /\ PaidIn' = PaidIn /\ Given' = Given
    BY <1>3 DEF Amount, Voided, Partial, PaidIn, Given, CashNetted
  <2> QED BY <1>3, <2>1 DEF CalmInv, Counted, Netting, Till
<1> QED BY <1>11, <1>12, <1>13 DEF Balanced, Told

\* A refund posted for the reversal at work, and nothing else.
LEMMA PostingBalanced ==
    ASSUME IInv, Calm, CalmInv, NEW p \in Proc, proc[p].at \in {"post", "post_cash", "post_ar"},
           NEW r \in Rev, proc[p].r = r, UNCHANGED <<sale, line, rows, voids, clawed, rev>>,
           NEW id \in {"whole", "cash", "ar"}, id = "whole" <=> ~Both(r),
           books' = books \/ Post(r, id, IF id = "ar" THEN 0 ELSE CashNetted(r),
                                         IF id = "cash" THEN 0 ELSE rev[r].qty - CashNetted(r))
    PROVE  Balanced'
<1>1. TypeOK /\ books \in [Rev -> BookOf]
  BY Typing DEF IInv, TypeRest
<1>2. \A q \in Proc : proc[q].at # "persist"
  BY NoneWaits
<1>3. \A o \in Rev : Tally(o) /\ Booked(o)
  BY DEF CalmInv, Told
<1>4. rev[r].status # "completed" /\ voids[r] > 0
  <2>1. Working(p) /\ Copied(p) /\ proc[p].k = 3
    BY Sole DEF Working, IInv, RequestInv
  <2>2. proc[p].steps[1] = "done" /\ rev[r].status # "completed"
    BY <2>1 DEF Copied
  <2>3. Has(r, 1)
    BY <2>1, <2>2 DEF IInv, RequestInv, DoneIsHad, Owed
  <2> QED BY <2>2, <2>3 DEF Has
<1>5. \A o \in Rev : Tally(o)'
  <2> SUFFICES ASSUME NEW o \in Rev
               PROVE  Tally(o)'
    OBVIOUS
  <2>1. \A k : Through(o, k) => Through(o, k)'
    BY <1>2 DEF Through, At
  <2> QED BY <1>3, <2>1 DEF Tally, Exists, Fits
<1>6. PICK c \in Nat, n \in Nat : c = CashNetted(r) /\ n = rev[r].qty
  BY <1>1, Posting
<1>7. PICK b \in BookOf : b = books[r]
  BY <1>1
<1>8. PICK both \in BOOLEAN : both <=> Both(r)
  OBVIOUS
<1>9. /\ b.ids \subseteq IF both THEN {"cash", "ar"} ELSE {"whole"}
      /\ b.cash = IF b.ids \cap {"whole", "cash"} # {} THEN c ELSE 0
      /\ b.ar = IF b.ids \cap {"whole", "ar"} # {} THEN n - c ELSE 0
  BY <1>3, <1>4, <1>6, <1>7, <1>8 DEF Booked
<1>10. PICK x : x = IF books' = books \/ id \in b.ids THEN b
                    ELSE [ids |-> b.ids \cup {id}, cash |-> b.cash + (IF id = "ar" THEN 0 ELSE c),
                          ar |-> b.ar + (IF id = "cash" THEN 0 ELSE n - c)]
  OBVIOUS
<1>11. books' = [books EXCEPT ![r] = x]
  BY <1>1, <1>6, <1>7, <1>10 DEF Post
<1>12. /\ x.ids \subseteq IF both THEN {"cash", "ar"} ELSE {"whole"}
       /\ x.cash = IF x.ids \cap {"whole", "cash"} # {} THEN c ELSE 0
       /\ x.ar = IF x.ids \cap {"whole", "ar"} # {} THEN n - c ELSE 0
  <2>1. CASE x = b
    BY <1>9, <2>1
  <2>2. CASE x # b
    <3>1. /\ id \notin b.ids /\ x.ids = b.ids \cup {id}
          /\ x.cash = b.cash + (IF id = "ar" THEN 0 ELSE c)
          /\ x.ar = b.ar + (IF id = "cash" THEN 0 ELSE n - c)
      BY <1>10, <2>2
    <3>2. CASE id = "whole"
      <4>1. ~both /\ b.ids = {}
        BY <1>8, <1>9, <3>1, <3>2
      <4>2. b.cash = 0 /\ b.ar = 0
        BY <1>9, <4>1
      <4> QED BY <3>1, <3>2, <4>1, <4>2
    <3>3. CASE id = "cash"
      <4>1. both /\ b.ids \subseteq {"ar"}
        BY <1>8, <1>9, <3>1, <3>3
      <4>2. b.cash = 0 /\ x.ar = b.ar
        BY <1>9, <3>1, <3>3, <4>1
      <4>3. x.ids \cap {"whole", "ar"} # {} <=> b.ids \cap {"whole", "ar"} # {}
        BY <3>1, <3>3
      <4> QED BY <1>9, <3>1, <3>3, <4>1, <4>2, <4>3
    <3>4. CASE id = "ar"
      <4>1. both /\ b.ids \subseteq {"cash"}
        BY <1>8, <1>9, <3>1, <3>4
      <4>2. b.ar = 0 /\ x.cash = b.cash
        BY <1>9, <3>1, <3>4, <4>1
      <4>3. x.ids \cap {"whole", "cash"} # {} <=> b.ids \cap {"whole", "cash"} # {}
        BY <3>1, <3>4
      <4> QED BY <1>9, <3>1, <3>4, <4>1, <4>2, <4>3
    <3> QED BY <3>2, <3>3, <3>4
  <2> QED BY <2>1, <2>2
<1>13. books'[r] = x /\ \A o \in Rev \ {r} : books'[o] = books[o]
  BY <1>1, <1>11
<1>14. \A o \in Rev : CashNetted(o)' = CashNetted(o) /\ (Both(o)' <=> Both(o))
  BY DEF CashNetted, Both
<1>15. \A o \in Rev : Booked(o)'
  <2> SUFFICES ASSUME NEW o \in Rev
               PROVE  Booked(o)'
    OBVIOUS
  <2>1. CASE o # r
    <3>1. books'[o] = books[o] /\ Booked(o)
      BY <1>3, <1>13, <2>1
    <3> QED BY <1>14, <3>1 DEF Booked
  <2>2. CASE o = r
    <3>1. voids'[r] # 0
      BY <1>4
    <3> QED BY <1>4, <1>6, <1>8, <1>12, <1>13, <1>14, <2>2, <3>1 DEF Booked
  <2> QED BY <2>1, <2>2
<1>16. Given' = Given
  <2>1. \A o \in Rev : Given'[o] = Given[o]
    BY <1>4, <1>13, <1>14 DEF Given
  <2> QED BY <2>1 DEF Given
<1>17. Counted' /\ Netting' /\ Till'
  <2>1. Amount' = Amount /\ Voided' = Voided /\ Partial' = Partial /\ PaidIn' = PaidIn
    BY DEF Amount, Voided, Partial, PaidIn
  <2> QED BY <1>16, <2>1 DEF CalmInv, Counted, Netting, Till
<1> QED BY <1>5, <1>15, <1>17 DEF Balanced, Told

LEMMA PostBalanced ==
    ASSUME IInv, Calm, CalmInv, NEW p \in Proc, NEW o \in Answer, PostWhole(p, o) \/ PostCash(p, o) \/ PostAR(p, o)
    PROVE  Balanced'
<1>1. /\ proc[p].at \in {"post", "post_cash", "post_ar"}
      /\ UNCHANGED <<sale, line, rows, voids, clawed, rev>>
  BY DEF PostWhole, PostCash, PostAR, At
<1>2. PICK r \in Rev : proc[p].r = r
  BY <1>1, AtWork
<1>3. PICK cut : cut = proc[p].cut
  OBVIOUS
<1>4. cut = Shares(r) /\ (proc[p].at = "post" <=> ~Both(r))
  BY <1>1, <1>2, <1>3, Sole DEF Known
<1>5. cut["cash"] = CashNetted(r) /\ cut["on_account"] = rev[r].qty - CashNetted(r)
  BY <1>4 DEF Shares, Row
<1>6. PICK id \in {"whole", "cash", "ar"} :
          /\ id = "whole" <=> ~Both(r)
          /\ books' = books \/ Post(r, id, IF id = "ar" THEN 0 ELSE CashNetted(r),
                                           IF id = "cash" THEN 0 ELSE rev[r].qty - CashNetted(r))
  <2>1. CASE PostWhole(p, o)
    <3>1. proc[p].at = "post" /\ (books' = books \/ Post(r, "whole", CashNetted(r), rev[r].qty - CashNetted(r)))
      BY <1>2, <1>3, <1>5, <2>1 DEF PostWhole, At
    <3> QED BY <1>4, <3>1
  <2>2. CASE PostCash(p, o)
    <3>1. proc[p].at = "post_cash" /\ (books' = books \/ Post(r, "cash", CashNetted(r), 0))
      BY <1>2, <1>3, <1>5, <2>2 DEF PostCash, At
    <3> QED BY <1>4, <3>1
  <2>3. CASE PostAR(p, o)
    <3>1. proc[p].at = "post_ar" /\ (books' = books \/ Post(r, "ar", 0, rev[r].qty - CashNetted(r)))
      BY <1>2, <1>3, <1>5, <2>3 DEF PostAR, At
    <3> QED BY <1>4, <3>1
  <2> QED BY <2>1, <2>2, <2>3
<1> QED BY <1>1, <1>2, <1>6, PostingBalanced

\* What the commit of a calm behaviour writes: the reversal's units once, and off the rows what
\* they can bear, the on-account row first.
LEMMA Committing ==
    ASSUME IInv, Calm, CalmInv, NEW p \in Proc, NEW o \in Answer, Commit(p, o),
           NEW r, NEW n, NEW a, NEW b, NEW ca, NEW cb,
           r = proc[p].r, n = rev[r].qty, a = rows["on_account"].amount, b = rows["cash"].amount,
           ca = IF rev[r].scope = "full" THEN 0 ELSE Lesser(n, a),
           cb = IF rev[r].scope = "full" THEN 0 ELSE Lesser(n - ca, b)
    PROVE  /\ r \in Rev /\ n \in Nat /\ a \in Nat /\ b \in Nat /\ ca \in Nat /\ cb \in Nat
           /\ rev[r].status \notin {"none", "completed"} /\ voids[r] = 0 /\ Through(r, 1)'
           /\ rev' = rev /\ sale' = sale /\ books' = books /\ clawed' = clawed
           /\ line' = [voided |-> line.voided + n, by |-> r]
           /\ voids' = [voids EXCEPT ![r] = 1]
           /\ rows'["on_account"].amount = a - ca /\ rows'["cash"].amount = b - cb
           /\ \A w \in Row : rows'[w].by = rows[w].by \/ rows'[w].by = r
           /\ CashNetted(r)' = cb
<1>1. PICK q : q \in Requests /\ q = proc[p] /\ r = q.r
  BY Typing DEF IInv
<1>2. q.at = "commit" /\ r \in Rev /\ q.k = 1 /\ rev[r].status # "none" /\ (lock = p \/ q.seen.by = r)
      /\ (q.seen.by = r => voids[r] > 0)
  BY <1>1 DEF Commit, At, IInv, RequestInv
<1>3. /\ q.seen = line /\ q.was = [w \in Row |-> rows[w].amount]
      /\ q.cut = IF rev[r].scope = "full" THEN Zero ELSE Cuts(r)
      /\ rev[r].status # "completed" /\ rev[r].steps[1] # "done"
  <2>1. proc[p].at = "commit" /\ proc[p].r = r /\ proc[p].k = 1 /\ 1 \in Step
    BY <1>1, <1>2 DEF Step
  <2>2. Known(p) /\ Copied(p) /\ Working(p)
    BY <2>1, Sole DEF Working
  <2> QED BY <1>1, <2>1, <2>2 DEF Known, Copied
<1>4. TypeOK /\ rows \in [Row -> RowOf] /\ proc \in [Proc -> Requests]
  BY Typing DEF IInv, TypeRest
<1>5. \A x \in Proc : proc[x].at # "persist"
  BY <1>1, <1>2, NoneWaits
<1>6. Tally(r)
  BY <1>2 DEF CalmInv, Told
<1>7. voids[r] = 0
  <2>1. ~Through(r, 1)
    BY <1>3, <1>5 DEF Through, At
  <2> QED BY <1>2, <1>4, <1>6, <2>1 DEF Tally, TypeOK
<1>8. lock = p
  BY <1>2, <1>7
<1>9. o = "ok" /\ Marked(p, TRUE)
  BY CommitHeld DEF Commit
<1>10. n \in Nat /\ a \in Nat /\ b \in Nat
  BY <1>2, <1>4 DEF TypeOK, Row
<1>11. "on_account" \in Row /\ "cash" \in Row /\ \A w \in Row : w = "on_account" \/ w = "cash"
  BY DEF Row
<1>12. \A w \in Row : rows[w].by # r
  BY <1>6, <1>7 DEF Tally
<1>13. /\ ca \in Nat /\ cb \in Nat /\ cb <= n
       /\ ca = q.cut["on_account"] /\ cb = q.cut["cash"]
  <2>1. CASE rev[r].scope = "full"
    BY <1>3, <1>10, <1>11, <2>1 DEF Zero
  <2>2. CASE rev[r].scope # "full"
    <3>1. ca \in Nat /\ ca = Lesser(n, a) /\ ca <= n
      BY <1>10, <2>2 DEF Lesser
    <3>2. cb \in Nat /\ cb = Lesser(n - ca, b) /\ cb <= n
      BY <1>10, <2>2, <3>1 DEF Lesser
    <3>3. Cuts(r)["on_account"] = ca /\ Cuts(r)["cash"] = cb
      BY <1>10, <1>11, <1>12, <3>1, <3>2 DEF Cuts
    <3> QED BY <1>3, <2>2, <3>1, <3>2, <3>3
  <2> QED BY <2>1, <2>2
<1>14. /\ rev' = rev /\ sale' = sale /\ books' = books /\ clawed' = clawed
       /\ line' = [voided |-> line.voided + n, by |-> r]
       /\ voids' = [voids EXCEPT ![r] = voids[r] + 1]
       /\ rows' = [w \in Row |-> Netted(p, w)]
  BY <1>1, <1>3, <1>8, <1>9, <1>10 DEF Commit
<1>15. \A w \in Row : rows'[w] = IF q.cut[w] = 0 THEN rows[w]
                                 ELSE [amount |-> rows[w].amount - q.cut[w], by |-> r, cut |-> q.cut[w]]
  BY <1>1, <1>3, <1>14 DEF Netted
<1>x. PICK u, v : u = rows["on_account"] /\ v = rows["cash"]
  OBVIOUS
<1>y. PICK ux, vx : ux = rows'["on_account"] /\ vx = rows'["cash"]
  OBVIOUS
<1>z. /\ u.amount = a /\ v.amount = b /\ u.by # r /\ v.by # r
      /\ ux = IF ca = 0 THEN u ELSE [amount |-> a - ca, by |-> r, cut |-> ca]
      /\ vx = IF cb = 0 THEN v ELSE [amount |-> b - cb, by |-> r, cut |-> cb]
  BY <1>10, <1>11, <1>12, <1>13, <1>15, <1>x, <1>y
<1>w. a - 0 = a /\ b - 0 = b
  BY <1>10
<1>v. ux.amount = a - ca /\ vx.amount = b - cb
  <2>1. CASE ca = 0
    BY ONLY <1>w, <1>z, <2>1, <1>10
  <2>2. CASE ca # 0
    BY ONLY <1>w, <1>z, <2>2, <1>10
  <2> QED BY <2>1, <2>2
<1>16. rows'["on_account"].amount = a - ca /\ rows'["cash"].amount = b - cb
  BY <1>v, <1>y
<1>17. \A w \in Row : rows'[w].by = rows[w].by \/ rows'[w].by = r
  <2> SUFFICES ASSUME NEW w \in Row
               PROVE  rows'[w].by = rows[w].by \/ rows'[w].by = r
    OBVIOUS
  <2> PICK x, y, d : x = rows[w] /\ y = rows'[w] /\ d = q.cut[w]
    OBVIOUS
  <2>1. y = IF d = 0 THEN x ELSE [amount |-> x.amount - d, by |-> r, cut |-> d]
    BY <1>15
  <2>2. CASE d = 0
    BY <2>1, <2>2
  <2>3. CASE d # 0
    <3>1. y.by = r
      BY <2>1, <2>3
    <3> QED BY <3>1
  <2> QED BY <2>2, <2>3
<1>18. CashNetted(r)' = cb
  <2>1. rev'[r].qty = n
    BY <1>10, <1>14
  <2>2. CASE cb = 0
    <3>1. rows'["cash"].by # r
      BY <1>y, <1>z, <2>2
    <3> QED BY <1>10, <2>1, <2>2, <3>1 DEF CashNetted, Lesser
  <2>3. CASE cb # 0
    <3>1. rows'["cash"].by = r /\ rows'["cash"].cut = cb
      BY <1>y, <1>z, <2>3
    <3> QED BY <1>10, <1>13, <2>1, <3>1 DEF CashNetted, Lesser
  <2> QED BY <2>2, <2>3
<1>19. Through(r, 1)'
  <2>1. proc' = [proc EXCEPT ![p].at = "persist", ![p].steps[proc[p].k] = "done"]
    BY <1>9 DEF Marked
  <2>2. /\ proc'[p].at = "persist" /\ proc'[p].r = r /\ proc'[p].k = 1
        /\ proc'[p].steps = [q.steps EXCEPT ![1] = "done"]
    BY <1>1, <1>2, <1>4, <2>1 DEF Requests
  <2>3. q.steps \in Steps
    BY <1>1 DEF Requests
  <2>4. proc'[p].steps[1] = "done"
    BY <2>2, <2>3 DEF Steps, Step
  <2> QED BY <2>2, <2>4 DEF Through, At
<1>20. voids' = [voids EXCEPT ![r] = 1]
  BY <1>7, <1>14
<1>21. rev[r].status \notin {"none", "completed"}
  BY <1>2, <1>3
<1> QED BY <1>2, <1>7, <1>10, <1>13, <1>14, <1>16, <1>17, <1>18, <1>19, <1>20, <1>21

LEMMA CommitBalanced ==
    ASSUME IInv, Calm, CalmInv, NEW p \in Proc, NEW o \in Answer, Commit(p, o)
    PROVE  Balanced'
<1>1. PICK r, n, a, b, ca, cb :
          /\ r = proc[p].r /\ n = rev[r].qty /\ a = rows["on_account"].amount /\ b = rows["cash"].amount
          /\ ca = IF rev[r].scope = "full" THEN 0 ELSE Lesser(n, a)
          /\ cb = IF rev[r].scope = "full" THEN 0 ELSE Lesser(n - ca, b)
  OBVIOUS
<1>2. /\ r \in Rev /\ n \in Nat /\ a \in Nat /\ b \in Nat /\ ca \in Nat /\ cb \in Nat
      /\ rev[r].status \notin {"none", "completed"} /\ voids[r] = 0 /\ Through(r, 1)'
      /\ rev' = rev /\ sale' = sale /\ books' = books /\ clawed' = clawed
      /\ line' = [voided |-> line.voided + n, by |-> r]
      /\ voids' = [voids EXCEPT ![r] = 1]
      /\ rows'["on_account"].amount = a - ca /\ rows'["cash"].amount = b - cb
      /\ \A w \in Row : rows'[w].by = rows[w].by \/ rows'[w].by = r
      /\ CashNetted(r)' = cb
  BY <1>1, Committing
<1>3. TypeOK /\ proc[p].at = "commit"
  BY DEF IInv, Commit, At
<1>4. \A q \in Proc : proc[q].at # "persist"
  BY <1>3, NoneWaits
<1>5. \A x \in Rev \ {r} : rev[x].status \in {"none", "completed"}
  BY <1>1, <1>3, Sole
<1>6. \A x \in Rev : Tally(x) /\ Booked(x)
  BY DEF CalmInv, Told
<1>7. /\ voids'[r] = 1 /\ \A x \in Rev \ {r} : voids'[x] = voids[x]
      /\ \A x \in Rev : voids[x] \in Nat
  BY <1>2, <1>3 DEF TypeOK
\* Every other reversal has either voided its units and is completed, or does not exist.
<1>8. ASSUME NEW x \in Rev \ {r}
      PROVE  (rev[x].status = "completed" /\ voids[x] > 0) \/ (rev[x].status = "none" /\ voids[x] = 0)
  <2>1. CASE rev[x].status = "completed"
    <3>1. Has(x, 1)
      BY <2>1 DEF IInv, RowInv, Owed
    <3> QED BY <2>1, <3>1 DEF Has
  <2>2. CASE rev[x].status = "none"
    <3>1. ~(voids[x] > 0)
      BY <1>6, <2>2 DEF Tally, Exists
    <3> QED BY <1>7, <2>2, <3>1
  <2> QED BY <1>5, <2>1, <2>2
<1>9. \A x \in Rev : \A k : Through(x, k) => Through(x, k)'
  BY <1>2, <1>4 DEF Through, At
<1>10. ASSUME NEW x \in Rev
       PROVE  Tally(x)' /\ Booked(x)'
  <2>1. CASE x = r
    <3>1. Exists(r) /\ Exists(r)' /\ voids'[r] > 0 /\ voids'[r] # 0
      BY <1>2, <1>7 DEF Exists
    <3>2. Tally(r)'
      BY <1>2, <1>6, <1>9, <3>1 DEF Tally
    <3>3. books'[r].ids = {} /\ books'[r].cash = 0 /\ books'[r].ar = 0
      BY <1>2, <1>6 DEF Booked
    <3>4. Booked(r)'
      BY <1>2, <3>1, <3>3 DEF Booked
    <3> QED BY <2>1, <3>2, <3>4
  <2>2. CASE x # r
    <3>1. rev'[x] = rev[x] /\ books'[x] = books[x] /\ clawed'[x] = clawed[x] /\ voids'[x] = voids[x]
      BY <1>2, <1>7, <2>2
    <3>2. \A w \in Row : rows'[w].by = x => rows[w].by = x
      BY <1>2, <2>2
    <3>3. (rev[x].status = "completed" /\ voids[x] > 0) \/ (rev[x].status = "none" /\ voids[x] = 0)
      BY <1>8, <2>2
    <3>4. Tally(x)'
      BY <1>6, <1>7, <1>9, <3>1, <3>2, <3>3 DEF Tally, Exists
    <3>5. Booked(x)'
      BY <1>6, <1>7, <3>1, <3>3 DEF Booked
    <3> QED BY <3>4, <3>5
  <2> QED BY <2>1, <2>2
<1>11. Voided' = Voided \cup {r} /\ r \notin Voided /\ Voided \subseteq Rev /\ IsFiniteSet(Voided) /\ IsFiniteSet(Voided')
  <2>1. Voided' = Voided \cup {r} /\ r \notin Voided /\ Voided \subseteq Rev
    BY <1>2, <1>7 DEF Voided
  <2>2. Voided' \subseteq Rev
    BY <1>2, <2>1
  <2> QED BY <2>1, <2>2, ReversalAssumption, FS_Subset
<1>12. PICK f : f = Amount
  OBVIOUS
<1>13. f[r] = n /\ Amount' = f /\ \A x \in Rev : f[x] \in Nat
  BY <1>1, <1>2, <1>3, <1>12 DEF Amount, TypeOK
<1>14. ASSUME NEW S, S \subseteq Rev, r \notin S
       PROVE  SumFunctionOnSet(f, S \cup {r}) = n + SumFunctionOnSet(f, S) /\ SumFunctionOnSet(f, S) \in Int
  <2>1. IsFiniteSet(S) /\ IsFiniteSet(S \cup {r}) /\ (S \cup {r}) \ {r} = S
    <3>1. S \cup {r} \subseteq Rev
      BY <1>2, <1>14
    <3> QED BY <1>14, <3>1, ReversalAssumption, FS_Subset
  <2>2. \A x \in S \cup {r} : f[x] \in Int
    BY <1>2, <1>13, <1>14
  <2>3. SumFunctionOnSet(f, S \cup {r}) = f[r] + SumFunctionOnSet(f, (S \cup {r}) \ {r})
    BY <2>1, <2>2, SumTakes
  <2>4. SumFunctionOnSet(f, S) \in Int
    BY <2>1, <2>2, SumNumber
  <2> QED BY <1>13, <2>1, <2>3, <2>4
<1>15. Counted'
  <2>1. Exists(r) /\ Fits(rev[r].qty)
    BY <1>2, <1>6 DEF Exists, Tally
  <2>2. PICK v \in Nat, t \in Int, s \in Int, m \in Int :
            v = line.voided /\ t = sale.returned /\ s = SumFunctionOnSet(f, Voided) /\ m = Sold
    <3>1. line.voided \in Nat /\ sale.returned \in Int /\ Sold \in Int
      BY <1>3, ReversalAssumption DEF TypeOK
    <3> QED BY <1>11, <1>14, <3>1
  <2>3. n + v + t <= m /\ v = s
    BY <1>1, <1>12, <2>1, <2>2 DEF Fits, CalmInv, Counted
  <2>4. line'.voided = v + n /\ sale'.returned = t
    BY <1>2, <2>2
  <2>5. SumFunctionOnSet(Amount', Voided') = n + s
    BY <1>11, <1>13, <1>14, <2>2
  <2>6. v + n + t <= m /\ v + n = n + s
    BY <1>2, <2>3
  <2> QED BY <2>2, <2>4, <2>5, <2>6 DEF Counted
<1>16. Netting'
  <2>1. PICK P \in Int, s \in Int, t \in Int :
            P = PaidIn /\ s = SumFunctionOnSet(f, Partial) /\ t = SumFunctionOnSet(Amount', Partial')
    <3>1. PaidIn \in Int
      BY <1>3, ReversalAssumption DEF TypeOK, PaidIn
    <3>2. Partial \subseteq Rev /\ r \notin Partial
      BY <1>11 DEF Partial
    <3>3. SumFunctionOnSet(f, Partial) \in Int
      BY <1>14, <3>2
    <3>4. Partial' \subseteq Voided'
      BY DEF Partial
    <3>5. IsFiniteSet(Partial') /\ Partial' \subseteq Rev
      BY <1>2, <1>11, <3>4, FS_Subset
    <3>6. \A x \in Partial' : f[x] \in Int
      BY <1>13, <3>5
    <3>7. SumFunctionOnSet(f, Partial') \in Int
      BY <3>5, <3>6, SumNumber
    <3> QED BY <1>13, <3>1, <3>3, <3>7
  <2>2. a + b = IF 0 < P - s THEN P - s ELSE 0
    <3>1. a + b = Max({0, P - s})
      BY <1>1, <1>12, <2>1 DEF CalmInv, Netting
    <3> QED BY <3>1, MaxIs
  <2>3. (a - ca) + (b - cb) = IF 0 < P - t THEN P - t ELSE 0
    <3>1. CASE rev[r].scope = "full"
      <4>1. Partial' = Partial
        BY <1>2, <1>11, <3>1 DEF Partial
      <4>2. t = s /\ ca = 0 /\ cb = 0
        BY <1>1, <1>13, <2>1, <3>1, <4>1
      <4> QED BY <1>2, <2>2, <4>2
    <3>2. CASE rev[r].scope # "full"
      <4>1. rev[r].scope = "partial"
        BY <1>2, <1>6, <3>2 DEF Tally, Exists
      <4>2. Partial' = Partial \cup {r} /\ Partial \subseteq Rev /\ r \notin Partial
        BY <1>2, <1>11, <4>1 DEF Partial
      <4>3. t = n + s
        BY <1>13, <1>14, <2>1, <4>2
      <4>4. ca = Lesser(n, a) /\ cb = Lesser(n - ca, b)
        BY <1>1, <3>2
      <4>5. n \in Nat /\ a \in Nat /\ b \in Nat /\ ca \in Nat /\ cb \in Nat
        BY <1>2
      <4> QED BY ONLY P \in Int, s \in Int, <2>2, <4>3, <4>4, <4>5 DEF Lesser
    <3> QED BY <3>1, <3>2
  <2>4. PaidIn' = P
    BY <1>2, <2>1 DEF PaidIn
  <2>5. (a - ca) + (b - cb) = Max({0, P - t})
    BY <2>3, MaxIs
  <2> QED BY <1>2, <2>1, <2>4, <2>5 DEF Netting
<1>17. Till'
  <2>1. PICK g, h : g = Given /\ h = Given'
    OBVIOUS
  <2>2. g[r] = 0 /\ h[r] = cb
    <3>1. books[r].cash = 0
      BY <1>2, <1>6 DEF Booked
    <3>2. voids'[r] > 0 /\ ~(voids[r] > 0) /\ rev'[r].status # "completed"
      BY <1>2, <1>7
    <3> QED BY <1>2, <2>1, <3>1, <3>2 DEF Given
  <2>3. ASSUME NEW x \in Rev \ {r}
        PROVE  h[x] = g[x] /\ g[x] = books[x].cash
    <3>1. rev[x].status = "completed" \/ ~(voids[x] > 0)
      BY <1>8
    <3> QED BY <1>2, <1>7, <2>1, <3>1 DEF Given
  <2>4. \A x \in Rev : g[x] \in Int /\ h[x] \in Int
    <3>1. \A x \in Rev : books[x].cash \in Int
      BY <1>3 DEF TypeOK
    <3> QED BY <1>2, <2>2, <2>3, <3>1
  <2>5. SumFunctionOnSet(h, Rev) = SumFunctionOnSet(g, Rev) + h[r] - g[r]
    BY <1>2, <2>3, <2>4, ReversalAssumption, SumChanges
  <2>6. PICK m \in Int : m = sale.paid["cash"]
    BY <1>3, ReversalAssumption DEF TypeOK
  <2>7. SumFunctionOnSet(g, Rev) = m - b
    BY <1>1, <2>1, <2>6 DEF CalmInv, Till
  <2>8. SumFunctionOnSet(h, Rev) = m - (b - cb)
    BY <1>2, <2>2, <2>5, <2>7
  <2> QED BY <1>2, <2>1, <2>6, <2>8 DEF Till
<1> QED BY <1>10, <1>15, <1>16, <1>17 DEF Balanced, Told

----------------------------------------------------------------------------
(* The whole invariant of calm behaviours, and what follows from it.        *)

LEMMA CalmInit == Init => CalmInv
<1> SUFFICES ASSUME Init
             PROVE  CalmInv
  OBVIOUS
<1>1. Held
  <2>1. \A p \in Proc : proc[p].at = "idle"
    BY DEF Init, Idle, Handling
  <2> QED BY <2>1 DEF Held, Alone, Copied, Known, Working, At
<1>2. \A r \in Rev : rev[r] = NoRow /\ voids[r] = 0 /\ clawed[r] = 0 /\ books[r] = [ids |-> {}, cash |-> 0, ar |-> 0]
  BY DEF Init
<1>3. NoRow.status = "none" /\ NoRow.qty = 0
  BY DEF NoRow
<1>4. \A w \in Row : rows[w].by = None /\ rows[w].amount = sale.paid[w]
  BY DEF Init
<1>5. Told
  <2> SUFFICES ASSUME NEW r \in Rev
               PROVE  Tally(r) /\ Booked(r)
    BY DEF Told
  <2>1. ~(voids[r] > 0) /\ ~(clawed[r] > 0) /\ r # None
    BY <1>2, ReversalAssumption
  <2>2. Tally(r)
    BY <1>2, <1>3, <1>4, <2>1 DEF Tally, Exists
  <2>3. Booked(r)
    BY <1>2, <1>3, <2>1 DEF Booked
  <2> QED BY <2>2, <2>3
<1>6. Voided = {} /\ Partial = {}
  BY <1>2 DEF Voided, Partial
<1>7. SumFunctionOnSet(Amount, {}) = 0
  BY SumEmpty
<1>8. PICK a \in Nat, b \in Nat, t \in Nat, m \in Nat :
          a = sale.paid["on_account"] /\ b = sale.paid["cash"] /\ t = sale.returned /\ m = Sold /\ t <= m
  <2>1. sale.paid["on_account"] \in Nat /\ sale.paid["cash"] \in Nat /\ sale.returned \in 0 .. Sold - 1 /\ Sold \in Nat
    BY ReversalAssumption DEF Init
  <2>2. sale.returned \in Nat /\ sale.returned <= Sold
    BY <2>1
  <2> QED BY <2>1, <2>2
<1>9. Counted
  <2>1. line.voided = 0
    BY DEF Init, Unseen
  <2> QED BY <1>6, <1>7, <1>8, <2>1 DEF Counted
<1>10. Netting
  <2>1. a + b = Max({0, (a + b) - 0})
    <3>1. (a + b) - 0 \in Int
      OBVIOUS
    <3> QED BY <3>1, MaxIs
  <2> QED BY <1>4, <1>6, <1>7, <1>8, <2>1 DEF Netting, PaidIn, Row
<1>11. Till
  <2> PICK g : g = Given
    OBVIOUS
  <2>1. \A r \in Rev : g[r] = 0
    <3>1. \A r \in Rev : ~(voids[r] > 0) /\ books[r].cash = 0
      BY <1>2
    <3> QED BY <3>1 DEF Given
  <2>2. SumFunctionOnSet(g, Rev) = 0
    BY <2>1, ReversalAssumption, SumZero
  <2> QED BY <1>4, <1>8, <2>2 DEF Till, Row
<1> QED BY <1>1, <1>5, <1>9, <1>10, <1>11 DEF CalmInv

LEMMA CalmStutters == ASSUME CalmInv, UNCHANGED vars PROVE CalmInv'
<1>1. UNCHANGED <<sale, line, rows, rev, voids, books, clawed, proc>>
  BY DEF vars
<1>2. Amount' = Amount /\ Voided' = Voided /\ Partial' = Partial /\ PaidIn' = PaidIn /\ Given' = Given
  BY <1>1 DEF Amount, Voided, Partial, PaidIn, Given, CashNetted
<1>3. Counted' /\ Netting' /\ Till' <=> Counted /\ Netting /\ Till
  BY <1>1, <1>2 DEF Counted, Netting, Till
<1>4. Held' <=> Held
  BY <1>1 DEF Held, Alone, Copied, Known, Working, At, Exists, Fits, Shares, Both, Cuts, CashNetted
<1>5. Told' <=> Told
  BY <1>1 DEF Told, Tally, Booked, Through, At, Exists, Fits, Both, CashNetted
<1>6. Calm' <=> Calm
  BY <1>1 DEF Calm
<1> QED BY <1>3, <1>4, <1>5, <1>6 DEF CalmInv

LEMMA CalmStep ==
    ASSUME IInv, Calm, CalmInv, NEW p \in Proc,
           Request(p) \/ (\E r \in Rev : Retry(p, r)) \/ Handler(p) \/ Crash(p)
    PROVE  sale' = sale /\ Held' /\ Balanced'
<1>1. ASSUME NEW r \in Rev, NEW scope \in {"full", "partial"}, NEW want \in 1 .. Sold, Execute(p, r, scope, want)
      PROVE  sale' = sale /\ Held' /\ Balanced'
  BY <1>1, ExecuteHeld, QuietStep DEF Execute
<1>2. CASE Request(p)
  <2>1. Sold \in 1 .. Sold
    BY ReversalAssumption
  <2> QED BY <1>1, <1>2, <2>1 DEF Request
<1>3. ASSUME NEW r \in Rev, Retry(p, r)
      PROVE  sale' = sale /\ Held' /\ Balanced'
  BY <1>3, RetryHeld, QuietStep DEF Retry
<1>4. CASE Create(p)
  BY <1>4, CreateHeld, CreateBalanced DEF Create
<1>5. CASE ReadLine(p)
  BY <1>5, ReadLineHeld, QuietStep DEF ReadLine
<1>6. CASE VoidLine(p)
  BY <1>6, VoidLineHeld, QuietStep DEF VoidLine
<1>7. CASE SplitGL(p)
  BY <1>7, SplitHeld, QuietStep DEF SplitGL
<1>8. ASSUME NEW ok \in BOOLEAN, Persist(p, ok)
      PROVE  sale' = sale /\ Held' /\ Balanced'
  BY <1>8, PersistHeld, PersistBalanced DEF Persist
<1>9. ASSUME NEW ok \in BOOLEAN, Finalize(p, ok)
      PROVE  sale' = sale /\ Held' /\ Balanced'
  BY <1>9, FinalizeHeld, FinalizeBalanced DEF Finalize
<1>10. ASSUME NEW how \in {"taken", "skipped", "failed"}, ClawBack(p, how)
       PROVE  sale' = sale /\ Held' /\ Balanced'
  BY <1>10, ClawHeld, ClawBalanced DEF ClawBack
<1>11. ASSUME NEW o \in Answer, Commit(p, o)
       PROVE  sale' = sale /\ Held' /\ Balanced'
  BY <1>11, CommitHeld, CommitBalanced DEF Commit
<1>12. ASSUME NEW o \in Answer, ReverseStock(p, o)
       PROVE  sale' = sale /\ Held' /\ Balanced'
  BY <1>12, StockHeld, QuietStep DEF ReverseStock
<1>13. ASSUME NEW o \in Answer, PostWhole(p, o) \/ PostCash(p, o) \/ PostAR(p, o)
       PROVE  sale' = sale /\ Held' /\ Balanced'
  <2>1. sale' = sale
    BY <1>13 DEF PostWhole, PostCash, PostAR
  <2>2. Held'
    BY <1>13, PostHeld, PostCashHeld
  <2>3. Balanced'
    BY <1>13, PostBalanced
  <2> QED BY <2>1, <2>2, <2>3
<1>14. ASSUME NEW o \in Answer, NEW readable \in BOOLEAN, RaiseNote(p, o, readable)
       PROVE  sale' = sale /\ Held' /\ Balanced'
  BY <1>14, NoteHeld, QuietStep DEF RaiseNote
<1>15. CASE Crash(p)
  BY <1>15, NoMishap DEF Crash
<1>16. CASE Calls(p)
  BY <1>16, <1>11, <1>12, <1>13, <1>14 DEF Calls
<1>17. CASE Handler(p)
  BY <1>17, <1>4, <1>5, <1>6, <1>7, <1>8, <1>9, <1>10, <1>16 DEF Handler
<1> QED BY <1>2, <1>3, <1>15, <1>17

\* The sale is chosen once, and only three kinds of step write a reversal's row.
LEMMA FewWrite ==
    ASSUME [Next]_vars
    PROVE  /\ sale' = sale
           /\ \/ rev' = rev
              \/ \E p \in Proc : Create(p) \/ \E ok \in BOOLEAN : Persist(p, ok) \/ Finalize(p, ok)
<1>1. CASE UNCHANGED vars
  BY <1>1 DEF vars
<1>2. ASSUME NEW p \in Proc, Request(p) \/ (\E r \in Rev : Retry(p, r)) \/ Crash(p)
      PROVE  UNCHANGED <<sale, rev>>
  BY <1>2 DEF Request, Execute, Retry, Crash
<1>3. ASSUME NEW p \in Proc, ReadLine(p) \/ VoidLine(p) \/ SplitGL(p) \/ Calls(p)
      PROVE  UNCHANGED <<sale, rev>>
  BY <1>3 DEF ReadLine, VoidLine, SplitGL, Calls, Commit, ReverseStock, PostWhole, PostCash, PostAR, RaiseNote
<1>4. ASSUME NEW p \in Proc, NEW how \in {"taken", "skipped", "failed"}, ClawBack(p, how)
      PROVE  UNCHANGED <<sale, rev>>
  BY <1>4 DEF ClawBack
<1>5. ASSUME NEW p \in Proc, Create(p) \/ \E ok \in BOOLEAN : Persist(p, ok) \/ Finalize(p, ok)
      PROVE  sale' = sale
  BY <1>5 DEF Create, Persist, Finalize
<1> QED BY <1>1, <1>2, <1>3, <1>4, <1>5 DEF Next, Handler

LEMMA CalmInductive == IInv /\ CalmInv /\ [Next]_vars => CalmInv'
<1> SUFFICES ASSUME IInv, CalmInv, [Next]_vars
             PROVE  CalmInv'
  OBVIOUS
<1>1. CASE UNCHANGED vars
  BY <1>1, CalmStutters
<1>2. CASE ~UNCHANGED vars
  <2>1. Calm' <=> Calm
    BY FewWrite DEF Calm
  <2>2. CASE ~Calm
    BY <2>1, <2>2 DEF CalmInv
  <2>3. CASE Calm
    <3>1. PICK p \in Proc : Request(p) \/ (\E r \in Rev : Retry(p, r)) \/ Handler(p) \/ Crash(p)
      BY <1>2 DEF Next
    <3>2. Held' /\ Balanced'
      BY <2>3, <3>1, CalmStep
    <3> QED BY <3>2 DEF CalmInv, Balanced
  <2> QED BY <2>2, <2>3
<1> QED BY <1>1, <1>2

LEMMA CalmHolds == Spec => []CalmInv
BY CalmInit, CalmInductive, Holds, PTL DEF Spec

\* With one reversal at a time, retried or not, no more is taken off a line than was sold and
\* not returned, and each reversal's units are counted once (stepPOSTotals).
THEOREM VoidsStayWithinSold == Spec => []VoidsWhatWasSold
<1>1. CalmInv => VoidsWhatWasSold
  BY DEF CalmInv, Counted, VoidsWhatWasSold
<1> QED BY <1>1, CalmHolds, PTL

\* With one reversal at a time, the payment rows hold what was paid less what the partial
\* reversals took back, and nothing below zero (netPayments).
THEOREM NetsStayExact == Spec => []NetsOnce
<1>1. CalmInv => NetsOnce
  BY DEF CalmInv, Netting, NetsOnce, PaidIn, Partial
<1> QED BY <1>1, CalmHolds, PTL

\* With one reversal at a time, its points are taken once, however often it is retried
\* (stepLoyaltyCommission).
THEOREM PointsStayOnce == Spec => []PointsOnce
<1>1. IInv /\ CalmInv => PointsOnce
  <2> SUFFICES ASSUME IInv, CalmInv, Calm, NEW r \in Rev
               PROVE  clawed[r] <= 1
    BY DEF PointsOnce
  <2>1. clawed[r] \in Nat /\ (clawed[r] > 0 => clawed[r] = 1)
    BY DEF IInv, TypeOK, CalmInv, Told, Tally
  <2> QED BY <2>1
<1> QED BY <1>1, Holds, CalmHolds, PTL

\* With one reversal at a time, the treasury posts no more for a reversal than its amount, and
\* once all are completed it has posted each in full, in cash what the till gave back
\* (stepTreasuryGL, cashNettedForReversal).
THEOREM BooksStayTrue == Spec => []BooksAgree
<1>1. IInv /\ CalmInv => BooksAgree
  <2> SUFFICES ASSUME IInv, CalmInv, Calm
               PROVE  BooksAgree
    BY DEF BooksAgree
  <2>1. \A r \in Rev : /\ Tally(r) /\ Booked(r) /\ RowInv(r) /\ CashNetted(r) \in Nat
                       /\ CashNetted(r) <= rev[r].qty /\ rev[r].qty \in Nat /\ voids[r] \in Nat
                       /\ books[r].cash \in Nat /\ books[r].ar \in Nat
    BY Posting DEF IInv, CalmInv, Told, TypeOK
  <2>2. ASSUME NEW r \in Rev
        PROVE  /\ books[r].cash + books[r].ar <= rev[r].qty
               /\ rev[r].status = "none" => books[r].cash + books[r].ar = rev[r].qty
    <3> PICK c, n, x, y : c = CashNetted(r) /\ n = rev[r].qty /\ x = books[r].cash /\ y = books[r].ar
      OBVIOUS
    <3>1. c \in Nat /\ n \in Nat /\ x \in Nat /\ y \in Nat /\ c <= n
      BY <2>1
    <3>2. CASE voids[r] = 0
      <4>1. x = 0 /\ y = 0
        BY <2>1, <3>2 DEF Booked
      <4>2. rev[r].status = "none" => n = 0
        BY <2>1 DEF Tally, Exists, NoRow
      <4> QED BY <3>1, <4>1, <4>2
    <3>3. CASE voids[r] # 0
      <4>1. rev[r].status # "none" /\ voids[r] > 0
        BY <2>1, <3>3 DEF Tally, Exists
      <4>2. CASE rev[r].status = "completed"
        <5>1. x + y = n
          BY <2>1, <4>2 DEF Booked
        <5> QED BY <3>1, <4>2, <5>1
      <4>3. CASE rev[r].status # "completed"
        <5>1. (x = 0 \/ x = c) /\ (y = 0 \/ y = n - c)
          BY <2>1, <4>1, <4>3 DEF Booked
        <5>2. x + y <= n
          BY ONLY <3>1, <5>1
        <5> QED BY <4>1, <5>2
      <4> QED BY <4>2, <4>3
    <3> QED BY <3>2, <3>3
  <2>3. ASSUME \A r \in Rev : rev[r].status \in {"none", "completed"}
        PROVE  /\ \A r \in Rev : books[r].cash + books[r].ar = rev[r].qty
               /\ SumFunction([r \in Rev |-> books[r].cash]) = sale.paid["cash"] - rows["cash"].amount
    <3>1. \A r \in Rev : books[r].cash + books[r].ar = rev[r].qty
      BY <2>1, <2>2, <2>3 DEF Booked
    <3>2. \A r \in Rev : ~(voids[r] > 0) \/ rev[r].status = "completed"
      BY <2>1, <2>3 DEF Tally, Exists
    <3>3. Given = [r \in Rev |-> books[r].cash]
      BY <3>2 DEF Given
    <3>4. SumFunction(Given) = SumFunctionOnSet(Given, Rev)
      BY DEF SumFunction, Given
    <3> QED BY <3>1, <3>3, <3>4 DEF CalmInv, Till
  <2> QED BY <2>2, <2>3 DEF BooksAgree
<1> QED BY <1>1, Holds, CalmHolds, PTL

\* With one reversal at a time, what a ledger says is done stays done, and completed is final
\* (persistSteps, finalizeStatus).
THEOREM LedgersOnlyGrow == Spec => DoneStays
<1> DEFINE Stays(r) == /\ \A k \in Step : rev[r].steps[k] = "done" => rev'[r].steps[k] = "done"
                       /\ rev[r].status = "completed" => rev'[r].status = "completed"
<1>1. IInv /\ CalmInv /\ [Next]_vars => (Calm => \A r \in Rev : Stays(r))
  <2> SUFFICES ASSUME IInv, CalmInv, [Next]_vars, Calm
               PROVE  \A r \in Rev : Stays(r)
    OBVIOUS
  <2>0. rev \in [Rev -> Ledgers]
    BY Typing DEF IInv, TypeRest
  <2>1. CASE rev' = rev
    BY <2>1
  <2>2. ASSUME NEW p \in Proc, Create(p)
        PROVE  \A r \in Rev : Stays(r)
    <3>1. PICK r \in Rev, scope \in {"full", "partial"}, qty \in Nat :
             /\ proc[p].r = r /\ ~Exists(r) /\ Fits(qty)
             /\ rev' = [rev EXCEPT ![r] = [status |-> "pending", scope |-> scope, qty |-> qty,
                                           steps |-> AllPending]]
             /\ RunFrom(p, r, AllPending, 1)
      BY <2>2, Creating
    <3>2. rev[r] = NoRow
      BY <3>1 DEF CalmInv, Told, Tally
    <3>3. rev[r].status # "completed" /\ \A k \in Step : rev[r].steps[k] # "done"
      BY <3>2 DEF NoRow, AllPending
    <3>4. \A o \in Rev \ {r} : rev'[o] = rev[o]
      BY <2>0, <3>1
    <3> QED BY <3>3, <3>4
  <2>3. ASSUME NEW p \in Proc, NEW ok \in BOOLEAN, Persist(p, ok)
        PROVE  \A r \in Rev : Stays(r)
    <3>1. PICK r \in Rev, k \in Step, steps \in Steps :
             /\ proc[p].at = "persist" /\ proc[p].r = r /\ proc[p].k = k /\ proc[p].steps = steps
             /\ rev' = [rev EXCEPT ![r].steps = steps]
             /\ RunFrom(p, r, steps, k + 1)
             /\ UNCHANGED <<sale, lock, status, line, rows, voids, stock, books, notes, clawed>>
             /\ rev[r].status \notin {"none", "completed"}
             /\ rev[r].steps[k] # "done" /\ steps[1] = "done"
             /\ \A j \in Step : j = k \/ steps[j] = rev[r].steps[j]
      BY <2>3, Persisting
    <3>2. rev'[r].steps = steps /\ \A o \in Rev \ {r} : rev'[o] = rev[o]
      BY <2>0, <3>1 DEF Ledgers
    <3> QED BY <3>1, <3>2
  <2>4. ASSUME NEW p \in Proc, NEW ok \in BOOLEAN, Finalize(p, ok)
        PROVE  \A r \in Rev : Stays(r)
    <3>1. PICK r, steps : r = proc[p].r /\ steps = proc[p].steps
      OBVIOUS
    <3>2. proc[p].at = "run" /\ ok
      BY <2>4, NoMishap DEF Finalize, At_, At
    <3>3. r \in Rev /\ steps \in Steps
      BY <3>1, <3>2, AtWork
    <3>4. rev[r].status # "completed" /\ \A j \in Step : steps[j] = rev[r].steps[j]
      BY <3>1, <3>2, Sole DEF Copied, Working
    <3>5. PICK v : rev' = [rev EXCEPT ![r].steps = steps, ![r].status = v]
      BY <2>4, <3>1, <3>2 DEF Finalize
    <3>6. rev'[r].steps = steps /\ \A o \in Rev \ {r} : rev'[o] = rev[o]
      BY <2>0, <3>3, <3>5 DEF Ledgers
    <3> QED BY <3>3, <3>4, <3>6
  <2> HIDE DEF Stays
  <2>5. \/ rev' = rev
        \/ \E p \in Proc : Create(p) \/ \E ok \in BOOLEAN : Persist(p, ok) \/ Finalize(p, ok)
    BY FewWrite
  <2> QED BY <2>1, <2>2, <2>3, <2>4, <2>5
<1> QED BY <1>1, Holds, CalmHolds, PTL DEF Spec, DoneStays
=============================================================================
