------------------------ MODULE GatewayPaymentsProofs ------------------------
(***************************************************************************)
(* What is proved of the payments of an order, for any number of payments,  *)
(* handlers, amounts and faults: which row, intent and event belong to each *)
(* other (CaptureInv), what a single handler still has to do (OneHandler),  *)
(* that what is collected is a number and the types follow (TypeOK), and,   *)
(* while earlier payments stay, which reference is whose (OwnInv).          *)
(***************************************************************************)
EXTENDS GatewayPayments, FiniteSetTheorems, WellFoundedInduction, TLAPS

IsRow(v) == v = [st |-> v.st, kind |-> v.kind, amt |-> v.amt, ref |-> v.ref, when |-> v.when]
IsReq(x) == x = [at |-> x.at, kind |-> x.kind, amt |-> x.amt, ref |-> x.ref]
IsIntent(i) == i = [st |-> i.st, amt |-> i.amt, got |-> i.got]
IsSub(u) == u = [ev |-> u.ev, ref |-> u.ref, todo |-> u.todo]

RowsShaped == row = [k \in Pay |-> row[k]] /\ \A k \in Pay : IsRow(row[k])
ReqsShaped == req = [k \in Pay |-> req[k]] /\ \A k \in Pay : IsReq(req[k])
IntentsShaped == intent = [r \in Ref |-> intent[r]] /\ \A r \in Ref : IsIntent(intent[r])
SubsShaped == sub = [s \in Sub |-> sub[s]] /\ \A s \in Sub : IsSub(sub[s])

Settled(r) == r \in Ref /\ intent[r].st = "settled"

\* A digital row carries the reference of its intent, and counts what was captured.
RowOk(v) == v.kind = "digital" /\ v.st # "none" =>
    /\ v.ref \in Ref
    /\ v.st = "completed" => Settled(v.ref) /\ v.amt = intent[v.ref].got
\* A digital request has its reference before it inserts, and is over then.
ReqOk(x, v) ==
    /\ x.at \in {"call", "insert"} /\ x.kind = "digital" => x.ref \in Ref
    /\ x.at = "backfill" => x.kind # "digital"
    /\ x.at = "new" => v.st = "none"
    /\ v.st # "none" => v.kind = x.kind /\ x.at # "insert" /\ (x.kind = "digital" => x.at = "done")
\* A handler works on rows that carry the reference of its event.
SubOk(u) ==
    /\ u # Waiting => u.ref \in Ref
    /\ u.ev = "succeeded" => Settled(u.ref)
    /\ \A k \in u.todo : k \in Pay /\ row[k].st # "none" /\ row[k].ref = u.ref /\ u.ref \in Ref
MailOk(e) == e[2] \in Ref /\ (e[1] = "succeeded" => Settled(e[2]))

CaptureInv ==
    /\ RowsShaped /\ ReqsShaped /\ IntentsShaped /\ SubsShaped
    /\ \A k \in Pay : RowOk(row[k]) /\ ReqOk(req[k], row[k])
    /\ \A s \in Sub : SubOk(sub[s])
    /\ \A e \in mail : MailOk(e)

LEMMA Puts ==
    ASSUME NEW S, NEW f, f = [s \in S |-> f[s]], NEW s \in S, NEW v
    PROVE  /\ [f EXCEPT ![s] = v] = [t \in S |-> [f EXCEPT ![s] = v][t]]
           /\ [f EXCEPT ![s] = v][s] = v
           /\ \A t \in S : t # s => [f EXCEPT ![s] = v][t] = f[t]
OBVIOUS

LEMMA References == NoRef \notin Ref /\ Base \in Ref /\ \A k \in Pay : Portion(k) \in Ref
BY DEF Ref, NoRef, Base, Portion

LEMMA Start == Init => CaptureInv
<1> SUFFICES ASSUME Init PROVE CaptureInv
  OBVIOUS
<1>1. RowsShaped /\ ReqsShaped /\ IntentsShaped /\ SubsShaped
  BY DEF Init, RowsShaped, ReqsShaped, IntentsShaped, SubsShaped, IsRow, IsReq, IsIntent, IsSub,
         NoRow, NoReq, NoIntent, Waiting
<1>2. \A k \in Pay : RowOk(row[k]) /\ ReqOk(req[k], row[k])
  BY DEF Init, RowOk, ReqOk, NoRow, NoReq
<1>3. \A s \in Sub : SubOk(sub[s])
  BY DEF Init, SubOk, Waiting
<1> QED BY <1>1, <1>2, <1>3 DEF CaptureInv, Init

\* What treasury may do to its intents.
Grows == /\ IntentsShaped'
         /\ \A r \in Ref : Settled(r) => Settled(r)' /\ intent'[r].got = intent[r].got

\* At one payment, its row becomes v and its request x.
LEMMA Step ==
    ASSUME CaptureInv, NEW k \in Pay, NEW v, NEW x,
           row' = [row EXCEPT ![k] = v], req' = [req EXCEPT ![k] = x], IsRow(v), IsReq(x),
           v = row[k] \/ RowOk(v)', ReqOk(x, v),
           row[k].st # "none" => v.st # "none" /\ (row[k].ref \in Ref => v.ref = row[k].ref),
           Grows, UNCHANGED sub, \A e \in mail' : e \in mail \/ MailOk(e)'
    PROVE  CaptureInv'
<1>1. row'[k] = v /\ (\A j \in Pay : j # k => row'[j] = row[j]) /\ row' = [j \in Pay |-> row'[j]]
  BY Puts DEF CaptureInv, RowsShaped
<1>2. req'[k] = x /\ (\A j \in Pay : j # k => req'[j] = req[j]) /\ req' = [j \in Pay |-> req'[j]]
  BY Puts DEF CaptureInv, ReqsShaped
<1>3. RowsShaped' /\ ReqsShaped' /\ IntentsShaped' /\ SubsShaped'
  BY <1>1, <1>2 DEF CaptureInv, RowsShaped, ReqsShaped, SubsShaped, Grows
<1>4. ASSUME NEW w, RowOk(w) PROVE RowOk(w)'
  BY <1>4 DEF RowOk, Grows
<1>5. ASSUME NEW j \in Pay PROVE RowOk(row[j])' /\ ReqOk(req[j], row[j])'
  <2>1. CASE j = k
    <3>1. RowOk(v)'
      BY <1>4 DEF CaptureInv
    <3> QED BY <1>1, <1>2, <2>1, <3>1 DEF RowOk, ReqOk
  <2>2. CASE j # k
    <3> PICK w : w = row[j]
      OBVIOUS
    <3>1. RowOk(w)'
      BY <1>4 DEF CaptureInv
    <3> QED BY <1>1, <1>2, <2>2, <3>1 DEF CaptureInv, RowOk, ReqOk
  <2> QED BY <2>1, <2>2
<1>6. ASSUME NEW s \in Sub PROVE SubOk(sub[s])'
  BY <1>1 DEF CaptureInv, SubOk, Grows, Settled
<1>7. \A e \in mail' : MailOk(e)'
  BY DEF CaptureInv, MailOk, Grows
<1> QED BY <1>3, <1>5, <1>6, <1>7 DEF CaptureInv

LEMMA Quiet == ASSUME CaptureInv, UNCHANGED intent PROVE Grows
BY DEF CaptureInv, IntentsShaped, Grows, Settled

\* At one handler, which becomes u; rows change to status and amount of a row that stays in its place.
LEMMA Handled ==
    ASSUME CaptureInv, NEW s \in Sub, NEW u, sub' = [sub EXCEPT ![s] = u], IsSub(u), UNCHANGED <<req, intent>>,
           RowsShaped', \A k \in Pay : RowOk(row'[k]),
           \A k \in Pay : row'[k].kind = row[k].kind /\ row'[k].ref = row[k].ref
                          /\ (row'[k].st = "none" <=> row[k].st = "none"),
           SubOk(u), \A e \in mail' : MailOk(e)
    PROVE  CaptureInv'
<1>1. sub'[s] = u /\ (\A t \in Sub : t # s => sub'[t] = sub[t]) /\ sub' = [t \in Sub |-> sub'[t]]
  BY Puts DEF CaptureInv, SubsShaped
<1>2. RowsShaped' /\ ReqsShaped' /\ IntentsShaped' /\ SubsShaped'
  BY <1>1 DEF CaptureInv, ReqsShaped, IntentsShaped, SubsShaped
<1>3. ASSUME NEW k \in Pay PROVE RowOk(row[k])' /\ ReqOk(req[k], row[k])'
  <2>1. RowOk(row[k])'
    BY DEF RowOk, Settled
  <2>2. ReqOk(req[k], row[k])'
    BY DEF CaptureInv, ReqOk
  <2> QED BY <2>1, <2>2
<1>4. ASSUME NEW t \in Sub PROVE SubOk(sub[t])'
  <2> PICK w : w = sub'[t] /\ SubOk(w)
    BY <1>1 DEF CaptureInv
  <2>1. SubOk(w)'
    BY DEF SubOk, Settled
  <2> QED BY <2>1 DEF SubOk
<1>5. \A e \in mail' : MailOk(e)'
  BY DEF MailOk, Settled
<1> QED BY <1>2, <1>3, <1>4, <1>5 DEF CaptureInv

----------------------------------------------------------------------------
(* One lemma per action.                                                    *)

\* Only the request at k moves on, to x.
LEMMA ReqStep ==
    ASSUME CaptureInv, NEW k \in Pay, NEW x, req' = [req EXCEPT ![k] = x], IsReq(x), ReqOk(x, row[k]),
           Grows, UNCHANGED <<row, sub>>, UNCHANGED mail
    PROVE  CaptureInv'
<1> PICK v : v = row[k]
  OBVIOUS
<1>1. row' = [row EXCEPT ![k] = v] /\ IsRow(v) /\ ReqOk(x, v)
  BY DEF CaptureInv, RowsShaped
<1>2. row[k].st # "none" => v.st # "none" /\ (row[k].ref \in Ref => v.ref = row[k].ref)
  OBVIOUS
<1> QED BY <1>1, <1>2, Step

LEMMA At ==
    ASSUME CaptureInv, NEW k \in Pay, NEW at
    PROVE  /\ [req EXCEPT ![k].at = at] = [req EXCEPT ![k] = [req[k] EXCEPT !.at = at]]
           /\ IsReq([req[k] EXCEPT !.at = at])
           /\ [req[k] EXCEPT !.at = at].at = at /\ [req[k] EXCEPT !.at = at].kind = req[k].kind
           /\ [req[k] EXCEPT !.at = at].ref = req[k].ref
BY DEF CaptureInv, ReqsShaped, IsReq

\* The request moves to at, nothing else but intents changes.
LEMMA Moves ==
    ASSUME CaptureInv, NEW k \in Pay, NEW at, Goes(k, at), Grows, UNCHANGED <<row, sub>>, UNCHANGED mail,
           \A x : x.at = at /\ x.kind = req[k].kind /\ x.ref = req[k].ref => ReqOk(x, row[k])
    PROVE  CaptureInv'
<1> PICK x : x = [req[k] EXCEPT !.at = at]
  OBVIOUS
<1>1. req' = [req EXCEPT ![k] = x] /\ IsReq(x) /\ x.at = at /\ x.kind = req[k].kind /\ x.ref = req[k].ref
  BY At DEF Goes
<1>2. ReqOk(x, row[k])
  BY <1>1
<1> QED BY <1>1, <1>2, ReqStep

LEMMA EndsSafe ==
    ASSUME CaptureInv, NEW k \in Pay, Ends(k), Grows, UNCHANGED <<row, sub>>, UNCHANGED mail
    PROVE  CaptureInv'
<1>1. \A x : x.at = "done" /\ x.kind = req[k].kind /\ x.ref = req[k].ref => ReqOk(x, row[k])
  BY DEF CaptureInv, ReqOk
<1>2. Goes(k, "done")
  BY DEF Ends
<1> QED BY <1>1, <1>2, Moves

LEMMA BeginSafe ==
    ASSUME CaptureInv, NEW k \in Pay, NEW kind, NEW ask, CreatePaymentIntent(k, kind, ask)
    PROVE  CaptureInv'
<1> PICK x : x = [at |-> IF kind = "digital" THEN "choose" ELSE "insert", kind |-> kind,
                  amt |-> Lesser(ask, Outstanding), ref |-> NoRef]
  OBVIOUS
<1>1. /\ req' = [req EXCEPT ![k] = x] /\ UNCHANGED <<row, sub>> /\ UNCHANGED <<intent, mail>>
      /\ row[k].st = "none"
  BY DEF CreatePaymentIntent, CaptureInv, ReqOk
<1>2. IsReq(x) /\ ReqOk(x, row[k])
  BY <1>1 DEF IsReq, ReqOk
<1> QED BY <1>1, <1>2, Quiet, ReqStep

\* The row of a request is inserted, under a reference if it is digital.
LEMMA Inserted ==
    ASSUME CaptureInv, NEW k \in Pay, NEW status \in {"pending", "completed"}, NEW amount, NEW ref, NEW at,
           Insert(k, status, amount, ref), Goes(k, at), at \in {"choose", "done"}, row[k].st = "none",
           req[k].kind = "digital" => status = "pending" /\ ref \in Ref /\ at = "done",
           UNCHANGED <<intent, sub>>, UNCHANGED mail
    PROVE  CaptureInv'
<1> PICK v, x : /\ v = [st |-> status, kind |-> req[k].kind, amt |-> amount, ref |-> ref, when |-> Cardinality(Used) + 1]
                /\ x = [req[k] EXCEPT !.at = at]
  OBVIOUS
<1>1. row' = [row EXCEPT ![k] = v] /\ IsRow(v) /\ v.st = status /\ v.kind = req[k].kind /\ v.ref = ref
  BY DEF Insert, IsRow
<1>2. req' = [req EXCEPT ![k] = x] /\ IsReq(x) /\ x.at = at /\ x.kind = req[k].kind
  BY At DEF Goes
<1>3. RowOk(v)' /\ ReqOk(x, v)
  BY <1>1, <1>2 DEF RowOk, ReqOk
<1> QED BY <1>1, <1>2, <1>3, Quiet, Step

LEMMA CashSafe ==
    ASSUME CaptureInv, NEW k \in Pay, RecordCash(k)
    PROVE  CaptureInv'
<1>1. UNCHANGED <<intent, sub>> /\ UNCHANGED mail /\ row[k].st = "none" /\ req[k].kind # "digital"
  BY DEF RecordCash, Digital, CaptureInv, ReqOk
<1>2. CASE Ends(k) /\ UNCHANGED row
  BY <1>1, <1>2, Quiet, EndsSafe
<1>3. ASSUME NEW amount, NEW ref, Insert(k, "completed", amount, ref), Goes(k, "choose") PROVE CaptureInv'
  BY <1>1, <1>3, Inserted
<1> QED BY <1>2, <1>3 DEF RecordCash

LEMMA PendingSafe ==
    ASSUME CaptureInv, NEW k \in Pay, RecordPending(k)
    PROVE  CaptureInv'
<1>1. /\ UNCHANGED <<intent, sub>> /\ UNCHANGED mail /\ row[k].st = "none" /\ req[k].kind = "digital"
      /\ req[k].ref \in Ref /\ Ends(k)
  BY DEF RecordPending, Digital, CaptureInv, ReqOk
<1>2. CASE UNCHANGED row
  BY <1>1, <1>2, Quiet, EndsSafe
<1>3. ASSUME NEW amount, NEW ref, Insert(k, "pending", amount, ref), ref = req[k].ref PROVE CaptureInv'
  BY <1>1, <1>3, Inserted DEF Ends
<1> QED BY <1>2, <1>3 DEF RecordPending

LEMMA ReferenceSafe ==
    ASSUME CaptureInv, NEW k \in Pay, IntentReference(k)
    PROVE  CaptureInv'
<1>1. UNCHANGED <<row, sub>> /\ UNCHANGED <<intent, mail>> /\ req[k].at = "choose"
  BY DEF IntentReference
<1>2. PICK r \in Ref : req' = [req EXCEPT ![k].at = "call", ![k].ref = r]
  <2>1. CASE req' = [req EXCEPT ![k].at = "call", ![k].ref = IF Earlier(k) THEN Portion(k) ELSE Base]
    <3> PICK r \in Ref : r = IF Earlier(k) THEN Portion(k) ELSE Base
      BY References
    <3> QED BY <2>1
  <2>2. CASE req' = [req EXCEPT ![k].at = "call", ![k].ref = Base]
    BY <2>2, References
  <2> QED BY <2>1, <2>2 DEF IntentReference
<1> PICK x : x = [[req[k] EXCEPT !.at = "call"] EXCEPT !.ref = r]
  OBVIOUS
<1>3. IsReq(x) /\ x.at = "call" /\ x.kind = req[k].kind /\ x.ref = r
  <2>1. IsReq(req[k])
    BY DEF CaptureInv, ReqsShaped
  <2> QED BY <2>1 DEF IsReq
<1>4. req' = [req EXCEPT ![k] = x]
  BY <1>2 DEF CaptureInv, ReqsShaped
<1>5. ReqOk(x, row[k])
  BY <1>1, <1>3 DEF CaptureInv, ReqOk
<1> QED BY <1>1, <1>3, <1>4, <1>5, Quiet, ReqStep

LEMMA CreateSafe ==
    ASSUME CaptureInv, NEW k \in Pay, CreateIntent(k)
    PROVE  CaptureInv'
<1> PICK r : r = req[k].ref
  OBVIOUS
<1>1. UNCHANGED <<row, sub>> /\ UNCHANGED mail /\ req[k].at = "call"
  BY DEF CreateIntent
<1>2. ASSUME NEW i, intent' = [intent EXCEPT ![r] = i], IsIntent(i),
             r \in Ref => (Settled(r) => i = intent[r])
      PROVE  Grows
  <2>1. CASE r \in Ref
    <3>1. intent'[r] = i /\ (\A q \in Ref : q # r => intent'[q] = intent[q]) /\ intent' = [q \in Ref |-> intent'[q]]
      BY <1>2, <2>1, Puts DEF CaptureInv, IntentsShaped
    <3>2. IntentsShaped'
      BY <1>2, <3>1 DEF CaptureInv, IntentsShaped
    <3>3. ASSUME NEW q \in Ref, Settled(q) PROVE Settled(q)' /\ intent'[q].got = intent[q].got
      BY <1>2, <2>1, <3>1, <3>3 DEF Settled
    <3> QED BY <3>2, <3>3 DEF Grows
  <2>2. CASE r \notin Ref
    <3>1. intent' = intent
      BY <1>2, <2>2 DEF CaptureInv, IntentsShaped
    <3> QED BY <3>1, Quiet
  <2> QED BY <2>1, <2>2
<1>3. Grows
  <2>1. CASE UNCHANGED intent
    BY <2>1, Quiet
  <2>2. CASE intent' = [intent EXCEPT ![r] = IF @.st = "none" THEN Opened(k) ELSE @]
    <3> PICK i : i = IF intent[r].st = "none" THEN Opened(k) ELSE intent[r]
      OBVIOUS
    <3>1. CASE r \in Ref
      <4>1. IsIntent(i)
        BY <3>1 DEF CaptureInv, IntentsShaped, Opened, IsIntent
      <4>2. intent' = [intent EXCEPT ![r] = i] /\ (Settled(r) => i = intent[r])
        BY <2>2, <3>1 DEF CaptureInv, IntentsShaped, Settled
      <4> QED BY <1>2, <4>1, <4>2
    <3>2. CASE r \notin Ref
      <4>1. UNCHANGED intent
        BY <2>2, <3>2 DEF CaptureInv, IntentsShaped
      <4> QED BY <4>1, Quiet
    <3> QED BY <3>1, <3>2
  <2> QED BY <2>1, <2>2 DEF CreateIntent
<1>4. CASE Ends(k)
  BY <1>1, <1>3, <1>4, EndsSafe
<1>5. ASSUME Digital(k), Goes(k, "insert") PROVE CaptureInv'
  <2>1. \A x : x.at = "insert" /\ x.kind = req[k].kind /\ x.ref = req[k].ref => ReqOk(x, row[k])
    BY <1>1, <1>5 DEF CaptureInv, ReqOk, Digital
  <2> QED BY <1>1, <1>3, <1>5, <2>1, Moves
<1>6. ASSUME ~Digital(k), Goes(k, "backfill") PROVE CaptureInv'
  <2>1. \A x : x.at = "backfill" /\ x.kind = req[k].kind /\ x.ref = req[k].ref => ReqOk(x, row[k])
    BY <1>1, <1>6 DEF CaptureInv, ReqOk, Digital
  <2> QED BY <1>1, <1>3, <1>6, <2>1, Moves
<1> QED BY <1>4, <1>5, <1>6 DEF CreateIntent

LEMMA BackfillSafe ==
    ASSUME CaptureInv, NEW k \in Pay, Backfill(k)
    PROVE  CaptureInv'
<1>1. UNCHANGED <<intent, sub>> /\ UNCHANGED mail /\ Ends(k) /\ req[k].at = "backfill" /\ req[k].kind # "digital"
  BY DEF Backfill, CaptureInv, ReqOk
<1>2. CASE UNCHANGED row
  BY <1>1, <1>2, Quiet, EndsSafe
<1>3. CASE row' = [row EXCEPT ![k].ref = IF @ = NoRef THEN req[k].ref ELSE @]
  <2> PICK r : r = IF row[k].ref = NoRef THEN req[k].ref ELSE row[k].ref
    OBVIOUS
  <2> PICK v, x : v = [row[k] EXCEPT !.ref = r] /\ x = [req[k] EXCEPT !.at = "done"]
    OBVIOUS
  <2>1. row' = [row EXCEPT ![k] = v] /\ IsRow(v) /\ v.st = row[k].st /\ v.kind = row[k].kind /\ v.ref = r
    BY <1>3 DEF CaptureInv, RowsShaped, IsRow
  <2>2. req' = [req EXCEPT ![k] = x] /\ IsReq(x) /\ x.at = "done" /\ x.kind = req[k].kind
    BY <1>1, At DEF Ends, Goes
  <2>3. RowOk(v)' /\ ReqOk(x, v)
    BY <1>1, <2>1, <2>2 DEF CaptureInv, RowOk, ReqOk
  <2>4. row[k].st # "none" => v.st # "none" /\ (row[k].ref \in Ref => v.ref = row[k].ref)
    BY <2>1, References
  <2> QED BY <1>1, <2>1, <2>2, <2>3, <2>4, Quiet, Step
<1> QED BY <1>2, <1>3 DEF Backfill

LEMMA RetrySafe ==
    ASSUME CaptureInv, NEW k \in Pay, RetryIntent(k)
    PROVE  CaptureInv'
<1> PICK x : x = [[req[k] EXCEPT !.at = "choose"] EXCEPT !.amt = row[k].amt]
  OBVIOUS
<1>1. /\ UNCHANGED <<row, sub>> /\ UNCHANGED <<intent, mail>> /\ req[k].at = "done"
      /\ row[k].st = "completed" /\ row[k].kind # "digital"
  BY DEF RetryIntent, Candidate, Lacking
<1>2. IsReq(x) /\ x.at = "choose" /\ x.kind = req[k].kind /\ x.ref = req[k].ref
  <2>1. IsReq(req[k])
    BY DEF CaptureInv, ReqsShaped
  <2> QED BY <2>1 DEF IsReq
<1>3. req' = [req EXCEPT ![k] = x]
  BY DEF RetryIntent, CaptureInv, ReqsShaped
<1>4. ReqOk(x, row[k])
  BY <1>1, <1>2 DEF CaptureInv, ReqOk
<1> QED BY <1>1, <1>2, <1>3, <1>4, Quiet, ReqStep

LEMMA VoidSafe ==
    ASSUME CaptureInv, NEW k \in Pay, VoidPayment(k)
    PROVE  CaptureInv'
<1> PICK v, x : v = [row[k] EXCEPT !.st = "voided"] /\ x = req[k]
  OBVIOUS
<1>1. /\ UNCHANGED <<req, intent, sub>> /\ UNCHANGED mail /\ row[k].st = "completed" /\ row[k].kind # "digital"
  BY DEF VoidPayment
<1>2. row' = [row EXCEPT ![k] = v] /\ IsRow(v) /\ v.st = "voided" /\ v.kind = row[k].kind /\ v.ref = row[k].ref
  BY DEF VoidPayment, CaptureInv, RowsShaped, IsRow
<1>3. req' = [req EXCEPT ![k] = x] /\ IsReq(x)
  BY <1>1 DEF CaptureInv, ReqsShaped
<1>4. RowOk(v)' /\ ReqOk(x, v)
  BY <1>1, <1>2 DEF CaptureInv, RowOk, ReqOk
<1> QED BY <1>1, <1>2, <1>3, <1>4, Quiet, Step

\* Treasury settles or declines an open intent.
LEMMA TreasurySafe ==
    ASSUME CaptureInv, NEW r \in Ref, Customer(r)
    PROVE  CaptureInv'
<1>1. UNCHANGED <<row, req, sub>>
  BY DEF Customer, Capture, Decline
<1>2. PICK i : /\ intent' = [intent EXCEPT ![r] = i] /\ IsIntent(i) /\ intent[r].st # "settled"
               /\ \/ i.st = "settled" /\ mail' = mail \cup {<<"succeeded", r>>}
                  \/ mail' = mail \cup {<<"failed", r>>}
  <2>1. IsIntent(intent[r])
    BY DEF CaptureInv, IntentsShaped
  <2>2. ASSUME NEW a, Capture(r, a)
        PROVE  \E i : /\ intent' = [intent EXCEPT ![r] = i] /\ IsIntent(i) /\ intent[r].st # "settled"
                      /\ i.st = "settled" /\ mail' = mail \cup {<<"succeeded", r>>}
    <3> PICK i : i = [[intent[r] EXCEPT !.st = "settled"] EXCEPT !.got = a]
      OBVIOUS
    <3>1. IsIntent(i) /\ i.st = "settled"
      BY <2>1 DEF IsIntent
    <3>2. intent' = [intent EXCEPT ![r] = i] /\ intent[r].st # "settled" /\ mail' = mail \cup {<<"succeeded", r>>}
      BY <2>2 DEF Capture, CaptureInv, IntentsShaped
    <3> QED BY <3>1, <3>2
  <2>3. ASSUME Decline(r)
        PROVE  \E i : /\ intent' = [intent EXCEPT ![r] = i] /\ IsIntent(i) /\ intent[r].st # "settled"
                      /\ mail' = mail \cup {<<"failed", r>>}
    <3> PICK i : i = [intent[r] EXCEPT !.st = "failed"]
      OBVIOUS
    <3>1. IsIntent(i)
      BY <2>1 DEF IsIntent
    <3>2. intent' = [intent EXCEPT ![r] = i] /\ intent[r].st # "settled" /\ mail' = mail \cup {<<"failed", r>>}
      BY <2>3 DEF Decline, CaptureInv, IntentsShaped
    <3> QED BY <3>1, <3>2
  <2> QED BY <2>2, <2>3 DEF Customer
<1>3. intent'[r] = i /\ (\A q \in Ref : q # r => intent'[q] = intent[q]) /\ intent' = [q \in Ref |-> intent'[q]]
  BY <1>2, Puts DEF CaptureInv, IntentsShaped
<1>4. RowsShaped' /\ ReqsShaped' /\ IntentsShaped' /\ SubsShaped'
  BY <1>1, <1>2, <1>3 DEF CaptureInv, RowsShaped, ReqsShaped, IntentsShaped, SubsShaped
<1>5. \A q : Settled(q) => Settled(q)' /\ intent'[q].got = intent[q].got
  BY <1>2, <1>3 DEF Settled
<1>6. ASSUME NEW k \in Pay PROVE RowOk(row[k])' /\ ReqOk(req[k], row[k])'
  BY <1>1, <1>5 DEF CaptureInv, RowOk, ReqOk
<1>7. ASSUME NEW s \in Sub PROVE SubOk(sub[s])'
  BY <1>1, <1>5 DEF CaptureInv, SubOk
<1>8. ASSUME NEW e \in mail' PROVE MailOk(e)'
  <2>1. CASE e \in mail
    BY <1>5, <2>1 DEF CaptureInv, MailOk
  <2>2. CASE i.st = "settled" /\ e = <<"succeeded", r>>
    BY <1>3, <2>2 DEF MailOk, Settled
  <2>3. CASE e = <<"failed", r>>
    BY <2>3 DEF MailOk
  <2> QED BY <1>2, <1>8, <2>1, <2>2, <2>3
<1> QED BY <1>4, <1>6, <1>7, <1>8 DEF CaptureInv

\* A handler changes only itself.
LEMMA SubStep ==
    ASSUME CaptureInv, NEW s \in Sub, NEW u, sub' = [sub EXCEPT ![s] = u], IsSub(u), SubOk(u),
           UNCHANGED <<row, req, intent>>, \A e \in mail' : MailOk(e)
    PROVE  CaptureInv'
<1>1. RowsShaped' /\ (\A k \in Pay : RowOk(row'[k]))
  BY DEF CaptureInv, RowsShaped
<1>2. \A k \in Pay : row'[k].kind = row[k].kind /\ row'[k].ref = row[k].ref
                     /\ (row'[k].st = "none" <=> row[k].st = "none")
  OBVIOUS
<1>3. UNCHANGED <<req, intent>>
  OBVIOUS
<1> QED BY <1>1, <1>2, <1>3, Handled

LEMMA WaitingOk == IsSub(Waiting) /\ SubOk(Waiting) /\ Waiting.todo = {}
BY DEF IsSub, SubOk, Waiting

LEMMA Still == ASSUME CaptureInv, UNCHANGED <<row, req, intent, sub>>, mail' \subseteq mail PROVE CaptureInv'
<1>1. RowsShaped' /\ ReqsShaped' /\ IntentsShaped' /\ SubsShaped'
  BY DEF CaptureInv, RowsShaped, ReqsShaped, IntentsShaped, SubsShaped
<1>2. \A k \in Pay : RowOk(row[k])' /\ ReqOk(req[k], row[k])'
  BY DEF CaptureInv, RowOk, ReqOk, Settled
<1>3. \A s \in Sub : SubOk(sub[s])'
  BY DEF CaptureInv, SubOk, Settled
<1>4. \A e \in mail' : MailOk(e)'
  BY DEF CaptureInv, MailOk, Settled
<1> QED BY <1>1, <1>2, <1>3, <1>4 DEF CaptureInv

LEMMA LoadSafe ==
    ASSUME CaptureInv, NEW s \in Sub, NEW e \in mail, Load(s, e)
    PROVE  CaptureInv'
<1>1. UNCHANGED <<row, req, intent>> /\ mail' \subseteq mail /\ MailOk(e)
  BY DEF Load, CaptureInv
<1>2. CASE UNCHANGED sub
  BY <1>1, <1>2, Still
<1>3. ASSUME NEW todo \in SUBSET Matching(e[2]), sub' = [sub EXCEPT ![s] = [ev |-> e[1], ref |-> e[2], todo |-> todo]]
      PROVE  CaptureInv'
  <2> PICK u : u = [ev |-> e[1], ref |-> e[2], todo |-> todo]
    OBVIOUS
  <2>1. IsSub(u) /\ u.ev = e[1] /\ u.ref = e[2] /\ u.todo = todo
    BY DEF IsSub
  <2>2. SubOk(u)
    BY <1>1, <1>3, <2>1 DEF SubOk, MailOk, Matching, Used
  <2>3. \A m \in mail' : MailOk(m)
    BY <1>1 DEF CaptureInv
  <2>4. sub' = [sub EXCEPT ![s] = u]
    BY <1>3
  <2> QED BY <1>1, <2>1, <2>2, <2>3, <2>4, SubStep
<1>4. CASE \E todo \in SUBSET Matching(e[2]) : sub' = [sub EXCEPT ![s] = [ev |-> e[1], ref |-> e[2], todo |-> todo]]
  BY <1>3, <1>4
<1> QED BY <1>2, <1>4 DEF Load

LEMMA WriteSafe ==
    ASSUME CaptureInv, NEW s \in Sub, Write(s)
    PROVE  CaptureInv'
<1>1. UNCHANGED <<req, intent>> /\ UNCHANGED mail /\ SubOk(sub[s]) /\ IsSub(sub[s]) /\ \A e \in mail' : MailOk(e)
  BY DEF Write, CaptureInv, SubsShaped
<1>2. CASE UNCHANGED row /\ sub' = [sub EXCEPT ![s] = Waiting]
  <2> PICK u : u = Waiting
    OBVIOUS
  <2> QED BY <1>1, <1>2, WaitingOk, SubStep
<1>3. ASSUME NEW k \in sub[s].todo,
             row' = [row EXCEPT ![k].st = IF sub[s].ev = "succeeded" THEN "completed" ELSE "failed",
                                ![k].amt = IF sub[s].ev = "succeeded" THEN intent[sub[s].ref].got ELSE @],
             sub' = [sub EXCEPT ![s] = IF sub[s].todo = {k} THEN Waiting ELSE [@ EXCEPT !.todo = sub[s].todo \ {k}]]
      PROVE  CaptureInv'
  <2> PICK st, amt : /\ st = IF sub[s].ev = "succeeded" THEN "completed" ELSE "failed"
                     /\ amt = IF sub[s].ev = "succeeded" THEN intent[sub[s].ref].got ELSE row[k].amt
    OBVIOUS
  <2> PICK v, u : /\ v = [[row[k] EXCEPT !.st = st] EXCEPT !.amt = amt]
                  /\ u = IF sub[s].todo = {k} THEN Waiting ELSE [sub[s] EXCEPT !.todo = sub[s].todo \ {k}]
    OBVIOUS
  <2>1. k \in Pay /\ row[k].st # "none" /\ row[k].ref = sub[s].ref /\ IsRow(row[k])
    BY <1>1, <1>3 DEF SubOk, CaptureInv, RowsShaped
  <2>2. IsRow(v) /\ v.st = st /\ v.amt = amt /\ v.kind = row[k].kind /\ v.ref = row[k].ref
    BY <2>1 DEF IsRow
  <2>3. row' = [row EXCEPT ![k] = v]
    BY <1>3, <2>1 DEF CaptureInv, RowsShaped, IsRow
  <2>4. row'[k] = v /\ (\A j \in Pay : j # k => row'[j] = row[j]) /\ row' = [j \in Pay |-> row'[j]]
    BY <2>1, <2>3, Puts DEF CaptureInv, RowsShaped
  <2>5. RowsShaped'
    BY <2>2, <2>4 DEF CaptureInv, RowsShaped
  <2>6. RowOk(v)
    BY <1>1, <2>1, <2>2 DEF SubOk, RowOk, CaptureInv
  <2>7. \A j \in Pay : RowOk(row'[j])
    BY <2>4, <2>6 DEF CaptureInv
  <2>8. \A j \in Pay : row'[j].kind = row[j].kind /\ row'[j].ref = row[j].ref
                       /\ (row'[j].st = "none" <=> row[j].st = "none")
    BY <2>1, <2>2, <2>4
  <2>9. IsSub(u) /\ SubOk(u)
    <3>1. CASE u = Waiting
      BY <3>1, WaitingOk
    <3>2. CASE u = [sub[s] EXCEPT !.todo = sub[s].todo \ {k}]
      <4>1. IsSub(u) /\ u.ev = sub[s].ev /\ u.ref = sub[s].ref /\ u.todo \subseteq sub[s].todo
        BY <1>1, <3>2 DEF IsSub
      <4> QED BY <1>1, <1>3, <4>1 DEF SubOk
    <3> QED BY <3>1, <3>2
  <2>10. sub' = [sub EXCEPT ![s] = u]
    BY <1>3 DEF CaptureInv, SubsShaped
  <2> QED BY <1>1, <2>5, <2>7, <2>8, <2>9, <2>10, Handled
<1> QED BY <1>2, <1>3 DEF Write, Rest

LEMMA CrashSafe ==
    ASSUME CaptureInv, (\E k \in Pay : CrashDispatch(k)) \/ (\E s \in Sub : CrashHandler(s))
    PROVE  CaptureInv'
<1>1. ASSUME NEW k \in Pay, CrashDispatch(k) PROVE CaptureInv'
  <2>1. Ends(k) /\ UNCHANGED <<row, sub>> /\ UNCHANGED <<intent, mail>>
    BY <1>1 DEF CrashDispatch
  <2> QED BY <2>1, Quiet, EndsSafe
<1>2. ASSUME NEW s \in Sub, CrashHandler(s) PROVE CaptureInv'
  <2> PICK u : u = Waiting
    OBVIOUS
  <2>1. UNCHANGED <<row, req, intent>> /\ sub' = [sub EXCEPT ![s] = u] /\ IsSub(u) /\ SubOk(u)
    BY <1>2, WaitingOk DEF CrashHandler
  <2>2. mail' = mail \cup {<<sub[s].ev, sub[s].ref>>} /\ sub[s] # Waiting /\ SubOk(sub[s])
    BY <1>2 DEF CrashHandler, CaptureInv
  <2>3. \A e \in mail' : MailOk(e)
    BY <2>2 DEF CaptureInv, MailOk, SubOk
  <2> QED BY <2>1, <2>3, SubStep
<1> QED BY <1>1, <1>2

----------------------------------------------------------------------------
LEMMA Inductive == CaptureInv /\ [Next]_vars => CaptureInv'
<1> SUFFICES ASSUME CaptureInv, [Next]_vars PROVE CaptureInv'
  OBVIOUS
<1>1. CASE UNCHANGED vars
  <2>1. UNCHANGED <<row, req, intent, sub>> /\ mail' \subseteq mail
    BY <1>1 DEF vars
  <2> QED BY <2>1, Still
<1>2. ASSUME NEW k \in Pay, Till(k) PROVE CaptureInv'
  BY <1>2, BeginSafe, VoidSafe DEF Till
<1>3. ASSUME NEW k \in Pay, Serve(k) PROVE CaptureInv'
  BY <1>3, CashSafe, PendingSafe, ReferenceSafe, CreateSafe, BackfillSafe DEF Serve
<1>4. ASSUME NEW r \in Ref, Customer(r) PROVE CaptureInv'
  BY <1>4, TreasurySafe
<1>5. ASSUME NEW s \in Sub, Handle(s) PROVE CaptureInv'
  BY <1>5, LoadSafe, WriteSafe DEF Handle
<1> QED BY <1>1, <1>2, <1>3, <1>4, <1>5, RetrySafe, CrashSafe DEF Next

\* A digital payment counts only money treasury captured for its intent, and exactly that, however
\* many payments, handlers and faults there are (service.go:885).
THEOREM ConfirmedStaysCaptured == Spec => []ConfirmedWasCaptured
<1>1. CaptureInv => ConfirmedWasCaptured
  BY DEF CaptureInv, RowOk, Settled, ConfirmedWasCaptured, Completed
<1> QED BY Start, Inductive, <1>1, PTL DEF Spec

\* What becomes of a recorded row outside of the handlers: only a cash payment is voided.
Stands(k) == /\ row'[k].st = row[k].st \/ (row[k].st = "completed" /\ row[k].kind # "digital" /\ May("void"))
             /\ row'[k].kind = row[k].kind /\ row'[k].amt = row[k].amt /\ row'[k].when = row[k].when
             /\ row[k].ref # NoRef => row'[k].ref = row[k].ref

AtPayment(j) == Till(j) \/ Serve(j) \/ RetryIntent(j) \/ CrashDispatch(j)

LEMMA RowsStand ==
    ASSUME CaptureInv, NEW j \in Pay, AtPayment(j), NEW k \in Pay, row[k].st # "none"
    PROVE  Stands(k) /\ UNCHANGED <<scene, sub>>
<1>1. IsRow(row[k]) /\ row[j].st = "none" => j # k
  BY DEF CaptureInv, RowsShaped
<1>2. CASE UNCHANGED row
  <2>1. UNCHANGED <<scene, sub>>
    BY DEF AtPayment, Till, Serve, CreatePaymentIntent, VoidPayment, RecordCash, RecordPending, IntentReference,
           CreateIntent, Backfill, RetryIntent, CrashDispatch
  <2> QED BY <1>2, <2>1 DEF Stands
<1>3. ASSUME NEW v, row' = [row EXCEPT ![j] = v], row[j].st = "none" PROVE Stands(k)
  BY <1>1, <1>3 DEF CaptureInv, RowsShaped, Stands
<1>4. CASE RecordCash(j)
  <2>1. row[j].st = "none" /\ UNCHANGED <<scene, sub>>
    BY <1>4 DEF RecordCash, Digital, CaptureInv, ReqOk
  <2> QED BY <1>2, <1>3, <1>4, <2>1 DEF RecordCash, Insert
<1>5. CASE RecordPending(j)
  <2>1. row[j].st = "none" /\ UNCHANGED <<scene, sub>>
    BY <1>5 DEF RecordPending, Digital, CaptureInv, ReqOk
  <2> QED BY <1>2, <1>3, <1>5, <2>1 DEF RecordPending, Insert
<1>6. CASE Backfill(j)
  <2>1. CASE row' = [row EXCEPT ![j].ref = IF @ = NoRef THEN req[j].ref ELSE @]
    BY <1>1, <1>6, <2>1 DEF Backfill, CaptureInv, RowsShaped, Stands, IsRow
  <2> QED BY <1>2, <1>6, <2>1 DEF Backfill
<1>7. CASE VoidPayment(j)
  BY <1>1, <1>7 DEF VoidPayment, CaptureInv, RowsShaped, Stands, IsRow
<1>8. CASE (\E kind \in Kind, a \in Asked : CreatePaymentIntent(j, kind, a)) \/ IntentReference(j) \/ CreateIntent(j)
           \/ RetryIntent(j) \/ CrashDispatch(j)
  BY <1>2, <1>8 DEF CreatePaymentIntent, IntentReference, CreateIntent, RetryIntent, CrashDispatch
<1> QED BY <1>4, <1>5, <1>6, <1>7, <1>8 DEF AtPayment, Till, Serve

\* While one handler works at a time, what it still has to fail is pending.
OneHandler ==
    ~May("race") =>
        /\ \A s, t \in Sub : sub[s] # Waiting /\ sub[t] # Waiting => s = t
        /\ \A s \in Sub : sub[s].ev # "succeeded" => \A k \in sub[s].todo : row[k].st = "pending"

LEMMA HandlerStart == Init => OneHandler
BY DEF Init, OneHandler, Waiting

LEMMA HandlerLoads ==
    ASSUME CaptureInv, OneHandler, NEW s \in Sub, NEW e \in mail, Load(s, e)
    PROVE  OneHandler'
<1> SUFFICES ASSUME ~May("race") PROVE OneHandler'
  BY DEF Load, OneHandler, May
<1>1. UNCHANGED <<scene, row>> /\ \A t \in Sub : sub[t] = Waiting
  BY DEF Load
<1>2. CASE UNCHANGED sub
  BY <1>1, <1>2 DEF OneHandler, May
<1>3. ASSUME NEW todo, sub' = [sub EXCEPT ![s] = [ev |-> e[1], ref |-> e[2], todo |-> todo]],
             e[1] # "succeeded" => \A k \in todo : row[k].st = "pending"
      PROVE  OneHandler'
  <2>1. (\A t \in Sub : t # s => sub'[t] = Waiting) /\ sub'[s] = [ev |-> e[1], ref |-> e[2], todo |-> todo]
    BY <1>1, <1>3 DEF CaptureInv, SubsShaped
  <2>2. \A t \in Sub : t # s => sub'[t].todo = {}
    BY <2>1 DEF Waiting
  <2> QED BY <1>1, <1>3, <2>1, <2>2 DEF OneHandler
<1> QED BY <1>2, <1>3 DEF Load, Failable

LEMMA HandlerWrites ==
    ASSUME CaptureInv, OneHandler, NEW s \in Sub, Write(s)
    PROVE  OneHandler'
<1> SUFFICES ASSUME ~May("race") PROVE OneHandler'
  BY DEF Write, OneHandler, May
<1>1. UNCHANGED scene /\ sub[s] # Waiting /\ (\A t \in Sub : t # s => sub[t] = Waiting) /\ IsSub(sub[s])
  BY DEF Write, OneHandler, CaptureInv, SubsShaped
<1>2. ASSUME NEW u, sub' = [sub EXCEPT ![s] = u], u.ev # "succeeded" => sub[s].ev # "succeeded" \/ u = Waiting,
             u.todo \subseteq sub[s].todo, \A j \in u.todo : row'[j] = row[j]
      PROVE  OneHandler'
  <2>1. (\A t \in Sub : t # s => sub'[t] = Waiting) /\ sub'[s] = u
    BY <1>1, <1>2 DEF CaptureInv, SubsShaped
  <2>2. Waiting.todo = {}
    BY DEF Waiting
  <2> QED BY <1>1, <1>2, <2>1, <2>2 DEF OneHandler
<1>3. CASE UNCHANGED row /\ sub' = [sub EXCEPT ![s] = Waiting]
  <2> PICK u : u = Waiting
    OBVIOUS
  <2>1. u.todo = {}
    BY DEF Waiting
  <2> QED BY <1>2, <1>3, <2>1
<1>4. ASSUME NEW k \in sub[s].todo, NEW v, row' = [row EXCEPT ![k] = v],
             sub' = [sub EXCEPT ![s] = IF sub[s].todo = {k} THEN Waiting ELSE [@ EXCEPT !.todo = sub[s].todo \ {k}]]
      PROVE  OneHandler'
  <2> PICK u : u = IF sub[s].todo = {k} THEN Waiting ELSE [sub[s] EXCEPT !.todo = sub[s].todo \ {k}]
    OBVIOUS
  <2>1. (u.ev # "succeeded" => sub[s].ev # "succeeded" \/ u = Waiting) /\ u.todo \subseteq sub[s].todo \ {k}
    BY <1>1 DEF IsSub, Waiting
  <2>2. sub' = [sub EXCEPT ![s] = u]
    BY <1>4 DEF CaptureInv, SubsShaped
  <2>3. \A j \in u.todo : row'[j] = row[j]
    BY <1>4, <2>1 DEF CaptureInv, RowsShaped, SubOk
  <2> QED BY <1>2, <2>1, <2>2, <2>3
<1>5. ASSUME NEW k \in sub[s].todo,
             row' = [row EXCEPT ![k].st = IF sub[s].ev = "succeeded" THEN "completed" ELSE "failed",
                                ![k].amt = IF sub[s].ev = "succeeded" THEN intent[sub[s].ref].got ELSE @]
      PROVE  \E v : row' = [row EXCEPT ![k] = v]
  <2> PICK v : v = row'[k]
    OBVIOUS
  <2>1. row' = [row EXCEPT ![k] = v]
    BY <1>5 DEF CaptureInv, RowsShaped, SubOk
  <2> QED BY <2>1
<1> QED BY <1>3, <1>4, <1>5 DEF Write, Rest

LEMMA HandlerInductive == CaptureInv /\ OneHandler /\ [Next]_vars => OneHandler'
<1> SUFFICES ASSUME CaptureInv, OneHandler, [Next]_vars PROVE OneHandler'
  OBVIOUS
<1>1. CASE UNCHANGED vars
  BY <1>1 DEF vars, OneHandler, May
<1>2. ASSUME NEW j \in Pay, AtPayment(j) PROVE OneHandler'
  <2>1. UNCHANGED <<scene, sub>>
    BY <1>2 DEF AtPayment, Till, Serve, CreatePaymentIntent, VoidPayment, RecordCash, RecordPending, IntentReference,
                CreateIntent, Backfill, RetryIntent, CrashDispatch
  <2>2. ASSUME NEW s \in Sub, NEW k \in sub[s].todo, row[k].st = "pending" PROVE row'[k].st = "pending"
    <3>1. k \in Pay
      BY DEF CaptureInv, SubOk
    <3> QED BY <1>2, <2>2, <3>1, RowsStand DEF Stands
  <2> QED BY <2>1, <2>2 DEF OneHandler, May
<1>3. ASSUME NEW r \in Ref, Customer(r) PROVE OneHandler'
  BY <1>3 DEF Customer, Capture, Decline, OneHandler, May
<1>4. ASSUME NEW s \in Sub, CrashHandler(s) PROVE OneHandler'
  <2>1. UNCHANGED <<scene, row>> /\ sub'[s] = Waiting /\ \A t \in Sub : t # s => sub'[t] = sub[t]
    BY <1>4 DEF CrashHandler, CaptureInv, SubsShaped
  <2>2. Waiting.todo = {}
    BY DEF Waiting
  <2> QED BY <2>1, <2>2 DEF OneHandler, May
<1> QED BY <1>1, <1>2, <1>3, <1>4, HandlerLoads, HandlerWrites DEF Next, AtPayment, Handle

LEMMA ConfirmedKept ==
    ASSUME CaptureInv, OneHandler, [Next]_vars, ~May("race"),
           NEW k \in Pay, row[k].st = "completed", row[k].kind = "digital"
    PROVE  row'[k].st = "completed"
<1>1. CASE UNCHANGED row
  BY <1>1
<1>2. ASSUME NEW j \in Pay, AtPayment(j) PROVE row'[k].st = "completed"
  <2>1. row[k].st # "none"
    OBVIOUS
  <2>2. Stands(k)
    BY <1>2, <2>1, RowsStand
  <2> QED BY <2>2 DEF Stands
<1>3. ASSUME NEW s \in Sub, Write(s) PROVE row'[k].st = "completed"
  <2>1. ASSUME NEW i \in sub[s].todo,
               row' = [row EXCEPT ![i].st = IF sub[s].ev = "succeeded" THEN "completed" ELSE "failed",
                                  ![i].amt = IF sub[s].ev = "succeeded" THEN intent[sub[s].ref].got ELSE @]
        PROVE  row'[k].st = "completed"
    <3>1. CASE i = k
      <4>1. sub[s].ev = "succeeded"
        BY <2>1, <3>1 DEF OneHandler
      <4>2. row = [p \in Pay |-> row[p]] /\ IsRow(row[k])
        BY DEF CaptureInv, RowsShaped
      <4> QED BY <2>1, <3>1, <4>1, <4>2 DEF IsRow
    <3>2. CASE i # k
      BY <2>1, <3>2 DEF CaptureInv, RowsShaped
    <3> QED BY <3>1, <3>2
  <2> QED BY <1>1, <1>3, <2>1 DEF Write, Rest
<1>4. CASE UNCHANGED vars
  BY <1>4 DEF vars
<1>5. ASSUME NEW r \in Ref, Customer(r) PROVE row'[k].st = "completed"
  BY <1>5 DEF Customer, Capture, Decline
<1>6. ASSUME NEW s \in Sub, CrashHandler(s) \/ \E e \in mail : Load(s, e) PROVE row'[k].st = "completed"
  BY <1>6 DEF CrashHandler, Load
<1> QED BY <1>2, <1>3, <1>4, <1>5, <1>6 DEF Next, AtPayment, Handle

\* With one handler at a time a confirmed digital payment stays confirmed, whichever failures of its
\* intent are still on their way (service.go:921).
THEOREM ConfirmedStays == Spec => FailKeepsConfirmed
<1>1. CaptureInv /\ OneHandler /\ [Next]_vars
      => [~May("race") => \A k \in Completed : row[k].kind = "digital" => row'[k].st = "completed"]_vars
  BY ConfirmedKept DEF Completed
<1> QED BY Start, Inductive, HandlerStart, HandlerInductive, <1>1, PTL DEF Spec, FailKeepsConfirmed

----------------------------------------------------------------------------
(* What is collected is a number: the fold over the completed payments is   *)
(* a recursive function, and a smallest set on which it failed would have   *)
(* a smaller one.                                                           *)

Pick(s) == CHOOSE x \in s : TRUE
IsSum(g, f, S) == g = [s \in SUBSET S |-> IF s = {} THEN 0 ELSE f[Pick(s)] + g[s \ {Pick(s)}]]

LEMMA Picked == ASSUME NEW S, S # {} PROVE Pick(S) \in S
BY DEF Pick

LEMMA Least ==
    ASSUME NEW S, IsFiniteSet(S), NEW T, T \subseteq SUBSET S, T # {}
    PROVE  \E t \in T : \A u \in SUBSET t : u # t => u \notin T
<1>1. IsWellFoundedOn(StrictSubsetOrdering(S), SUBSET S)
  BY FS_StrictSubsetOrderingWellFounded, FS_FiniteSubsetsOfFinite
<1>2. PICK t \in T : \A u \in T : <<u, t>> \notin StrictSubsetOrdering(S)
  <2> PICK R : R = StrictSubsetOrdering(S)
    OBVIOUS
  <2> QED BY <1>1, WFMin, Zenon
<1>3. ASSUME NEW u \in SUBSET t, u # t, u \in T PROVE FALSE
  <2>1. <<u, t>> \in StrictSubsetOrdering(S)
    <3>1. <<u, t>> \in (SUBSET S) \X (SUBSET S)
      BY <1>3
    <3> QED BY <1>3, <3>1 DEF StrictSubsetOrdering
  <2> QED BY <1>2, <1>3, <2>1
<1> QED BY <1>3

LEMMA SumUnique ==
    ASSUME NEW f, NEW S, NEW U, NEW g, NEW h, IsSum(g, f, S), IsSum(h, f, U),
           NEW t, IsFiniteSet(t), t \subseteq S, t \subseteq U
    PROVE  g[t] = h[t]
<1> DEFINE T == {s \in SUBSET t : g[s] # h[s]}
<1>1. ASSUME NEW s \in T, \A u \in SUBSET s : u # s => u \notin T PROVE FALSE
  <2>1. s \in SUBSET S /\ s \in SUBSET U /\ s \in SUBSET t /\ g[s] # h[s]
    OBVIOUS
  <2>2. g[s] = IF s = {} THEN 0 ELSE f[Pick(s)] + g[s \ {Pick(s)}]
    BY <2>1 DEF IsSum
  <2>3. h[s] = IF s = {} THEN 0 ELSE f[Pick(s)] + h[s \ {Pick(s)}]
    BY <2>1 DEF IsSum
  <2>4. s # {}
    BY <2>1, <2>2, <2>3
  <2>5. s \ {Pick(s)} \in SUBSET s /\ s \ {Pick(s)} # s
    BY <2>4, Picked
  <2>6. g[s \ {Pick(s)}] = h[s \ {Pick(s)}]
    BY <1>1, <2>1, <2>5
  <2> QED BY <2>1, <2>2, <2>3, <2>4, <2>6
<1>2. T \subseteq SUBSET t
  OBVIOUS
<1> HIDE DEF T
<1>3. T = {}
  BY <1>1, <1>2, Least
<1> QED BY <1>3 DEF T

LEMMA SumExists ==
    ASSUME NEW f, NEW S, IsFiniteSet(S)
    PROVE  \E g : IsSum(g, f, S)
<1> DEFINE T == {s \in SUBSET S : ~\E g : IsSum(g, f, s)}
<1>1. ASSUME NEW s \in T, \A u \in SUBSET s : u # s => u \notin T PROVE FALSE
  <2> DEFINE G(u) == CHOOSE g : IsSum(g, f, u)
             rest(u) == u \ {Pick(u)}
             value(u) == IF u = {} THEN 0 ELSE f[Pick(u)] + G(rest(u))[rest(u)]
             h == [u \in SUBSET s |-> value(u)]
  <2>1. s \in SUBSET S /\ ~\E g : IsSum(g, f, s)
    OBVIOUS
  <2>2. ASSUME NEW u \in SUBSET s, u # s PROVE IsSum(G(u), f, u)
    <3>1. \E g : IsSum(g, f, u)
      BY <1>1, <2>1, <2>2
    <3> QED BY <3>1
  <2> HIDE DEF G
  <2>3. ASSUME NEW u \in SUBSET s, u # s PROVE G(u)[u] = value(u)
    <3>1. IsSum(G(u), f, u)
      BY <2>2, <2>3
    <3>2. G(u)[u] = IF u = {} THEN 0 ELSE f[Pick(u)] + G(u)[rest(u)]
      BY <3>1 DEF IsSum
    <3>3. CASE u # {}
      <4>1. rest(u) \in SUBSET u /\ rest(u) \in SUBSET s /\ rest(u) # s
        BY <2>3
      <4>2. IsSum(G(rest(u)), f, rest(u))
        BY <2>2, <4>1
      <4>3. IsFiniteSet(rest(u))
        BY <2>1, <4>1, FS_Subset
      <4> HIDE DEF rest
      <4>4. G(u)[rest(u)] = G(rest(u))[rest(u)]
        BY <3>1, <4>1, <4>2, <4>3, SumUnique
      <4> QED BY <3>2, <3>3, <4>4
    <3> QED BY <3>2, <3>3
  <2>4. ASSUME NEW u \in SUBSET s PROVE h[u] = IF u = {} THEN 0 ELSE f[Pick(u)] + h[rest(u)]
    <3>1. CASE u # {}
      <4>1. rest(u) \in SUBSET s /\ rest(u) # s
        BY <3>1, Picked
      <4>2. h[rest(u)] = G(rest(u))[rest(u)]
        BY <2>3, <4>1
      <4> QED BY <3>1, <4>2
    <3> QED BY <3>1
  <2> PICK k : k = h
    OBVIOUS
  <2>5. IsSum(k, f, s)
    <3>1. k = [u \in SUBSET s |-> k[u]]
      OBVIOUS
    <3>2. \A u \in SUBSET s : k[u] = IF u = {} THEN 0 ELSE f[Pick(u)] + k[u \ {Pick(u)}]
      BY <2>4
    <3> HIDE DEF h
    <3> QED BY <3>1, <3>2 DEF IsSum
  <2> QED BY <2>1, <2>5
<1>2. T \subseteq SUBSET S
  OBVIOUS
<1> HIDE DEF T
<1>3. T = {}
  BY <1>1, <1>2, Least
<1> QED BY <1>3 DEF T

LEMMA SumInteger ==
    ASSUME NEW f, NEW S, IsFiniteSet(S), NEW g, IsSum(g, f, S), \A x \in S : f[x] \in Int
    PROVE  g[S] \in Int
<1> DEFINE T == {s \in SUBSET S : g[s] \notin Int}
<1>1. ASSUME NEW s \in T, \A u \in SUBSET s : u # s => u \notin T PROVE FALSE
  <2>1. s \in SUBSET S /\ g[s] \notin Int
    OBVIOUS
  <2>2. g[s] = IF s = {} THEN 0 ELSE f[Pick(s)] + g[s \ {Pick(s)}]
    BY <2>1 DEF IsSum
  <2>3. s # {}
    BY <2>1, <2>2
  <2>4. s \ {Pick(s)} \in SUBSET s /\ s \ {Pick(s)} # s /\ f[Pick(s)] \in Int
    BY <2>1, <2>3, Picked
  <2>5. g[s \ {Pick(s)}] \in Int
    BY <1>1, <2>1, <2>4
  <2> QED BY <2>1, <2>2, <2>3, <2>4, <2>5
<1>2. T \subseteq SUBSET S
  OBVIOUS
<1> HIDE DEF T
<1>3. T = {}
  BY <1>1, <1>2, Least
<1> QED BY <1>3 DEF T

RowSet == [st : {"none", "pending", "completed", "failed", "voided"}, kind : Kind, amt : Nat,
           ref : Ref \cup {NoRef, Keyed}, when : 0..MaxPay]
ReqSet == [at : {"new", "insert", "choose", "call", "backfill", "done"}, kind : Kind, amt : Nat, ref : Ref \cup {NoRef}]
IntentSet == [st : {"none", "open", "failed", "settled"}, amt : Nat, got : Nat]
SubSet == [ev : {"none", "succeeded", "failed"}, ref : Ref \cup {NoRef}, todo : SUBSET Pay]

LEMMA PaysFinite == ASSUME NEW S \in SUBSET Pay PROVE IsFiniteSet(S) /\ Cardinality(S) \in 0..MaxPay
<1>1. IsFiniteSet(Pay) /\ Cardinality(Pay) = MaxPay
  BY FS_Interval, BoundsAssumption DEF Pay
<1> QED BY <1>1, FS_Subset, FS_CardinalityType

LEMMA CollectedNumber == ASSUME row \in [Pay -> RowSet] PROVE Collected \in Int /\ Outstanding \in Int
<1> PICK S, f : S = Completed /\ f = [k \in S |-> row[k].amt]
  OBVIOUS
<1> DEFINE P(g) == g = [s \in SUBSET S |-> IF s = {} THEN 0
                                           ELSE row[CHOOSE x \in s : TRUE].amt + g[s \ {CHOOSE x \in s : TRUE}]]
           sum == CHOOSE g : P(g)
<1>1. ASSUME NEW g PROVE IsSum(g, f, S) <=> P(g)
  <2>1. ASSUME NEW s \in SUBSET S, s # {} PROVE f[Pick(s)] = row[CHOOSE x \in s : TRUE].amt
    <3>1. Pick(s) \in S /\ Pick(s) = CHOOSE x \in s : TRUE
      BY <2>1, Picked DEF Pick
    <3> QED BY <3>1
  <2> DEFINE A(s) == IF s = {} THEN 0 ELSE f[Pick(s)] + g[s \ {Pick(s)}]
             B(s) == IF s = {} THEN 0 ELSE row[CHOOSE x \in s : TRUE].amt + g[s \ {CHOOSE x \in s : TRUE}]
  <2>2. ASSUME NEW s \in SUBSET S PROVE A(s) = B(s)
    BY <2>1, <2>2 DEF Pick
  <2>3. (IsSum(g, f, S) <=> g = [s \in SUBSET S |-> A(s)]) /\ (P(g) <=> g = [s \in SUBSET S |-> B(s)])
    BY Zenon DEF IsSum
  <2> HIDE DEF A, B, P
  <2>4. [s \in SUBSET S |-> A(s)] = [s \in SUBSET S |-> B(s)]
    BY <2>2
  <2> QED BY <2>3, <2>4
<1>2. Collected = sum[S]
  BY Zenon DEF Collected, MapThenSumSet, MapThenFoldSet
<1>3. IsFiniteSet(S) /\ \A x \in S : f[x] \in Int
  <2>1. S \in SUBSET Pay /\ \A x \in S : f[x] = row[x].amt
    BY DEF Completed
  <2> QED BY <2>1, PaysFinite DEF RowSet
<1>4. P(sum)
  <2> PICK h : IsSum(h, f, S)
    BY <1>3, SumExists
  <2> HIDE DEF P
  <2>1. P(h)
    BY <1>1
  <2> QED BY <2>1, Zenon
<1>5. IsSum(sum, f, S)
  BY <1>1, <1>4
<1> HIDE DEF sum, P
<1>6. sum[S] \in Int
  BY <1>3, <1>5, SumInteger
<1> QED BY <1>2, <1>6, BoundsAssumption DEF Outstanding

LEMMA LesserNumber == ASSUME NEW a \in Nat, NEW b \in Int, b > 0 PROVE Lesser(a, b) \in Nat /\ Lesser(a, b) <= a
BY DEF Lesser

LEMMA Faulted == ASSUME faults \in 0..MaxFault, (\E h \in Hazard : Mishap(h)) \/ UNCHANGED faults PROVE faults' \in 0..MaxFault
BY BoundsAssumption DEF Mishap

LEMMA Kinds == /\ \A s \in {"new", "insert", "choose", "call", "backfill", "done"} :
                      \A k \in Pay : req \in [Pay -> ReqSet] => [req EXCEPT ![k].at = s] \in [Pay -> ReqSet]
               /\ {"fail", "late", "crash", "lost", "db", "decline", "void", "overlap", "race"} \subseteq Hazard
BY DEF ReqSet, Hazard

Shapes == row \in [Pay -> RowSet] /\ req \in [Pay -> ReqSet] /\ intent \in [Ref -> IntentSet] /\ sub \in [Sub -> SubSet]

LEMMA TypeShapes == TypeOK <=> /\ Shapes /\ scene \in Scenes
                               /\ mail \subseteq {"succeeded", "failed"} \X Ref /\ faults \in 0..MaxFault
BY DEF TypeOK, Shapes, RowSet, ReqSet, IntentSet, SubSet

\* A handler that is not waiting has an event.
Busy == \A s \in Sub : sub[s].ev = "none" => sub[s] = Waiting

LEMMA TypeStart == Init => TypeOK /\ Busy
BY BoundsAssumption DEF Busy, Init, TypeOK, NoRow, NoReq, NoIntent, Waiting, Kind, NoRef

LEMMA TypeInsert ==
    ASSUME TypeOK, NEW k \in Pay, row[k].st = "none", NEW status \in {"pending", "completed"}, NEW amount \in Nat,
           NEW ref \in Ref \cup {NoRef, Keyed}, Insert(k, status, amount, ref)
    PROVE  row' \in [Pay -> RowSet]
<1>1. Shapes
  BY TypeShapes
<1>2. Used \in SUBSET Pay /\ k \notin Used
  BY DEF Used
<1>3. Cardinality(Used) + 1 \in 0..MaxPay
  <2>1. IsFiniteSet(Used) /\ Used \cup {k} \in SUBSET Pay
    BY <1>2, PaysFinite
  <2>2. Cardinality(Used \cup {k}) = Cardinality(Used) + 1
    BY <1>2, <2>1, FS_AddElement
  <2> QED BY <2>1, <2>2, PaysFinite
<1>4. [st |-> status, kind |-> req[k].kind, amt |-> amount, ref |-> ref, when |-> Cardinality(Used) + 1] \in RowSet
  BY <1>1, <1>3 DEF Shapes, ReqSet, RowSet
<1> QED BY <1>1, <1>4 DEF Insert, Shapes

LEMMA TypeServe ==
    ASSUME TypeOK, CaptureInv, NEW k \in Pay, AtPayment(k)
    PROVE  TypeOK'
<1>0. Shapes
  BY TypeShapes
<1>1. UNCHANGED <<scene, mail, sub>>
  BY DEF AtPayment, Till, Serve, CreatePaymentIntent, VoidPayment, RecordCash, RecordPending, IntentReference,
         CreateIntent, Backfill, RetryIntent, CrashDispatch
<1>2. faults' \in 0..MaxFault
  <2>1. (\E h \in Hazard : Mishap(h)) \/ UNCHANGED faults
    BY Kinds DEF AtPayment, Till, Serve, CreatePaymentIntent, VoidPayment, RecordCash, RecordPending, IntentReference,
       CreateIntent, Backfill, RetryIntent, CrashDispatch
  <2> QED BY <2>1, Faulted DEF TypeOK
<1>3. ASSUME row' \in [Pay -> RowSet], req' \in [Pay -> ReqSet], intent' \in [Ref -> IntentSet] PROVE TypeOK'
  BY <1>0, <1>1, <1>2, <1>3, TypeShapes DEF Shapes, TypeOK, RowSet, ReqSet, IntentSet, SubSet
<1>4. Collected \in Int /\ Outstanding \in Int
  BY <1>0, CollectedNumber DEF Shapes
<1>5. ASSUME NEW kind \in Kind, NEW ask \in Asked, CreatePaymentIntent(k, kind, ask) PROVE TypeOK'
  <2>1. Lesser(ask, Outstanding) \in Nat
    BY <1>4, <1>5, LesserNumber, BoundsAssumption DEF CreatePaymentIntent, FullyPaid
  <2>2. [at |-> IF kind = "digital" THEN "choose" ELSE "insert", kind |-> kind,
         amt |-> Lesser(ask, Outstanding), ref |-> NoRef] \in ReqSet
    BY <2>1 DEF ReqSet
  <2> QED BY <1>0, <1>3, <1>5, <2>2 DEF CreatePaymentIntent, Shapes
<1>6. CASE VoidPayment(k)
  BY <1>0, <1>3, <1>6 DEF VoidPayment, Shapes, RowSet
<1>7. CASE RecordCash(k)
  <2>1. row[k].st = "none" /\ UNCHANGED intent /\ req' \in [Pay -> ReqSet]
    BY <1>0, <1>7, Kinds DEF RecordCash, Digital, CaptureInv, ReqOk, Goes, Ends, Shapes
  <2>2. row' \in [Pay -> RowSet]
    <3>1. ASSUME ~FullyPaid PROVE Lesser(req[k].amt, Outstanding) \in Nat
      BY <1>0, <1>4, <3>1, LesserNumber DEF FullyPaid, Shapes, ReqSet
    <3>2. ASSUME NEW ref \in Ref \cup {NoRef, Keyed}, ~FullyPaid,
                 Insert(k, "completed", Lesser(req[k].amt, Outstanding), ref)
          PROVE  row' \in [Pay -> RowSet]
      BY <2>1, <3>1, <3>2, TypeInsert
    <3> QED BY <1>0, <1>7, <3>2 DEF RecordCash, Shapes
  <2> QED BY <1>0, <1>3, <2>1, <2>2 DEF Shapes
<1>8. CASE RecordPending(k)
  <2>1. row[k].st = "none" /\ UNCHANGED intent /\ req' \in [Pay -> ReqSet]
    BY <1>0, <1>8, Kinds DEF RecordPending, Digital, CaptureInv, ReqOk, Goes, Ends, Shapes
  <2>2. req[k].amt \in Nat /\ req[k].ref \in Ref \cup {NoRef, Keyed}
    BY <1>0 DEF Shapes, ReqSet
  <2>3. row' \in [Pay -> RowSet]
    BY <1>0, <1>8, <2>1, <2>2, TypeInsert DEF RecordPending, Shapes
  <2> QED BY <1>0, <1>3, <2>1, <2>3 DEF Shapes
<1>9. CASE IntentReference(k)
  <2>1. \A r \in Ref : [req EXCEPT ![k].at = "call", ![k].ref = r] \in [Pay -> ReqSet]
    BY <1>0 DEF Shapes, ReqSet
  <2>2. req' \in [Pay -> ReqSet]
    <3>1. PICK r \in Ref : req' = [req EXCEPT ![k].at = "call", ![k].ref = r]
      BY <1>9, References DEF IntentReference
    <3> QED BY <2>1, <3>1
  <2> QED BY <1>0, <1>3, <1>9, <2>2 DEF IntentReference, Shapes
<1>10. CASE CreateIntent(k)
  <2>1. UNCHANGED row /\ req' \in [Pay -> ReqSet]
    BY <1>0, <1>10, Kinds DEF CreateIntent, Goes, Ends, Shapes
  <2>2. Opened(k) \in IntentSet
    BY <1>0 DEF Opened, Shapes, ReqSet, IntentSet
  <2>3. intent' \in [Ref -> IntentSet]
    BY <1>0, <1>10, <2>2 DEF CreateIntent, Shapes
  <2> QED BY <1>0, <1>3, <2>1, <2>3 DEF Shapes
<1>11. CASE Backfill(k)
  <2>1. UNCHANGED intent /\ req' \in [Pay -> ReqSet]
    BY <1>0, <1>11, Kinds DEF Backfill, Goes, Ends, Shapes
  <2>2. row' \in [Pay -> RowSet]
    <3>1. row \in [Pay -> RowSet] /\ req[k].ref \in Ref \cup {NoRef}
      BY <1>0 DEF Shapes, ReqSet
    <3>2. \A v \in Ref \cup {NoRef, Keyed} : [row[k] EXCEPT !.ref = v] \in RowSet
      BY <3>1 DEF RowSet
    <3>3. row[k].ref \in Ref \cup {NoRef, Keyed}
      BY <3>1 DEF RowSet
    <3>4. CASE UNCHANGED row
      BY <3>1, <3>4
    <3>5. CASE row' = [row EXCEPT ![k].ref = IF @ = NoRef THEN req[k].ref ELSE @]
      <4>1. PICK v \in Ref \cup {NoRef, Keyed} : v = IF row[k].ref = NoRef THEN req[k].ref ELSE row[k].ref
        BY <3>1, <3>3
      <4>2. row' = [row EXCEPT ![k] = [row[k] EXCEPT !.ref = v]]
        BY <3>1, <3>5, <4>1
      <4> QED BY <3>1, <3>2, <4>2
    <3> QED BY <1>11, <3>4, <3>5 DEF Backfill
  <2> QED BY <1>0, <1>3, <2>1, <2>2 DEF Shapes
<1>12. CASE RetryIntent(k)
  <2>1. \A a \in Nat : [req EXCEPT ![k].at = "choose", ![k].amt = a] \in [Pay -> ReqSet]
    BY <1>0 DEF Shapes, ReqSet
  <2>2. row[k].amt \in Nat
    BY <1>0 DEF Shapes, RowSet
  <2>3. req' \in [Pay -> ReqSet]
    BY <1>12, <2>1, <2>2 DEF RetryIntent
  <2> QED BY <1>0, <1>3, <1>12, <2>3 DEF RetryIntent, Shapes
<1>13. CASE CrashDispatch(k)
  <2>1. req' \in [Pay -> ReqSet]
    BY <1>0, <1>13, Kinds DEF CrashDispatch, Ends, Goes, Shapes
  <2> QED BY <1>0, <1>3, <1>13, <2>1 DEF CrashDispatch, Shapes
<1> QED BY <1>5, <1>6, <1>7, <1>8, <1>9, <1>10, <1>11, <1>12, <1>13 DEF AtPayment, Till, Serve

LEMMA TypeHandle ==
    ASSUME TypeOK, Busy, CaptureInv, NEW s \in Sub, Handle(s) \/ CrashHandler(s)
    PROVE  TypeOK' /\ Busy'
<1>0. Shapes
  BY TypeShapes
<1>1. UNCHANGED <<scene, req, intent>>
  BY DEF Handle, Load, Write, CrashHandler
<1>2. faults' \in 0..MaxFault
  <2>1. (\E h \in Hazard : Mishap(h)) \/ UNCHANGED faults
    BY Kinds DEF Handle, Load, Write, CrashHandler
  <2> QED BY <2>1, Faulted DEF TypeOK
<1>3. ASSUME row' \in [Pay -> RowSet], sub' \in [Sub -> SubSet], mail' \subseteq {"succeeded", "failed"} \X Ref PROVE TypeOK'
  BY <1>0, <1>1, <1>2, <1>3, TypeShapes DEF Shapes, TypeOK, RowSet, ReqSet, IntentSet, SubSet
<1>4. Waiting \in SubSet
  BY DEF Waiting, SubSet
<1>5. ASSUME NEW e \in mail, Load(s, e) PROVE TypeOK' /\ Busy'
  <2>1. UNCHANGED row /\ mail' \subseteq mail
    BY <1>5 DEF Load
  <2>2. \A todo \in SUBSET Pay : [ev |-> e[1], ref |-> e[2], todo |-> todo] \in SubSet
    BY DEF SubSet, TypeOK
  <2>3. ASSUME NEW todo \in SUBSET Matching(e[2]), sub' = [sub EXCEPT ![s] = [ev |-> e[1], ref |-> e[2], todo |-> todo]]
        PROVE  sub' \in [Sub -> SubSet] /\ Busy'
    <3>1. todo \in SUBSET Pay /\ e[1] # "none"
      BY DEF Matching, Used, TypeOK
    <3>2. [ev |-> e[1], ref |-> e[2], todo |-> todo] \in SubSet
      BY <2>2, <3>1
    <3> QED BY <1>0, <2>3, <3>1, <3>2 DEF Busy, Shapes
  <2>4. ASSUME UNCHANGED sub PROVE sub' \in [Sub -> SubSet] /\ Busy'
    BY <1>0, <2>4 DEF Shapes, Busy
  <2>5. UNCHANGED sub \/ \E todo \in SUBSET Matching(e[2]) :
                            sub' = [sub EXCEPT ![s] = [ev |-> e[1], ref |-> e[2], todo |-> todo]]
    BY <1>5 DEF Load
  <2> QED BY <1>0, <1>3, <2>1, <2>3, <2>4, <2>5 DEF Shapes, TypeOK
<1>6. CASE Write(s)
  <2>1. UNCHANGED mail /\ sub[s] \in SubSet /\ IsSub(sub[s])
    BY <1>0, <1>6 DEF Write, Shapes, CaptureInv, SubsShaped
  <2>2. ASSUME NEW k \in sub[s].todo,
               row' = [row EXCEPT ![k].st = IF sub[s].ev = "succeeded" THEN "completed" ELSE "failed",
                                  ![k].amt = IF sub[s].ev = "succeeded" THEN intent[sub[s].ref].got ELSE @],
               sub' = [sub EXCEPT ![s] = IF sub[s].todo = {k} THEN Waiting ELSE [@ EXCEPT !.todo = sub[s].todo \ {k}]]
        PROVE  row' \in [Pay -> RowSet] /\ sub' \in [Sub -> SubSet] /\ Busy'
    <3>1. k \in Pay /\ sub[s].ref \in Ref
      BY <2>2 DEF CaptureInv, SubOk
    <3> PICK st \in {"completed", "failed"}, amt \in Nat :
            /\ st = IF sub[s].ev = "succeeded" THEN "completed" ELSE "failed"
            /\ amt = IF sub[s].ev = "succeeded" THEN intent[sub[s].ref].got ELSE row[k].amt
      BY <1>0, <3>1 DEF Shapes, IntentSet, RowSet
    <3>2. row' = [row EXCEPT ![k] = [[row[k] EXCEPT !.st = st] EXCEPT !.amt = amt]]
      BY <1>0, <2>2, <3>1 DEF Shapes, RowSet
    <3>3. [[row[k] EXCEPT !.st = st] EXCEPT !.amt = amt] \in RowSet
      BY <1>0, <3>1 DEF Shapes, RowSet
    <3>4. [sub[s] EXCEPT !.todo = sub[s].todo \ {k}] \in SubSet
      BY <2>1 DEF SubSet
    <3>5. [sub[s] EXCEPT !.todo = sub[s].todo \ {k}].ev # "none"
      BY <1>6, <2>1 DEF Write, Busy, IsSub
    <3>6. sub' \in [Sub -> SubSet] /\ Busy'
      BY <1>0, <1>4, <2>2, <3>4, <3>5 DEF Shapes, Busy
    <3> QED BY <1>0, <3>1, <3>2, <3>3, <3>6 DEF Shapes
  <2>3. ASSUME UNCHANGED row, sub' = [sub EXCEPT ![s] = Waiting]
        PROVE  row' \in [Pay -> RowSet] /\ sub' \in [Sub -> SubSet] /\ Busy'
    BY <1>0, <1>4, <2>3 DEF Shapes, Busy
  <2>4. row' \in [Pay -> RowSet] /\ sub' \in [Sub -> SubSet] /\ Busy'
    BY <1>6, <2>2, <2>3 DEF Write, Rest
  <2>5. mail' \subseteq {"succeeded", "failed"} \X Ref
    BY <2>1 DEF TypeOK
  <2> QED BY <1>3, <2>4, <2>5
<1>7. CASE CrashHandler(s)
  <2>1. mail' \subseteq {"succeeded", "failed"} \X Ref
    <3>1. sub[s] # Waiting /\ sub[s].ref \in Ref /\ sub[s].ev \in {"succeeded", "failed"}
      BY <1>0, <1>7 DEF Busy, CrashHandler, CaptureInv, SubOk, Shapes, SubSet
    <3> QED BY <1>7, <3>1 DEF CrashHandler, TypeOK
  <2> QED BY <1>0, <1>3, <1>4, <1>7, <2>1 DEF CrashHandler, Shapes, Busy
<1> QED BY <1>5, <1>6, <1>7 DEF Handle

LEMMA TypeInductive == TypeOK /\ Busy /\ CaptureInv /\ [Next]_vars => TypeOK' /\ Busy'
<1> SUFFICES ASSUME TypeOK, Busy, CaptureInv, [Next]_vars PROVE TypeOK' /\ Busy'
  OBVIOUS
<1>1. CASE UNCHANGED vars
  BY <1>1 DEF vars, TypeOK, Busy
<1>2. ASSUME NEW k \in Pay, AtPayment(k) PROVE TypeOK' /\ Busy'
  <2>1. UNCHANGED sub
    BY <1>2 DEF AtPayment, Till, Serve, CreatePaymentIntent, VoidPayment, RecordCash, RecordPending, IntentReference,
                CreateIntent, Backfill, RetryIntent, CrashDispatch
  <2> QED BY <1>2, <2>1, TypeServe DEF Busy
<1>3. ASSUME NEW r \in Ref, Customer(r) PROVE TypeOK' /\ Busy'
  <2>1. ASSUME NEW a \in Nat PROVE [intent EXCEPT ![r].st = "settled", ![r].got = a] \in [Ref -> IntentSet]
    <3>1. intent \in [Ref -> IntentSet] /\ intent[r] \in IntentSet
      BY DEF TypeOK, IntentSet
    <3> PICK v : v = [[intent[r] EXCEPT !.st = "settled"] EXCEPT !.got = a]
      OBVIOUS
    <3>2. v \in IntentSet
      BY <3>1 DEF IntentSet
    <3>3. [intent EXCEPT ![r].st = "settled", ![r].got = a] = [intent EXCEPT ![r] = v]
      BY <3>1
    <3> QED BY <3>1, <3>2, <3>3
  <2>2. intent' \in [Ref -> IntentSet]
    <3>1. ASSUME NEW a \in Asked, Capture(r, a) PROVE intent' \in [Ref -> IntentSet]
      <4>1. a \in Nat
        BY BoundsAssumption
      <4> QED BY <2>1, <3>1, <4>1 DEF Capture
    <3>2. CASE Decline(r)
      BY <3>2 DEF Decline, TypeOK, IntentSet
    <3> QED BY <1>3, <3>1, <3>2 DEF Customer
  <2>3. UNCHANGED <<scene, row, req, sub, faults>> /\ mail' \subseteq {"succeeded", "failed"} \X Ref
    BY <1>3 DEF Customer, Capture, Decline, TypeOK
  <2> QED BY <2>2, <2>3 DEF TypeOK, IntentSet, Busy
<1> QED BY <1>1, <1>2, <1>3, TypeHandle DEF Next, AtPayment

\* The rows, requests, intents and events keep the values the code gives them: no amount becomes
\* negative, and no payment occurs later than the order has payments.
THEOREM TypeCorrect == Spec => []TypeOK
BY Start, Inductive, TypeStart, TypeInductive, PTL DEF Spec

----------------------------------------------------------------------------
(* While earlier payments stay: which reference belongs to which payment.   *)

Cash(k) == row[k].st # "none" /\ row[k].kind # "digital"
First(k) == IF row[k].st = "none" THEN Used = {} ELSE row[k].when = 1
RefOf(k) == IF First(k) THEN Base ELSE Portion(k)
Claims(k) == row[k].st # "none" \/ (Digital(k) /\ Recording(k))
Owns(k) == row[k].st # "none" \/ (Digital(k) /\ req[k].at = "insert")

\* occurred_at orders the payments without ties, from the first.
Ranked == /\ \A k \in Used : row[k].when \in 1..Cardinality(Used)
          /\ \A j, k \in Used : row[j].when = row[k].when => j = k
          /\ Used # {} => \E k \in Used : row[k].when = 1
OneRecording == \A j, k \in Pay : Recording(j) /\ Recording(k) => j = k
\* Nothing is declined or voided, and events concern digital payments.
NoneFailed == /\ \A k \in Used : row[k].st \in {"pending", "completed"}
              /\ \A e \in mail : e[1] = "succeeded" /\ Offered(e[2])
              /\ \A s \in Sub : sub[s] # Waiting => sub[s].ev = "succeeded" /\ Offered(sub[s].ref)
RequestRef(k) ==
    /\ req[k].at \in {"call", "backfill"} \/ (Digital(k) /\ req[k].at = "insert") => req[k].ref = RefOf(k)
    /\ Digital(k) \/ req[k].at \in {"new", "insert", "done"} \/ row[k].st # "none"
    /\ Cash(k) /\ req[k].at # "done" => req[k].amt >= row[k].amt
    /\ req[k].at = "backfill" \/ (Digital(k) /\ req[k].at = "insert") => intent[RefOf(k)].st # "none"
RowRef(k) ==
    /\ row[k].st # "none" /\ row[k].ref \in Ref => row[k].ref = RefOf(k) /\ intent[RefOf(k)].st # "none"
    /\ Cash(k) /\ intent[RefOf(k)].st # "none" => intent[RefOf(k)].st = "settled" /\ intent[RefOf(k)].got >= row[k].amt
Covered == \A r \in Ref : intent[r].st # "none" => \E k \in Pay : Owns(k) /\ RefOf(k) = r
OwnInv == Ranked /\ OneRecording /\ NoneFailed /\ (\A k \in Pay : RequestRef(k) /\ RowRef(k)) /\ Covered

LEMMA PortionsDiffer == (\A j, k \in Pay : Portion(j) = Portion(k) => j = k) /\ \A k \in Pay : Portion(k) # Base /\ RefOf(k) \in Ref
BY References DEF Portion, Base, RefOf

LEMMA RefUnique ==
    ASSUME OwnInv, NEW j \in Pay, NEW k \in Pay, Claims(j), Claims(k), RefOf(j) = RefOf(k)
    PROVE  j = k
<1>1. CASE First(j) /\ First(k)
  <2>1. CASE row[j].st # "none" /\ row[k].st # "none"
    BY <1>1, <2>1 DEF OwnInv, Ranked, First, Used
  <2>2. CASE row[j].st = "none" /\ row[k].st = "none"
    BY <2>2 DEF Claims, OwnInv, OneRecording
  <2> QED BY <1>1, <2>1, <2>2 DEF First, Used
<1>2. CASE ~First(j) /\ ~First(k)
  BY <1>2, PortionsDiffer DEF RefOf
<1> QED BY <1>1, <1>2, PortionsDiffer DEF RefOf

LEMMA EarlierRef ==
    ASSUME OwnInv, TypeOK, NEW k \in Pay
    PROVE  (IF Earlier(k) THEN Portion(k) ELSE Base) = RefOf(k)
<1>1. \A j \in Pay : row[j].st \in {"pending", "completed"} <=> j \in Used
  BY DEF OwnInv, NoneFailed, Used
<1>2. \A j \in Used : row[j].when \in Nat /\ row[j].when >= 1
  <2>1. Cardinality(Used) \in Nat
    BY PaysFinite DEF Used
  <2> QED BY <2>1 DEF OwnInv, Ranked
<1>3. CASE row[k].st = "none"
  BY <1>1, <1>3 DEF Earlier, Before, First, RefOf, Used
<1>4. CASE row[k].st # "none"
  <2>1. k \in Used /\ Used # {}
    BY <1>4 DEF Used
  <2>2. Earlier(k) <=> \E j \in Used \ {k} : row[j].when < row[k].when
    BY <1>1, <1>4 DEF Earlier, Before, Used
  <2>3. PICK i \in Used : row[i].when = 1
    BY <2>1 DEF OwnInv, Ranked
  <2>4. Earlier(k) <=> row[k].when # 1
    BY <1>2, <2>1, <2>2, <2>3
  <2> QED BY <1>4, <2>4 DEF First, RefOf
<1> QED BY <1>3, <1>4

\* Recorded rows keep their place.
LEMMA PlacesStay ==
    ASSUME OwnInv, \A k \in Pay : (row'[k].st = "none" <=> row[k].st = "none") /\ row'[k].when = row[k].when
    PROVE  Ranked' /\ Used' = Used /\ \A k \in Pay : RefOf(k)' = RefOf(k) /\ First(k)' = First(k)
<1>1. Used' = Used
  BY DEF Used
<1>2. \A k \in Pay : First(k)' = First(k)
  BY <1>1 DEF First
<1>3. Ranked'
  <2>1. \A k \in Used : row'[k].when = row[k].when
    BY DEF Used
  <2> QED BY <1>1, <2>1 DEF OwnInv, Ranked
<1> QED BY <1>1, <1>2, <1>3 DEF RefOf

\* A request moves on to x, and may open the intent of its own payment.
LEMMA OwnReqMoves ==
    ASSUME TypeOK, CaptureInv, OwnInv, NEW k \in Pay, NEW x, req' = [req EXCEPT ![k] = x], UNCHANGED <<row, sub>>,
           UNCHANGED mail, Recording(k)' => Recording(k) \/ \A j \in Pay : ~Recording(j),
           Owns(k) => Owns(k)', RequestRef(k)',
           \/ UNCHANGED intent
           \/ /\ Claims(k) /\ intent[RefOf(k)].st = "none" /\ Owns(k)'
              /\ \A r \in Ref : r # RefOf(k) => intent'[r] = intent[r]
              /\ Cash(k) => intent'[RefOf(k)].st = "settled" /\ intent'[RefOf(k)].got >= row[k].amt
    PROVE  OwnInv'
<1>1. req'[k] = x /\ \A j \in Pay : j # k => req'[j] = req[j]
  BY DEF CaptureInv, ReqsShaped
<1>2. Ranked' /\ \A j \in Pay : RefOf(j)' = RefOf(j) /\ RefOf(j) \in Ref
  BY PlacesStay, PortionsDiffer
<1>3. OneRecording'
  <2>1. \A j \in Pay : j # k => Recording(j)' = Recording(j)
    BY <1>1 DEF Recording, Digital
  <2> QED BY <2>1 DEF OwnInv, OneRecording
<1>4. NoneFailed'
  BY DEF OwnInv, NoneFailed, Offered, Used
<1>5. \A j \in Pay : intent[RefOf(j)].st # "none" => intent'[RefOf(j)] = intent[RefOf(j)]
  BY <1>2
<1>6. ASSUME NEW j \in Pay PROVE RequestRef(j)' /\ RowRef(j)'
  <2>1. RequestRef(j)'
    <3>1. CASE j # k
      <4>1. RequestRef(j) /\ req'[j] = req[j]
        BY <1>1, <3>1 DEF OwnInv
      <4> QED BY <1>2, <1>5, <4>1 DEF RequestRef, Digital, Cash
    <3> QED BY <3>1
  <2>2. RowRef(j)'
    <3>1. RowRef(j)
      BY DEF OwnInv
    <3>2. CASE intent'[RefOf(j)] = intent[RefOf(j)]
      BY <1>2, <3>1, <3>2 DEF RowRef, Cash
    <3>3. CASE intent'[RefOf(j)] # intent[RefOf(j)]
      <4>1. RefOf(j) = RefOf(k) /\ Claims(k)
        BY <1>2, <3>3
      <4>2. Cash(j) => j = k
        BY <4>1, RefUnique DEF Cash, Claims
      <4> QED BY <1>2, <1>5, <3>1, <3>3, <4>2 DEF RowRef, Cash
    <3> QED BY <3>2, <3>3
  <2> QED BY <2>1, <2>2
<1>7. Covered'
  <2>1. \A j \in Pay : Owns(j) => Owns(j)'
    BY <1>1 DEF Owns, Digital
  <2>2. ASSUME NEW r \in Ref, intent'[r].st # "none" PROVE \E j \in Pay : Owns(j)' /\ RefOf(j)' = r
    <3>1. CASE intent[r].st # "none"
      BY <1>2, <2>1, <3>1 DEF OwnInv, Covered
    <3>2. CASE intent[r].st = "none"
      BY <1>2, <2>2, <3>2
    <3> QED BY <3>1, <3>2
  <2> QED BY <2>2 DEF Covered
<1> QED BY <1>2, <1>3, <1>4, <1>6, <1>7 DEF OwnInv

LEMMA OwnBegin ==
    ASSUME TypeOK, CaptureInv, OwnInv, Steady, NEW k \in Pay, NEW kind, NEW ask, CreatePaymentIntent(k, kind, ask)
    PROVE  OwnInv'
<1> PICK x : x = [at |-> IF kind = "digital" THEN "choose" ELSE "insert", kind |-> kind,
                  amt |-> Lesser(ask, Outstanding), ref |-> NoRef]
  OBVIOUS
<1>1. req' = [req EXCEPT ![k] = x] /\ UNCHANGED <<row, sub>> /\ UNCHANGED mail /\ UNCHANGED intent /\ req'[k] = x
  BY DEF CreatePaymentIntent, CaptureInv, ReqsShaped
<1>2. row[k].st = "none" /\ ~Owns(k)
  BY DEF CreatePaymentIntent, CaptureInv, ReqOk, Owns
<1>3. \A j \in Pay : ~Recording(j)
  BY DEF CreatePaymentIntent, Steady, May
<1>4. RequestRef(k)'
  BY <1>1, <1>2 DEF RequestRef, Digital, Cash
<1> QED BY <1>1, <1>2, <1>3, <1>4, OwnReqMoves

LEMMA OwnReference ==
    ASSUME TypeOK, CaptureInv, OwnInv, Steady, NEW k \in Pay, IntentReference(k)
    PROVE  OwnInv'
<1>1. /\ req[k].at = "choose" /\ UNCHANGED <<row, sub>> /\ UNCHANGED mail /\ UNCHANGED intent
      /\ req' = [req EXCEPT ![k].at = "call", ![k].ref = RefOf(k)]
  BY EarlierRef DEF IntentReference, Steady, May, Mishap
<1> PICK x : x = [[req[k] EXCEPT !.at = "call"] EXCEPT !.ref = RefOf(k)]
  OBVIOUS
<1>2. req' = [req EXCEPT ![k] = x] /\ req'[k] = x
  BY <1>1 DEF CaptureInv, ReqsShaped
<1>3. IsReq(req[k]) /\ RequestRef(k)
  BY DEF CaptureInv, ReqsShaped, OwnInv
<1>4. x.at = "call" /\ x.kind = req[k].kind /\ x.amt = req[k].amt /\ x.ref = RefOf(k)
  BY <1>3 DEF IsReq
<1>5. RefOf(k)' = RefOf(k)
  BY <1>1, PlacesStay
<1>6. RequestRef(k)' /\ (Recording(k)' => Recording(k)) /\ (Owns(k) => Owns(k)')
  BY <1>1, <1>2, <1>3, <1>4, <1>5 DEF RequestRef, Digital, Cash, Recording, Owns
<1> QED BY <1>1, <1>2, <1>6, OwnReqMoves

\* A request that ends, or whose background work is lost.
LEMMA OwnEnds ==
    ASSUME TypeOK, CaptureInv, OwnInv, NEW k \in Pay, Ends(k), UNCHANGED <<row, sub>>, UNCHANGED mail, UNCHANGED intent,
           req[k].at # "insert"
    PROVE  OwnInv'
<1> PICK x : x = [req[k] EXCEPT !.at = "done"]
  OBVIOUS
<1>1. req' = [req EXCEPT ![k] = x] /\ req'[k] = x /\ x.at = "done" /\ x.kind = req[k].kind
  BY At DEF Ends, Goes, CaptureInv, ReqsShaped
<1>2. RequestRef(k)' /\ ~Recording(k)' /\ (Owns(k) => Owns(k)')
  BY <1>1 DEF RequestRef, Recording, Owns, Cash
<1> QED BY <1>1, <1>2, OwnReqMoves

LEMMA OwnCreate ==
    ASSUME TypeOK, CaptureInv, OwnInv, Steady, NEW k \in Pay, CreateIntent(k)
    PROVE  OwnInv'
<1>1. req[k].at = "call" /\ UNCHANGED <<row, sub>> /\ UNCHANGED mail /\ req[k].ref = RefOf(k) /\ RequestRef(k) /\ RowRef(k)
  BY DEF CreateIntent, OwnInv, RequestRef
<1>2. CASE Ends(k) /\ UNCHANGED intent
  BY <1>1, <1>2, OwnEnds
<1>3. ASSUME NEW at, Goes(k, at), intent' = [intent EXCEPT ![RefOf(k)] = IF @.st = "none" THEN Opened(k) ELSE @],
             (at = "insert" /\ Digital(k)) \/ (at \in {"backfill", "done"} /\ ~Digital(k))
      PROVE  OwnInv'
  <2> PICK x : x = [req[k] EXCEPT !.at = at]
    OBVIOUS
  <2>1. IsReq(req[k]) /\ req' = [req EXCEPT ![k] = x] /\ req'[k] = x
    BY <1>3, At DEF Goes, CaptureInv, ReqsShaped
  <2>2. x.at = at /\ x.kind = req[k].kind /\ x.amt = req[k].amt /\ x.ref = req[k].ref
    BY <2>1 DEF IsReq
  <2>3. Claims(k)
    BY <1>1, <1>3 DEF RequestRef, Claims, Recording
  <2>4. Owns(k)' /\ (Recording(k)' => Recording(k))
    BY <1>1, <1>3, <2>1, <2>2, <2>3 DEF Owns, Claims, Recording, Digital
  <2>5. RefOf(k)' = RefOf(k) /\ RefOf(k) \in Ref
    BY <1>1, PlacesStay, PortionsDiffer
  <2>6. \A r \in Ref : r # RefOf(k) => intent'[r] = intent[r]
    BY <1>3, <2>5 DEF CaptureInv, IntentsShaped
  <2>7. intent'[RefOf(k)] = IF intent[RefOf(k)].st = "none" THEN Opened(k) ELSE intent[RefOf(k)]
    BY <1>3, <2>5 DEF CaptureInv, IntentsShaped
  <2>8. Opened(k).st # "none" /\ (Cash(k) => Opened(k).st = "settled" /\ Opened(k).got >= row[k].amt)
    <3>1. Cash(k) => ~Digital(k) /\ req[k].amt >= row[k].amt
      BY <1>1 DEF RequestRef, Cash, Digital, CaptureInv, ReqOk
    <3> QED BY <3>1 DEF Opened
  <2>9. RequestRef(k)'
    <3>1. intent'[RefOf(k)].st # "none"
      BY <2>7, <2>8
    <3> QED BY <1>1, <1>3, <2>1, <2>2, <2>3, <2>5, <3>1 DEF RequestRef, Digital, Cash, Claims
  <2>10. CASE intent[RefOf(k)].st = "none"
    BY <1>1, <2>1, <2>3, <2>4, <2>6, <2>7, <2>8, <2>9, <2>10, OwnReqMoves
  <2>11. CASE intent[RefOf(k)].st # "none"
    <3>1. UNCHANGED intent
      BY <1>3, <2>11 DEF CaptureInv, IntentsShaped
    <3> QED BY <1>1, <2>1, <2>4, <2>9, <3>1, OwnReqMoves
  <2> QED BY <2>10, <2>11
<1>4. \/ Ends(k) /\ UNCHANGED intent
      \/ /\ intent' = [intent EXCEPT ![RefOf(k)] = IF @.st = "none" THEN Opened(k) ELSE @]
         /\ Goes(k, IF Digital(k) THEN "insert" ELSE "backfill") \/ (~Digital(k) /\ Goes(k, "done"))
  BY <1>1 DEF CreateIntent, Ends, Steady, May, Mishap
<1>5. CASE Digital(k)
  <2>1. CASE Goes(k, IF Digital(k) THEN "insert" ELSE "backfill")
    <3>1. Goes(k, "insert")
      BY <1>5, <2>1
    <3> QED BY <1>2, <1>3, <1>4, <1>5, <3>1
  <2> QED BY <1>2, <1>4, <1>5, <2>1
<1>6. CASE ~Digital(k)
  <2>1. CASE Goes(k, IF Digital(k) THEN "insert" ELSE "backfill")
    <3>1. Goes(k, "backfill")
      BY <1>6, <2>1
    <3> QED BY <1>2, <1>3, <1>4, <1>6, <3>1
  <2> QED BY <1>2, <1>3, <1>4, <1>6, <2>1
<1> QED BY <1>5, <1>6

LEMMA OwnRetry ==
    ASSUME TypeOK, CaptureInv, OwnInv, NEW k \in Pay, RetryIntent(k)
    PROVE  OwnInv'
<1>1. /\ UNCHANGED <<row, sub>> /\ UNCHANGED mail /\ UNCHANGED intent /\ row[k].st = "completed"
      /\ row[k].kind # "digital" /\ req[k].kind # "digital"
  BY DEF RetryIntent, Candidate, Lacking, CaptureInv, ReqOk
<1> PICK x : x = [[req[k] EXCEPT !.at = "choose"] EXCEPT !.amt = row[k].amt]
  OBVIOUS
<1>2. req' = [req EXCEPT ![k] = x] /\ req'[k] = x /\ IsReq(req[k])
  BY DEF RetryIntent, CaptureInv, ReqsShaped
<1>3. x.at = "choose" /\ x.kind = req[k].kind /\ x.amt = row[k].amt /\ row[k].amt \in Nat
  BY <1>2 DEF IsReq, TypeOK
<1>4. ~Digital(k)' /\ ~Recording(k)' /\ Owns(k)'
  BY <1>1, <1>2, <1>3 DEF Digital, Recording, Owns
<1>5. row'[k].amt \in Nat /\ req'[k].at = "choose" /\ req'[k].amt = row'[k].amt /\ row'[k].st = "completed"
  BY <1>1, <1>2, <1>3
<1>6. RequestRef(k)'
  BY <1>1, <1>4, <1>5 DEF RequestRef
<1> QED BY <1>1, <1>2, <1>4, <1>6, OwnReqMoves

LEMMA UsedStay ==
    ASSUME \A j \in Pay : row[j].st # "none" => row'[j].st # "none" /\ row'[j].kind = row[j].kind
                                                /\ (row[j].kind = "digital" => row'[j].ref = row[j].ref)
    PROVE  \A r : Offered(r) => Offered(r)'
BY DEF Offered, Used

\* The row of the one request that records is inserted as v, and the request goes on to x.
LEMMA OwnInserted ==
    ASSUME TypeOK, CaptureInv, OwnInv, NEW k \in Pay, NEW status \in {"pending", "completed"}, NEW amount \in Nat, NEW ref,
           NEW at \in {"choose", "done"}, Insert(k, status, amount, ref), Goes(k, at), row[k].st = "none", Recording(k),
           UNCHANGED <<intent, sub>>, UNCHANGED mail, amount <= req[k].amt,
           Digital(k) => req[k].at = "insert" /\ ref = req[k].ref /\ at = "done",
           ~Digital(k) => ref \notin Ref
    PROVE  OwnInv'
<1> PICK v, x : /\ v = [st |-> status, kind |-> req[k].kind, amt |-> amount, ref |-> ref, when |-> Cardinality(Used) + 1]
                /\ x = [req[k] EXCEPT !.at = at]
  OBVIOUS
<1>1. row'[k] = v /\ \A j \in Pay : j # k => row'[j] = row[j]
  BY DEF Insert, CaptureInv, RowsShaped
<1>2. req' = [req EXCEPT ![k] = x] /\ IsReq(req[k])
  BY At DEF Goes, CaptureInv, ReqsShaped
<1>3. req'[k] = x /\ \A j \in Pay : j # k => req'[j] = req[j]
  BY <1>2 DEF CaptureInv, ReqsShaped
<1>4. x.at = at /\ x.kind = req[k].kind /\ x.amt = req[k].amt
  BY <1>2 DEF IsReq
<1>5. v.st = status /\ v.kind = req[k].kind /\ v.amt = amount /\ v.ref = ref /\ v.when = Cardinality(Used) + 1
  OBVIOUS
<1>6. /\ k \notin Used /\ Used' = Used \cup {k} /\ Cardinality(Used) \in Nat
      /\ Cardinality(Used') = Cardinality(Used) + 1 /\ (Used = {} => Cardinality(Used) = 0)
  <2>1. k \notin Used /\ Used' = Used \cup {k} /\ Used \in SUBSET Pay
    BY <1>1, <1>5 DEF Used
  <2> QED BY <2>1, PaysFinite, FS_AddElement, FS_EmptySet
<1>7. Ranked'
  <2>1. \A j \in Used : row'[j].when = row[j].when /\ row[j].when \in 1..Cardinality(Used)
    BY <1>1, <1>6 DEF OwnInv, Ranked, Used
  <2>2. row'[k].when = Cardinality(Used) + 1
    BY <1>1, <1>5
  <2>3. \A j \in Used' : row'[j].when \in 1..Cardinality(Used')
    BY <1>6, <2>1, <2>2
  <2>4. \A i, j \in Used' : row'[i].when = row'[j].when => i = j
    BY <1>6, <2>1, <2>2 DEF OwnInv, Ranked
  <2>5. \E j \in Used' : row'[j].when = 1
    <3>1. CASE Used = {}
      BY <1>6, <2>2, <3>1
    <3>2. CASE Used # {}
      BY <1>6, <2>1, <3>2 DEF OwnInv, Ranked
    <3> QED BY <3>1, <3>2
  <2> QED BY <2>3, <2>4, <2>5 DEF Ranked
<1>8. /\ \A j \in Pay : row[j].st # "none" => row'[j] = row[j] /\ RefOf(j)' = RefOf(j)
      /\ RefOf(k)' = RefOf(k)
  <2>1. \A j \in Pay : row[j].st # "none" => row'[j] = row[j] /\ First(j)' = First(j)
    BY <1>1 DEF First
  <2>2. First(k)' = First(k)
    <3>1. Used # {} => Cardinality(Used) # 0
      BY <1>6, PaysFinite, FS_EmptySet DEF Used
    <3>2. row'[k].st # "none" /\ row'[k].when = Cardinality(Used) + 1
      BY <1>1, <1>5
    <3> QED BY <1>6, <3>1, <3>2 DEF First
  <2> QED BY <2>1, <2>2 DEF RefOf
<1>9. OneRecording' /\ \A j \in Pay : j # k => ~Recording(j) /\ ~Recording(j)'
  <2>1. \A j \in Pay : j # k => ~Recording(j) /\ ~Recording(j)'
    BY <1>3 DEF OwnInv, OneRecording, Recording, Digital
  <2>2. ~Recording(k)'
    BY <1>3, <1>4 DEF Recording, Digital
  <2> QED BY <2>1, <2>2 DEF OneRecording
<1>10. NoneFailed'
  <2>1. \A r : Offered(r) => Offered(r)'
    BY <1>1, UsedStay
  <2> QED BY <1>1, <1>5, <1>6, <2>1 DEF OwnInv, NoneFailed, Used
<1>11. RequestRef(k)'
  <2>1. req'[k].amt \in Nat /\ row'[k].amt \in Nat /\ req'[k].amt >= row'[k].amt
    BY <1>1, <1>3, <1>4, <1>5 DEF TypeOK
  <2>2. row'[k].st # "none" /\ req'[k].at = at /\ req'[k].kind = req[k].kind
    BY <1>1, <1>3, <1>4, <1>5
  <2> QED BY <2>1, <2>2 DEF RequestRef, Digital
<1>12. RowRef(k)'
  <2>1. CASE Digital(k)
    <3>1. ref = RefOf(k) /\ intent[RefOf(k)].st # "none"
      BY <2>1 DEF OwnInv, RequestRef
    <3>2. row'[k].kind = "digital" /\ row'[k].ref = ref
      BY <1>1, <1>5, <2>1 DEF Digital
    <3> QED BY <1>8, <3>1, <3>2 DEF RowRef, Cash
  <2>2. CASE ~Digital(k)
    <3>1. intent[RefOf(k)].st = "none"
      <4>1. SUFFICES ASSUME intent[RefOf(k)].st # "none" PROVE FALSE
        OBVIOUS
      <4>2. PICK j \in Pay : Owns(j) /\ RefOf(j) = RefOf(k)
        BY <4>1, PortionsDiffer DEF OwnInv, Covered
      <4>3. row[j].st # "none"
        BY <1>9, <2>2, <4>2 DEF Owns, Recording
      <4>4. j # k /\ Used # {}
        BY <4>3 DEF Used
      <4>5. ~First(k) /\ RefOf(k) = Portion(k)
        BY <4>4 DEF First, RefOf
      <4> QED BY <4>2, <4>4, <4>5, PortionsDiffer DEF RefOf
    <3>2. row'[k].ref \notin Ref
      BY <1>1, <1>5, <2>2
    <3> QED BY <1>8, <3>1, <3>2 DEF RowRef
  <2> QED BY <2>1, <2>2
<1>13. ASSUME NEW j \in Pay, j # k PROVE RequestRef(j)' /\ RowRef(j)'
  <2>1. row'[j] = row[j] /\ req'[j] = req[j] /\ RequestRef(j) /\ RowRef(j)
    BY <1>1, <1>3, <1>13 DEF OwnInv
  <2>2. CASE row[j].st # "none"
    <3>1. RefOf(j)' = RefOf(j)
      BY <1>8, <2>2
    <3> QED BY <2>1, <3>1 DEF RequestRef, RowRef, Digital, Cash
  <2>3. CASE row[j].st = "none"
    <3>1. Digital(j) => req[j].at \notin {"choose", "call", "insert", "backfill"}
      BY <1>9, <1>13, <2>3 DEF Recording, CaptureInv, ReqOk, Digital
    <3>2. req[j].at \notin {"call", "backfill"} /\ ~(Digital(j) /\ req[j].at = "insert")
      BY <2>1, <2>3, <3>1 DEF RequestRef
    <3> QED BY <2>1, <2>3, <3>2 DEF RequestRef, RowRef, Digital, Cash
  <2> QED BY <2>2, <2>3
<1>14. Covered'
  <2>1. ASSUME NEW j \in Pay, Owns(j) PROVE Owns(j)' /\ RefOf(j)' = RefOf(j)
    <3>1. CASE j = k
      BY <1>1, <1>5, <1>8, <3>1 DEF Owns
    <3>2. CASE j # k
      <4>1. row[j].st # "none"
        BY <1>9, <2>1, <3>2 DEF Owns, Recording
      <4> QED BY <1>8, <4>1 DEF Owns
    <3> QED BY <3>1, <3>2
  <2> QED BY <2>1 DEF OwnInv, Covered
<1> QED BY <1>7, <1>9, <1>10, <1>11, <1>12, <1>13, <1>14 DEF OwnInv

LEMMA OwnRecord ==
    ASSUME TypeOK, CaptureInv, OwnInv, Steady, NEW k \in Pay, RecordCash(k) \/ RecordPending(k)
    PROVE  OwnInv'
<1>1. /\ UNCHANGED <<intent, sub>> /\ UNCHANGED mail /\ req[k].at = "insert" /\ row[k].st = "none" /\ Recording(k)
      /\ req[k].amt \in Nat /\ ~Mishap("db") /\ ~Mishap("lost")
  BY DEF RecordCash, RecordPending, Recording, Digital, CaptureInv, ReqOk, TypeOK, Steady, May, Mishap
<1>2. CASE RecordCash(k)
  <2>1. CASE FullyPaid /\ Ends(k) /\ UNCHANGED row
    <3> PICK x : x = [req[k] EXCEPT !.at = "done"]
      OBVIOUS
    <3>1. req' = [req EXCEPT ![k] = x] /\ req'[k] = x /\ x.at = "done" /\ x.kind = req[k].kind
      BY <2>1, At DEF Ends, Goes, CaptureInv, ReqsShaped
    <3>2. RequestRef(k)' /\ ~Recording(k)' /\ ~Owns(k)
      BY <1>1, <1>2, <3>1 DEF RequestRef, Recording, Owns, Cash, RecordCash
    <3> QED BY <1>1, <2>1, <3>1, <3>2, OwnReqMoves
  <2>2. ASSUME ~FullyPaid, NEW ref \in {Keyed, NoRef}, Goes(k, "choose"),
               Insert(k, "completed", Lesser(req[k].amt, Outstanding), ref)
        PROVE  OwnInv'
    <3>1. Outstanding \in Int
      BY CollectedNumber DEF TypeOK, RowSet
    <3> PICK amount : amount = Lesser(req[k].amt, Outstanding)
      OBVIOUS
    <3>2. amount \in Nat /\ amount <= req[k].amt
      BY <1>1, <2>2, <3>1, LesserNumber DEF FullyPaid
    <3>3. ref \notin Ref /\ ~Digital(k)
      BY <1>2 DEF Keyed, NoRef, Ref, Base, Portion, RecordCash
    <3>4. Insert(k, "completed", amount, ref)
      BY <2>2
    <3> QED BY <1>1, <2>2, <3>2, <3>3, <3>4, OwnInserted
  <2>3. CASE /\ ~FullyPaid /\ Goes(k, "choose")
             /\ Insert(k, "completed", Lesser(req[k].amt, Outstanding), IF req[k].kind = "keyed" THEN Keyed ELSE NoRef)
    BY <2>2, <2>3
  <2> QED BY <1>1, <1>2, <2>1, <2>3 DEF RecordCash
<1>3. CASE RecordPending(k)
  <2>1. Insert(k, "pending", req[k].amt, req[k].ref) /\ Goes(k, "done") /\ Digital(k)
    BY <1>1, <1>3 DEF RecordPending, Ends
  <2>2. req[k].amt <= req[k].amt
    BY <1>1
  <2> PICK amount, ref : amount = req[k].amt /\ ref = req[k].ref
    OBVIOUS
  <2> QED BY <1>1, <2>1, <2>2, OwnInserted
<1> QED BY <1>2, <1>3

LEMMA OwnBackfill ==
    ASSUME TypeOK, CaptureInv, OwnInv, Steady, NEW k \in Pay, Backfill(k)
    PROVE  OwnInv'
<1>1. /\ UNCHANGED <<intent, sub>> /\ UNCHANGED mail /\ Ends(k) /\ req[k].at = "backfill" /\ ~Digital(k)
      /\ row' = [row EXCEPT ![k].ref = IF @ = NoRef THEN req[k].ref ELSE @] /\ IsRow(row[k]) /\ RequestRef(k) /\ RowRef(k)
  BY DEF Backfill, Digital, CaptureInv, ReqOk, RowsShaped, Steady, May, Mishap, OwnInv
<1>2. row[k].st # "none" /\ row[k].kind # "digital" /\ intent[RefOf(k)].st # "none" /\ req[k].ref = RefOf(k)
  BY <1>1 DEF RequestRef, CaptureInv, ReqOk, Digital
<1>3. /\ \A j \in Pay : j # k => row'[j] = row[j]
      /\ row'[k].st = row[k].st /\ row'[k].kind = row[k].kind /\ row'[k].amt = row[k].amt /\ row'[k].when = row[k].when
      /\ row'[k].ref = row[k].ref \/ row'[k].ref = RefOf(k)
  BY <1>1, <1>2 DEF CaptureInv, RowsShaped, IsRow
<1> PICK x : x = [req[k] EXCEPT !.at = "done"]
  OBVIOUS
<1>4. req'[k] = x /\ x.at = "done" /\ x.kind = req[k].kind /\ \A j \in Pay : j # k => req'[j] = req[j]
  BY <1>1, At DEF Ends, Goes, CaptureInv, ReqsShaped
<1>5. Ranked' /\ Used' = Used /\ \A j \in Pay : RefOf(j)' = RefOf(j)
  BY <1>3, PlacesStay
<1>6. OneRecording'
  BY <1>4 DEF OwnInv, OneRecording, Recording, Digital
<1>7. NoneFailed'
  <2>1. \A r : Offered(r) => Offered(r)'
    BY <1>2, <1>3, UsedStay
  <2>2. \A j \in Pay : row'[j].st = row[j].st
    BY <1>3
  <2> QED BY <1>1, <1>5, <2>1, <2>2 DEF OwnInv, NoneFailed, Used
<1>8. RequestRef(k)' /\ RowRef(k)'
  <2>1. RequestRef(k)'
    BY <1>4 DEF RequestRef, Digital
  <2>2. RowRef(k)'
    BY <1>1, <1>2, <1>3, <1>5 DEF RowRef, Cash
  <2> QED BY <2>1, <2>2
<1>9. ASSUME NEW j \in Pay, j # k PROVE RequestRef(j)' /\ RowRef(j)'
  <2>1. row'[j] = row[j] /\ req'[j] = req[j] /\ RefOf(j)' = RefOf(j) /\ RequestRef(j) /\ RowRef(j)
    BY <1>3, <1>4, <1>5, <1>9 DEF OwnInv
  <2> QED BY <1>1, <2>1 DEF RequestRef, RowRef, Digital, Cash
<1>10. Covered'
  <2>1. ASSUME NEW j \in Pay, Owns(j) PROVE Owns(j)'
    BY <1>1, <1>2, <1>3, <1>4, <2>1 DEF Owns, Digital
  <2> QED BY <1>1, <1>5, <2>1 DEF OwnInv, Covered
<1> QED BY <1>5, <1>6, <1>7, <1>8, <1>9, <1>10 DEF OwnInv

\* A reference that a digital payment carries is no cash payment's.
LEMMA OfferedDigital ==
    ASSUME OwnInv, NEW r \in Ref, Offered(r), NEW j \in Pay, RefOf(j) = r
    PROVE  ~Cash(j)
<1>1. PICK d \in Pay : row[d].st # "none" /\ row[d].kind = "digital" /\ row[d].ref = r
  BY DEF Offered, Used
<1>2. RefOf(d) = r /\ Claims(d)
  BY <1>1 DEF OwnInv, RowRef, Claims
<1>3. SUFFICES ASSUME Cash(j) PROVE FALSE
  OBVIOUS
<1>4. j = d
  BY <1>2, <1>3, RefUnique DEF Cash, Claims
<1> QED BY <1>1, <1>3, <1>4 DEF Cash

LEMMA OwnCapture ==
    ASSUME TypeOK, CaptureInv, OwnInv, Steady, NEW r \in Ref, Customer(r)
    PROVE  OwnInv'
<1>1. PICK a : Capture(r, a)
  BY DEF Customer, Decline, Steady, May
<1>2. UNCHANGED <<row, req, sub>> /\ Offered(r) /\ intent[r].st # "none" /\ mail' = mail \cup {<<"succeeded", r>>}
  BY <1>1 DEF Capture
<1>3. intent'[r].st # "none" /\ \A q \in Ref : q # r => intent'[q] = intent[q]
  <2>1. intent[r] \in IntentSet
    BY DEF TypeOK, IntentSet
  <2> QED BY <1>1, <2>1 DEF Capture, CaptureInv, IntentsShaped, IntentSet
<1>4. Ranked' /\ Used' = Used /\ (\A j \in Pay : RefOf(j)' = RefOf(j) /\ RefOf(j) \in Ref) /\ \A q : Offered(q)' = Offered(q)
  BY <1>2, PlacesStay, PortionsDiffer DEF Offered
<1>5. OneRecording' /\ NoneFailed'
  <2>1. OneRecording'
    BY <1>2 DEF OwnInv, OneRecording, Recording, Digital
  <2>2. NoneFailed'
    BY <1>2, <1>4 DEF OwnInv, NoneFailed
  <2> QED BY <2>1, <2>2
<1>6. ASSUME NEW j \in Pay PROVE RequestRef(j)' /\ RowRef(j)'
  <2>1. RequestRef(j) /\ RowRef(j)
    BY DEF OwnInv
  <2>2. RequestRef(j)'
    BY <1>2, <1>3, <1>4, <2>1 DEF RequestRef, Digital, Cash
  <2>3. RowRef(j)'
    <3>1. CASE RefOf(j) # r
      BY <1>2, <1>3, <1>4, <2>1, <3>1 DEF RowRef, Cash
    <3>2. CASE RefOf(j) = r
      <4>1. ~Cash(j)
        BY <1>2, <3>2, OfferedDigital
      <4> QED BY <1>2, <1>3, <1>4, <2>1, <3>2, <4>1 DEF RowRef, Cash
    <3> QED BY <3>1, <3>2
  <2> QED BY <2>2, <2>3
<1>7. Covered'
  <2>1. \A j \in Pay : Owns(j)' = Owns(j)
    BY <1>2 DEF Owns, Digital
  <2>2. \A q \in Ref : intent'[q].st # "none" => intent[q].st # "none"
    BY <1>2, <1>3
  <2> QED BY <1>4, <2>1, <2>2 DEF OwnInv, Covered
<1> QED BY <1>4, <1>5, <1>6, <1>7 DEF OwnInv

\* A handler takes, gives back or works off an event; a row it completes keeps its place.
LEMMA OwnHandled ==
    ASSUME TypeOK, CaptureInv, OwnInv, UNCHANGED <<req, intent>>, NEW k \in Pay,
           \A j \in Pay : j # k => row'[j] = row[j],
           \/ row'[k] = row[k]
           \/ /\ row[k].kind = "digital" /\ row[k].st # "none" /\ row'[k].st = "completed"
              /\ row'[k].kind = row[k].kind /\ row'[k].ref = row[k].ref /\ row'[k].when = row[k].when,
           \A e \in mail' : e[1] = "succeeded" /\ Offered(e[2]),
           \A s \in Sub : sub'[s] # Waiting => sub'[s].ev = "succeeded" /\ Offered(sub'[s].ref)
    PROVE  OwnInv'
<1>1. \A j \in Pay : (row'[j].st = "none" <=> row[j].st = "none") /\ row'[j].when = row[j].when
                     /\ row'[j].kind = row[j].kind /\ row'[j].ref = row[j].ref
  OBVIOUS
<1>2. Ranked' /\ Used' = Used /\ (\A j \in Pay : RefOf(j)' = RefOf(j))
  BY <1>1, PlacesStay
<1>3. \A r : Offered(r) => Offered(r)'
  BY <1>1, UsedStay
<1>4. OneRecording'
  BY DEF OwnInv, OneRecording, Recording, Digital
<1>5. NoneFailed'
  <2>1. \A j \in Pay : row'[j].st = row[j].st \/ row'[j].st = "completed"
    OBVIOUS
  <2> QED BY <1>2, <1>3, <2>1 DEF OwnInv, NoneFailed, Used
<1>6. ASSUME NEW j \in Pay PROVE RequestRef(j)' /\ RowRef(j)'
  <2>1. RequestRef(j) /\ RowRef(j) /\ (Cash(j) => row'[j] = row[j]) /\ Cash(j)' = Cash(j)
    BY <1>1 DEF OwnInv, Cash
  <2>2. RequestRef(j)'
    BY <1>1, <1>2, <2>1 DEF RequestRef, Digital
  <2>3. RowRef(j)'
    BY <1>1, <1>2, <2>1 DEF RowRef
  <2> QED BY <2>2, <2>3
<1>7. Covered'
  BY <1>1, <1>2 DEF OwnInv, Covered, Owns, Digital
<1> QED BY <1>2, <1>4, <1>5, <1>6, <1>7 DEF OwnInv

LEMMA OwnHandle ==
    ASSUME TypeOK, CaptureInv, OwnInv, Steady, NEW s \in Sub, Handle(s) \/ CrashHandler(s)
    PROVE  OwnInv'
<1>1. UNCHANGED <<req, intent>> /\ ~Mishap("db") /\ NoneFailed
  BY DEF Handle, Load, Write, CrashHandler, Steady, May, Mishap, OwnInv
<1>2. ASSUME NEW u, sub' = [sub EXCEPT ![s] = u], u # Waiting => u.ev = "succeeded" /\ Offered(u.ref)
      PROVE  \A t \in Sub : sub'[t] # Waiting => sub'[t].ev = "succeeded" /\ Offered(sub'[t].ref)
  BY <1>1, <1>2 DEF NoneFailed, CaptureInv, SubsShaped
<1>3. ASSUME UNCHANGED row, \A e \in mail' : e[1] = "succeeded" /\ Offered(e[2]),
             \A t \in Sub : sub'[t] # Waiting => sub'[t].ev = "succeeded" /\ Offered(sub'[t].ref)
      PROVE  OwnInv'
  <2>1. CASE Pay = {}
    BY <1>1, <1>3, <2>1 DEF OwnInv, Ranked, OneRecording, NoneFailed, Covered, Used, Offered
  <2>2. CASE Pay # {}
    <3> PICK k \in Pay : TRUE
      BY <2>2
    <3> QED BY <1>1, <1>3, OwnHandled
  <2> QED BY <2>1, <2>2
<1>4. ASSUME NEW e \in mail, Load(s, e) PROVE OwnInv'
  <2>1. UNCHANGED row /\ mail' \subseteq mail /\ e[1] = "succeeded" /\ Offered(e[2])
    BY <1>1, <1>4 DEF Load, NoneFailed
  <2>2. \A m \in mail' : m[1] = "succeeded" /\ Offered(m[2])
    BY <1>1, <2>1 DEF NoneFailed
  <2>3. CASE UNCHANGED sub
    BY <1>1, <1>3, <2>1, <2>2, <2>3 DEF NoneFailed
  <2>4. ASSUME NEW todo, sub' = [sub EXCEPT ![s] = [ev |-> e[1], ref |-> e[2], todo |-> todo]] PROVE OwnInv'
    <3> PICK u : u = [ev |-> e[1], ref |-> e[2], todo |-> todo]
      OBVIOUS
    <3>1. \A t \in Sub : sub'[t] # Waiting => sub'[t].ev = "succeeded" /\ Offered(sub'[t].ref)
      BY <1>2, <2>1, <2>4
    <3> QED BY <1>3, <2>1, <2>2, <3>1
  <2> QED BY <1>4, <2>3, <2>4 DEF Load
<1>5. CASE Write(s)
  <2>1. UNCHANGED mail /\ sub[s] # Waiting /\ sub[s].ev = "succeeded" /\ Offered(sub[s].ref) /\ IsSub(sub[s]) /\ sub[s].ref \in Ref
    BY <1>1, <1>5 DEF Write, NoneFailed, CaptureInv, SubsShaped, SubOk
  <2>2. PICK k \in sub[s].todo :
            /\ row' = [row EXCEPT ![k].st = "completed", ![k].amt = intent[sub[s].ref].got]
            /\ sub' = [sub EXCEPT ![s] = IF sub[s].todo = {k} THEN Waiting ELSE [@ EXCEPT !.todo = sub[s].todo \ {k}]]
    BY <1>1, <1>5, <2>1 DEF Write, Rest
  <2>3. k \in Pay /\ row[k].st # "none" /\ row[k].ref = sub[s].ref /\ IsRow(row[k])
    BY <2>2 DEF CaptureInv, SubOk, RowsShaped
  <2>4. row[k].kind = "digital"
    <3>1. RefOf(k) = sub[s].ref
      BY <2>1, <2>3 DEF OwnInv, RowRef
    <3> QED BY <2>1, <2>3, <3>1, OfferedDigital DEF Cash
  <2>5. /\ row'[k].st = "completed" /\ row'[k].kind = row[k].kind /\ row'[k].ref = row[k].ref /\ row'[k].when = row[k].when
        /\ \A j \in Pay : j # k => row'[j] = row[j]
    BY <2>2, <2>3 DEF CaptureInv, RowsShaped, IsRow
  <2> PICK u : u = IF sub[s].todo = {k} THEN Waiting ELSE [sub[s] EXCEPT !.todo = sub[s].todo \ {k}]
    OBVIOUS
  <2>6. sub' = [sub EXCEPT ![s] = u] /\ (u # Waiting => u.ev = "succeeded" /\ u.ref = sub[s].ref)
    BY <2>1, <2>2 DEF CaptureInv, SubsShaped, IsSub
  <2>7. \A t \in Sub : sub'[t] # Waiting => sub'[t].ev = "succeeded" /\ Offered(sub'[t].ref)
    BY <1>2, <2>1, <2>6
  <2>8. \A e \in mail' : e[1] = "succeeded" /\ Offered(e[2])
    BY <1>1, <2>1 DEF NoneFailed
  <2> QED BY <1>1, <2>3, <2>4, <2>5, <2>7, <2>8, OwnHandled
<1>6. CASE CrashHandler(s)
  <2> PICK u : u = Waiting
    OBVIOUS
  <2>1. UNCHANGED row /\ sub' = [sub EXCEPT ![s] = u] /\ mail' = mail \cup {<<sub[s].ev, sub[s].ref>>} /\ sub[s] # Waiting
    BY <1>6 DEF CrashHandler
  <2>2. \A e \in mail' : e[1] = "succeeded" /\ Offered(e[2])
    BY <1>1, <2>1 DEF NoneFailed
  <2>3. \A t \in Sub : sub'[t] # Waiting => sub'[t].ev = "succeeded" /\ Offered(sub'[t].ref)
    BY <1>2, <2>1
  <2> QED BY <1>3, <2>1, <2>2, <2>3
<1> QED BY <1>4, <1>5, <1>6 DEF Handle

LEMMA OwnStart == Init => OwnInv
<1> SUFFICES ASSUME Init PROVE OwnInv
  OBVIOUS
<1>1. Used = {}
  BY DEF Init, Used, NoRow
<1>2. \A k \in Pay : ~Recording(k) /\ row[k].st = "none" /\ req[k].at = "new"
  BY DEF Init, NoRow, NoReq, Recording
<1>3. Ranked /\ OneRecording /\ NoneFailed
  BY <1>1, <1>2 DEF Ranked, OneRecording, NoneFailed, Init
<1>4. \A k \in Pay : RequestRef(k) /\ RowRef(k)
  BY <1>2 DEF RequestRef, RowRef, Cash
<1>5. Covered
  BY DEF Covered, Init, NoIntent
<1> QED BY <1>3, <1>4, <1>5 DEF OwnInv

LEMMA OwnInductive == TypeOK /\ CaptureInv /\ (Steady => OwnInv) /\ [Next]_vars => (Steady => OwnInv)'
<1> SUFFICES ASSUME TypeOK, CaptureInv, Steady => OwnInv, [Next]_vars, Steady' PROVE OwnInv'
  OBVIOUS
<1>1. CASE UNCHANGED vars
  <2>1. OwnInv
    BY <1>1 DEF vars, Steady
  <2>2. UNCHANGED <<row, req, intent, mail, sub>>
    BY <1>1 DEF vars
  <2>3. Ranked' /\ \A k \in Pay : RefOf(k)' = RefOf(k)
    BY <2>1, <2>2, PlacesStay
  <2>4. OneRecording' /\ NoneFailed'
    BY <2>1, <2>2 DEF OwnInv, OneRecording, Recording, Digital, NoneFailed, Offered, Used
  <2>5. \A k \in Pay : RequestRef(k)' /\ RowRef(k)' /\ Owns(k)' = Owns(k)
    BY <2>1, <2>2, <2>3 DEF OwnInv, RequestRef, RowRef, Digital, Cash, Owns
  <2>6. Covered'
    BY <2>1, <2>2, <2>3, <2>5 DEF OwnInv, Covered
  <2> QED BY <2>3, <2>4, <2>5, <2>6 DEF OwnInv
<1>2. CASE Next
  <2>1. UNCHANGED scene
    BY <1>2 DEF Next, Till, Serve, CreatePaymentIntent, VoidPayment, RecordCash, RecordPending, IntentReference,
                CreateIntent, Backfill, RetryIntent, CrashDispatch, Customer, Capture, Decline, Handle, Load, Write, CrashHandler
  <2>2. Steady /\ OwnInv
    BY <2>1 DEF Steady
  <2>3. ASSUME NEW k \in Pay, Till(k) PROVE OwnInv'
    <3>1. ~VoidPayment(k)
      BY <2>2 DEF VoidPayment, Steady, May
    <3> QED BY <2>2, <2>3, <3>1, OwnBegin DEF Till
  <2>4. ASSUME NEW k \in Pay, Serve(k) PROVE OwnInv'
    BY <2>2, <2>4, OwnRecord, OwnReference, OwnCreate, OwnBackfill DEF Serve
  <2>5. ASSUME NEW k \in Pay, RetryIntent(k) PROVE OwnInv'
    BY <2>2, <2>5, OwnRetry
  <2>6. ASSUME NEW k \in Pay, CrashDispatch(k) PROVE OwnInv'
    <3>1. Ends(k) /\ UNCHANGED <<row, sub>> /\ UNCHANGED mail /\ UNCHANGED intent /\ req[k].at # "insert"
      BY <2>6 DEF CrashDispatch
    <3> QED BY <2>2, <3>1, OwnEnds
  <2>7. ASSUME NEW r \in Ref, Customer(r) PROVE OwnInv'
    BY <2>2, <2>7, OwnCapture
  <2>8. ASSUME NEW s \in Sub, Handle(s) \/ CrashHandler(s) PROVE OwnInv'
    BY <2>2, <2>8, OwnHandle
  <2> QED BY <1>2, <2>3, <2>4, <2>5, <2>6, <2>7, <2>8 DEF Next
<1> QED BY <1>1, <1>2

LEMMA OwnFollows == TypeOK /\ CaptureInv /\ (Steady => OwnInv) => OwnIntent
<1> SUFFICES ASSUME TypeOK, CaptureInv, OwnInv, NEW k \in Completed, row[k].ref \in Ref
             PROVE  /\ intent[row[k].ref].got >= row[k].amt
                    /\ \A j \in Used \ {k} : row[j].ref # row[k].ref
  BY DEF OwnIntent
<1>1. k \in Pay /\ row[k].st = "completed" /\ RefOf(k) = row[k].ref /\ intent[RefOf(k)].st # "none" /\ RowRef(k) /\ RowOk(row[k])
  BY DEF Completed, OwnInv, RowRef, CaptureInv
<1>2. intent[row[k].ref].got >= row[k].amt
  <2>1. CASE row[k].kind = "digital"
    <3>1. row[k].amt = intent[row[k].ref].got /\ row[k].amt \in Nat
      BY <1>1, <2>1 DEF RowOk, TypeOK
    <3> QED BY <3>1
  <2>2. CASE row[k].kind # "digital"
    BY <1>1, <2>2 DEF RowRef, Cash
  <2> QED BY <2>1, <2>2
<1>3. ASSUME NEW j \in Used, row[j].ref = row[k].ref PROVE j = k
  <2>1. RefOf(j) = row[k].ref /\ j \in Pay /\ row[j].st # "none"
    BY <1>3 DEF OwnInv, RowRef, Used
  <2> QED BY <1>1, <2>1, RefUnique DEF Claims
<1> QED BY <1>2, <1>3

\* While earlier payments stay, no two payments of an order share an intent, and treasury recorded
\* no less for a completed payment than its row, though creates fail, answers come late, goroutines
\* die and the reconciler repeats them (service.go:1189-1196).
THEOREM IntentsStayOwn == Spec => []OwnIntent
<1>1. Init => (Steady => OwnInv)
  BY OwnStart
<1> QED BY Start, Inductive, TypeStart, TypeInductive, <1>1, OwnInductive, OwnFollows, PTL DEF Spec
=============================================================================
