--------------------------- MODULE GatewayPayments ---------------------------
(***************************************************************************)
(* The payments of one order and the intents treasury keeps for them.       *)
(* A digital tender asks treasury for an intent first and records a pending *)
(* row, which the treasury events confirm or fail; a cash or keyed tender   *)
(* is recorded completed first and its intent is created in the background, *)
(* by the request's goroutine or by a reconciler.  Treasury keeps one       *)
(* intent per reference and answers a repeated reference with the one it    *)
(* has, so which reference a payment gets decides whose money is recorded.  *)
(* A step is one statement, one transaction or one call of                  *)
(* modules/payments/service.go, intent_reconciler.go, treasury_subscriber.go*)
(***************************************************************************)
EXTENDS Integers, FiniteSets, FiniteSetsExt

CONSTANTS
    MaxPay,    \* payments attempted on the order
    Total,     \* pos_orders.total_amount
    Asked,     \* amounts a till asks for and a customer pays
    Sub,       \* event handlers
    MaxVoid,   \* payments voided (bound)
    MaxFault,  \* failures and crashes (bound)
    Scenes     \* what a behaviour may meet, and the payments attempted in it

Pay == 1..MaxPay
\* payref.Build of the order, payref.Portion of a payment.
Base == <<"order", 0>>
Portion(k) == <<"portion", k>>
Ref == {Base} \cup {Portion(k) : k \in Pay}
NoRef == <<"none", 0>>
Keyed == <<"keyed", 0>>
Kind == {"cash", "keyed", "digital"}
Hazard == {"fail", "late", "crash", "lost", "db", "decline", "void", "overlap", "race"}

ASSUME BoundsAssumption ==
    /\ MaxPay \in Nat /\ Total \in Nat /\ MaxVoid \in Nat /\ MaxFault \in Nat
    /\ Asked \subseteq Nat \ {0} /\ Scenes \subseteq [may : SUBSET Hazard, pays : Pay]

VARIABLES
    scene,   \* what this behaviour may meet, and how many payments
    row,     \* pos_payments of the order; when is the order of occurred_at
    req,     \* the request, goroutine or reconciler at each payment
    intent,  \* treasury's intents, by reference
    mail,    \* treasury.payment.* events not acknowledged
    sub,     \* the event handlers
    faults
vars == <<scene, row, req, intent, mail, sub, faults>>

NoRow == [st |-> "none", kind |-> "cash", amt |-> 0, ref |-> NoRef, when |-> 0]
NoReq == [at |-> "new", kind |-> "cash", amt |-> 0, ref |-> NoRef]
NoIntent == [st |-> "none", amt |-> 0, got |-> 0]
Waiting == [ev |-> "none", ref |-> NoRef, todo |-> {}]

Lesser(a, b) == IF a <= b THEN a ELSE b
Used == {k \in Pay : row[k].st # "none"}
Completed == {k \in Pay : row[k].st = "completed"}
Collected == MapThenSumSet(LAMBDA k : row[k].amt, Completed)
Outstanding == Total - Collected
FullyPaid_Exactly == Outstanding = 0
FullyPaid == Outstanding <= 0

May(h) == h \in scene.may
Mishap(h) == May(h) /\ faults < MaxFault /\ faults' = faults + 1
Goes(k, at) == req' = [req EXCEPT ![k].at = at]
Ends(k) == Goes(k, "done")
Digital(k) == req[k].kind = "digital"

TypeOK ==
    /\ scene \in Scenes
    /\ row \in [Pay -> [st : {"none", "pending", "completed", "failed", "voided"}, kind : Kind, amt : Nat,
                        ref : Ref \cup {NoRef, Keyed}, when : 0..MaxPay]]
    /\ req \in [Pay -> [at : {"new", "insert", "choose", "call", "backfill", "done"}, kind : Kind,
                        amt : Nat, ref : Ref \cup {NoRef}]]
    /\ intent \in [Ref -> [st : {"none", "open", "failed", "settled"}, amt : Nat, got : Nat]]
    /\ mail \subseteq {"succeeded", "failed"} \X Ref
    /\ sub \in [Sub -> [ev : {"none", "succeeded", "failed"}, ref : Ref \cup {NoRef}, todo : SUBSET Pay]]
    /\ faults \in 0..MaxFault

Init ==
    /\ scene \in Scenes
    /\ row = [k \in Pay |-> NoRow] /\ req = [k \in Pay |-> NoReq]
    /\ intent = [r \in Ref |-> NoIntent] /\ mail = {}
    /\ sub = [s \in Sub |-> Waiting] /\ faults = 0

(***************************************************************************)
(* The till.                                                                *)
(***************************************************************************)
\* A request whose row is not recorded yet.
Recording(j) == req[j].at = "insert" \/ (Digital(j) /\ req[j].at \in {"choose", "call"})
CreatePaymentIntent(k, kind, ask) ==
    /\ k <= scene.pays /\ req[k].at = "new" /\ \A j \in 1..(k - 1) : req[j].at # "new"
    /\ May("overlap") \/ \A j \in Pay : ~Recording(j)
    /\ ~FullyPaid
    /\ req' = [req EXCEPT ![k] = [at |-> IF kind = "digital" THEN "choose" ELSE "insert", kind |-> kind,
                                  amt |-> Lesser(ask, Outstanding), ref |-> NoRef]]
    /\ UNCHANGED <<scene, row, intent, mail, sub, faults>>

\* Under the row lock.  The amount the intent is created with is not lowered with the row's.
Insert(k, status, amount, ref) ==
    row' = [row EXCEPT ![k] = [st |-> status, kind |-> req[k].kind, amt |-> amount, ref |-> ref,
                               when |-> Cardinality(Used) + 1]]
RecordCash(k) ==
    /\ req[k].at = "insert" /\ ~Digital(k)
    /\ \/ FullyPaid /\ Ends(k) /\ UNCHANGED <<row, faults>>
       \/ /\ ~FullyPaid
          /\ Insert(k, "completed", Lesser(req[k].amt, Outstanding), IF req[k].kind = "keyed" THEN Keyed ELSE NoRef)
          /\ Goes(k, "choose") /\ UNCHANGED faults
       \/ Mishap("db") /\ Ends(k) /\ UNCHANGED row
    /\ UNCHANGED <<scene, intent, mail, sub>>

RecordPending(k) ==
    /\ req[k].at = "insert" /\ Digital(k)
    /\ \/ Insert(k, "pending", req[k].amt, req[k].ref) /\ UNCHANGED faults
       \/ Mishap("lost") /\ UNCHANGED row
    /\ Ends(k)
    /\ UNCHANGED <<scene, intent, mail, sub>>

\* A payment is a later one if another of the order, pending or completed, occurred before it.
Before(j, k) == IF row[k].st = "none" THEN TRUE ELSE row[j].when < row[k].when
Earlier_NotPending(k) == \E j \in Completed \ {k} : Before(j, k)
Earlier(k) == \E j \in Pay \ {k} : row[j].st \in {"pending", "completed"} /\ Before(j, k)
IntentReference(k) ==
    /\ req[k].at = "choose"
    /\ \/ req' = [req EXCEPT ![k].at = "call", ![k].ref = IF Earlier(k) THEN Portion(k) ELSE Base] /\ UNCHANGED faults
       \/ Mishap("db") /\ req' = [req EXCEPT ![k].at = "call", ![k].ref = Base]
    /\ UNCHANGED <<scene, row, intent, mail, sub>>

\* A cash intent is settled at once.
Opened(k) == IF Digital(k) THEN [st |-> "open", amt |-> req[k].amt, got |-> 0]
                           ELSE [st |-> "settled", amt |-> req[k].amt, got |-> req[k].amt]
CreateIntent(k) ==
    /\ req[k].at = "call"
    /\ \/ /\ intent' = [intent EXCEPT ![req[k].ref] = IF @.st = "none" THEN Opened(k) ELSE @]
          /\ \/ Goes(k, IF Digital(k) THEN "insert" ELSE "backfill") /\ UNCHANGED faults
             \/ Mishap(IF Digital(k) THEN "lost" ELSE "late") /\ Ends(k)
       \/ Mishap("fail") /\ Ends(k) /\ UNCHANGED intent
    /\ UNCHANGED <<scene, row, mail, sub>>

\* Only where no reference stands.
Backfill(k) ==
    /\ req[k].at = "backfill"
    /\ \/ row' = [row EXCEPT ![k].ref = IF @ = NoRef THEN req[k].ref ELSE @] /\ UNCHANGED faults
       \/ Mishap("db") /\ UNCHANGED row
    /\ Ends(k)
    /\ UNCHANGED <<scene, intent, mail, sub>>

\* The reconciler: rows older than the dispatch may take, hence none a goroutine is still at.
Lacking(k) == row[k].st = "completed" /\ row[k].kind # "digital" /\ row[k].ref = NoRef
Candidate_OfOpenOrder(k) == Lacking(k) /\ ~FullyPaid
Candidate(k) == Lacking(k)
RetryIntent(k) ==
    /\ req[k].at = "done" /\ Candidate(k)
    /\ req' = [req EXCEPT ![k].at = "choose", ![k].amt = row[k].amt]
    /\ UNCHANGED <<scene, row, intent, mail, sub, faults>>

VoidPayment(k) ==
    /\ May("void") /\ Cardinality({j \in Pay : row[j].st = "voided"}) < MaxVoid
    /\ row[k].st = "completed" /\ row[k].kind # "digital"
    /\ row' = [row EXCEPT ![k].st = "voided"]
    /\ UNCHANGED <<scene, req, intent, mail, sub, faults>>

(***************************************************************************)
(* The customer at treasury's page, which a recorded payment leads to.      *)
(***************************************************************************)
Offered(r) == \E k \in Used : row[k].kind = "digital" /\ row[k].ref = r
Capture(r, a) ==
    /\ intent[r].st \in {"open", "failed"} /\ Offered(r) /\ a <= intent[r].amt
    /\ intent' = [intent EXCEPT ![r].st = "settled", ![r].got = a]
    /\ mail' = mail \cup {<<"succeeded", r>>}
    /\ UNCHANGED <<scene, row, req, sub, faults>>

Decline(r) ==
    /\ May("decline") /\ intent[r].st = "open" /\ Offered(r)
    /\ intent' = [intent EXCEPT ![r].st = "failed"]
    /\ mail' = mail \cup {<<"failed", r>>}
    /\ UNCHANGED <<scene, row, req, sub, faults>>

(***************************************************************************)
(* The events.  One is acknowledged whatever comes of it.                   *)
(***************************************************************************)
Confirmable_Pending(k) == row[k].st = "pending"
Confirmable(k) == row[k].st \notin {"none", "completed"}
Failable_Any(k) == row[k].st # "none"
Failable(k) == row[k].st = "pending"
Matching_AnyPending(r) == {k \in Used : row[k].ref = r \/ row[k].st = "pending"}
Matching(r) == {k \in Used : row[k].ref = r}
Load(s, e) ==
    /\ sub[s] = Waiting /\ e \in mail
    /\ May("race") \/ \A t \in Sub : sub[t] = Waiting
    /\ mail' = mail \ {e}
    /\ LET todo == {k \in Matching(e[2]) : IF e[1] = "succeeded" THEN Confirmable(k) ELSE Failable(k)} IN
       \/ todo # {} /\ sub' = [sub EXCEPT ![s] = [ev |-> e[1], ref |-> e[2], todo |-> todo]] /\ UNCHANGED faults
       \/ todo = {} /\ UNCHANGED <<sub, faults>>
       \/ Mishap("db") /\ UNCHANGED sub
    /\ UNCHANGED <<scene, row, req, intent>>

\* The rows as loaded, one by one; what is captured replaces the amount.
Rest(s) == LET left == sub[s].todo IN
    \E k \in left :
        /\ row' = [row EXCEPT ![k].st = IF sub[s].ev = "succeeded" THEN "completed" ELSE "failed",
                              ![k].amt = IF sub[s].ev = "succeeded" THEN intent[sub[s].ref].got ELSE @]
        /\ sub' = [sub EXCEPT ![s] = IF left = {k} THEN Waiting ELSE [@ EXCEPT !.todo = left \ {k}]]
Write(s) ==
    /\ sub[s] # Waiting
    /\ \/ Rest(s) /\ UNCHANGED faults
       \/ Mishap("db") /\ sub' = [sub EXCEPT ![s] = Waiting] /\ UNCHANGED row
    /\ UNCHANGED <<scene, req, intent, mail>>

\* A background goroutine is lost; a handler dies and its event comes again.
CrashDispatch(k) ==
    /\ ~Digital(k) /\ req[k].at \in {"choose", "call", "backfill"} /\ Mishap("crash")
    /\ Ends(k)
    /\ UNCHANGED <<scene, row, intent, mail, sub>>
CrashHandler(s) ==
    /\ sub[s] # Waiting /\ Mishap("crash")
    /\ mail' = mail \cup {<<sub[s].ev, sub[s].ref>>} /\ sub' = [sub EXCEPT ![s] = Waiting]
    /\ UNCHANGED <<scene, row, req, intent>>

Serve(k) == RecordCash(k) \/ RecordPending(k) \/ IntentReference(k) \/ CreateIntent(k) \/ Backfill(k)
Till(k) == (\E kind \in Kind, a \in Asked : CreatePaymentIntent(k, kind, a)) \/ VoidPayment(k)
Customer(r) == (\E a \in Asked : Capture(r, a)) \/ Decline(r)
Handle(s) == (\E e \in mail : Load(s, e)) \/ Write(s)
Next ==
    \/ \E k \in Pay : Till(k) \/ Serve(k) \/ RetryIntent(k) \/ CrashDispatch(k)
    \/ \E r \in Ref : Customer(r)
    \/ \E s \in Sub : Handle(s) \/ CrashHandler(s)

Spec == Init /\ [][Next]_vars

(***************************************************************************)
(* Properties.                                                              *)
(***************************************************************************)
\* A digital payment counts only after treasury captured money for its intent, and counts that
\* amount, not the one it was opened with, whatever fails, repeats or overlaps (service.go:885-893).
ConfirmedWasCaptured ==
    \A k \in Completed : row[k].kind = "digital" =>
        intent[row[k].ref].st = "settled" /\ row[k].amt = intent[row[k].ref].got

Steady == scene.may \cap {"lost", "db", "decline", "void", "overlap"} = {}
\* While earlier payments stay (no void, no decline), no statement fails and no requests overlap,
\* every completed payment has an intent of its own where treasury recorded all of it, also when a
\* create that came late or died is retried long after (service.go:1189-1196).
OwnIntent ==
    Steady => \A k \in Completed : row[k].ref \in Ref =>
        /\ intent[row[k].ref].got >= row[k].amt
        /\ \A j \in Used \ {k} : row[j].ref # row[k].ref

\* A late failure never takes a confirmed payment back, while one handler works at a time (service.go:921).
FailKeepsConfirmed ==
    [][~May("race") => \A k \in Completed : row[k].kind = "digital" => row'[k].st = "completed"]_vars

Fairness ==
    /\ \A k \in Pay : WF_vars(Serve(k)) /\ SF_vars(RetryIntent(k))
    /\ \A s \in Sub : WF_vars(Handle(s))
LiveSpec == Spec /\ Fairness

\* A cash payment gets its intent in the end, though the goroutine dies or treasury is away
\* (intent_reconciler.go:58).
IntentFollows == \A k \in Pay : Lacking(k) ~> ~Lacking(k)

\* Money captured for a payment is counted in the end, also after a first attempt was declined and
\* its failure is handled late (service.go:876).  A failing statement or a race of handlers may lose
\* it, and overlapping or voided payments may share a reference whose intent is settled already.
CapturedCounts ==
    \A r \in Ref : (scene.may \cap {"db", "race", "void", "overlap"} = {} /\ intent[r].st = "settled" /\ Offered(r))
                   ~> \E k \in Completed : row[k].ref = r /\ row[k].kind = "digital"
=============================================================================
