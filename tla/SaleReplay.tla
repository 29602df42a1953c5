----------------------------- MODULE SaleReplay -----------------------------
(***************************************************************************)
(* One mutating request of the offline-sync worker, sent with an            *)
(* Idempotency-Key until it is answered for good: the middleware that       *)
(* guards it (internal/http/middleware/idempotency.go) and the handler it   *)
(* runs.  The handler of a sale (orders.CreateOrder) is itself              *)
(* get-or-create on the client reference; other handlers (payments, voids,  *)
(* returns) have nothing but the key.                                       *)
(*                                                                          *)
(* A connection may drop while the server goes on, and a handler may fail   *)
(* before it has done anything.  In a faulty behaviour a process may also   *)
(* die in mid-request, a handler may outlive the two minutes after which    *)
(* its claim counts as abandoned, one other than the sale's may fail after  *)
(* its effect is committed (the dropped connection cancels its context),    *)
(* and the key store may fail when the answer is to be stored.              *)
(***************************************************************************)
EXTENDS Integers

CONSTANTS
    Req,        \* requests the server can have in flight with this key
    Nobody,
    Kinds,      \* subset of {"sale", "other"}
    Faulty,     \* subset of BOOLEAN: whether behaviours are faulty
    MaxFaults   \* bound on failures and dropped connections of a behaviour

ASSUME ReplayAssumption ==
    /\ Nobody \notin Req
    /\ Kinds \subseteq {"sale", "other"}
    /\ Faulty \subseteq BOOLEAN
    /\ MaxFaults \in Nat

VARIABLES
    kind, faulty,  \* chosen once: what the request does, and what may go wrong
    key,           \* the idempotency_keys row
    rq,            \* rq[r]: where request r is, and its handler's answer
    effects,       \* how often the request's effect was committed; for a sale, its orders
    routed,        \* how often the new order was announced and sent to its boards
    client,        \* the sync worker: what it waits for, and its final answer
    faults         \* history: failures so far

vars == <<kind, faulty, key, rq, effects, routed, client, faults>>

NoKey == [st |-> "none", old |-> FALSE, owner |-> Nobody, code |-> "none"]
Idle  == [pc |-> "idle", code |-> "none"]
Pending == [st |-> "pending", req |-> Nobody]

Running == {"run", "insert", "route", "finish"}

Init ==
    /\ kind \in Kinds /\ faulty \in Faulty
    /\ key = NoKey
    /\ rq = [r \in Req |-> Idle]
    /\ effects = 0 /\ routed = 0
    /\ client = Pending
    /\ faults = 0

At(r, l)   == rq[r].pc = l
Goto(r, l) == rq' = [rq EXCEPT ![r].pc = l]
Fault      == faults < MaxFaults /\ faults' = faults + 1
NoFault    == UNCHANGED faults

\* The handler is done with this answer; the middleware has yet to store it.
Result(r, code) == rq' = [rq EXCEPT ![r] = [pc |-> "finish", code |-> code]]

\* The client gets the answer unless it has hung up. Conflict, unavailable and server
\* errors make it try again; the others are final.
Answer(r, code) ==
    /\ rq' = [rq EXCEPT ![r] = Idle]
    /\ client' = IF client.req # r THEN client
                 ELSE IF code = "retry" THEN Pending ELSE [st |-> code, req |-> Nobody]

----------------------------------------------------------------------------
(* The sync worker                                                          *)

Send(r) ==
    /\ client.st = "pending"
    /\ At(r, "idle")
    /\ Goto(r, "claim")
    /\ client' = [st |-> "waiting", req |-> r]
    /\ UNCHANGED <<kind, faulty, key, effects, routed, faults>>

Drop ==
    /\ client.st = "waiting"
    /\ Fault
    /\ client' = Pending
    /\ UNCHANGED <<kind, faulty, key, rq, effects, routed>>

----------------------------------------------------------------------------
(* The middleware before the handler                                        *)

\* Insert the in_flight row; the unique (tenant_id, key) index lets one request win.
Claim(r) ==
    /\ rq[r].pc \in {"claim", "reclaim"}
    /\ IF key.st = "none"
         THEN /\ key' = [NoKey EXCEPT !.st = "in_flight", !.owner = r]
              /\ Goto(r, "run")
         ELSE /\ Goto(r, IF At(r, "claim") THEN "takeover" ELSE "lookup")
              /\ UNCHANGED key
    /\ UNCHANGED <<kind, faulty, effects, routed, client, faults>>

KeyStoreDown(r) ==
    /\ rq[r].pc \in {"claim", "reclaim", "lookup"}
    /\ Fault
    /\ Answer(r, "retry")
    /\ UNCHANGED <<kind, faulty, key, effects, routed>>

\* A claim left in flight for two minutes is removed and claimed anew.
Abandoned_Ageless == key.st = "in_flight"
Abandoned_AnyRow  == key.old
Abandoned_Never   == FALSE
Abandoned         == key.st = "in_flight" /\ key.old

Takeover(r) ==
    /\ At(r, "takeover")
    /\ IF Abandoned
         THEN key' = NoKey /\ Goto(r, "reclaim")
         ELSE Goto(r, "lookup") /\ UNCHANGED key
    /\ UNCHANGED <<kind, faulty, effects, routed, client, faults>>

\* 409 while the key is in flight, 503 when it just went away, else the stored answer.
Replay(r) ==
    /\ At(r, "lookup")
    /\ Answer(r, IF key.st = "completed" THEN key.code ELSE "retry")
    /\ UNCHANGED <<kind, faulty, key, effects, routed, faults>>

----------------------------------------------------------------------------
(* The handlers                                                             *)

\* A request that is not acceptable (any more): a 4xx, checked before the handler looks
\* whether the request has been served already.
Reject(r) ==
    /\ At(r, "run")
    /\ Result(r, "refused")
    /\ UNCHANGED <<kind, faulty, key, effects, routed, client, faults>>

FailEarly(r) ==
    /\ rq[r].pc \in {"run", "insert"}
    /\ Fault
    /\ Result(r, "error")
    /\ UNCHANGED <<kind, faulty, key, effects, routed, client>>

RunOther(r) ==
    /\ kind = "other"
    /\ At(r, "run")
    /\ effects' = effects + 1
    /\ \/ Result(r, "ok") /\ NoFault
       \/ faulty /\ Result(r, "error") /\ Fault        \* fails after the effect
    /\ UNCHANGED <<kind, faulty, key, routed, client>>

\* CreateOrder: look the client reference up, insert the order, reload and announce it.
GetSale(r) ==
    /\ kind = "sale"
    /\ At(r, "run")
    /\ IF effects > 0 THEN Result(r, "ok") ELSE Goto(r, "insert")
    /\ UNCHANGED <<kind, faulty, key, effects, routed, client, faults>>

IndexRejects_Missing == FALSE
IndexRejects         == effects > 0

CreateSale(r) ==
    /\ At(r, "insert")
    /\ IF IndexRejects
         THEN Result(r, "ok") /\ UNCHANGED effects     \* lost the race: the winner's order
         ELSE Goto(r, "route") /\ effects' = effects + 1
    /\ UNCHANGED <<kind, faulty, key, routed, client, faults>>

RouteSale(r) ==
    /\ At(r, "route")
    /\ \/ routed' = routed + 1 /\ Result(r, "ok") /\ NoFault
       \/ UNCHANGED routed /\ Result(r, "error") /\ Fault      \* the reload fails
    /\ UNCHANGED <<kind, faulty, key, effects, client>>

----------------------------------------------------------------------------
(* The middleware after the handler: a server error (or a panic) removes    *)
(* the row, any other answer completes it.  Both go by the key alone.       *)

Cacheable(code)        == code # "error"

Finish(r) ==
    LET code == rq[r].code
    IN  /\ At(r, "finish")
        /\ \/ /\ key' = IF ~Cacheable(code) THEN NoKey
                        ELSE IF key.st = "none" THEN key
                        ELSE [key EXCEPT !.st = "completed", !.code = code]
              /\ NoFault
           \/ faulty /\ UNCHANGED key /\ Fault         \* the key store fails; nobody notices
        /\ Answer(r, IF code = "error" THEN "retry" ELSE code)
        /\ UNCHANGED <<kind, faulty, effects, routed>>

\* The process dies; the row stays as it is.
Die(r) ==
    /\ faulty
    /\ rq[r].pc # "idle"
    /\ Fault
    /\ Answer(r, "retry")
    /\ UNCHANGED <<kind, faulty, key, effects, routed>>

\* Two minutes pass. A handler is done by then, except in a faulty behaviour.
GrowOld ==
    /\ key.st # "none" /\ ~key.old
    /\ IF key.st = "in_flight" /\ rq[key.owner].pc \in Running
         THEN faulty /\ Fault
         ELSE NoFault
    /\ key' = [key EXCEPT !.old = TRUE]
    /\ UNCHANGED <<kind, faulty, rq, effects, routed, client>>

----------------------------------------------------------------------------
Serve(r) ==
    \/ Claim(r) \/ Takeover(r) \/ Replay(r) \/ Reject(r) \/ RunOther(r)
    \/ GetSale(r) \/ CreateSale(r) \/ RouteSale(r) \/ Finish(r)

Next ==
    \/ \E r \in Req :
          Send(r) \/ KeyStoreDown(r) \/ FailEarly(r) \/ Serve(r) \/ Die(r)
    \/ Drop
    \/ GrowOld

Spec == Init /\ [][Next]_vars

\* The worker keeps retrying, the server answers, time passes; failures are finitely many.
FairSpec ==
    /\ Spec
    /\ WF_vars(\E r \in Req : Send(r))
    /\ \A r \in Req : WF_vars(Serve(r))
    /\ WF_vars(GrowOld)

----------------------------------------------------------------------------
(* Properties                                                               *)

\* Type invariant. A server error is never stored.
TypeOK ==
    /\ kind \in {"sale", "other"} /\ faulty \in BOOLEAN
    /\ key \in [st : {"none", "in_flight", "completed"}, old : BOOLEAN,
                owner : Req \cup {Nobody}, code : {"none", "ok", "refused"}]
    /\ rq \in [Req -> [pc : {"idle", "claim", "takeover", "reclaim", "lookup"} \cup Running,
                       code : {"none", "ok", "refused", "error"}]]
    /\ effects \in Nat /\ routed \in Nat /\ faults \in Nat
    /\ client \in [st : {"pending", "waiting", "none", "ok", "refused"}, req : Req \cup {Nobody}]

\* Whatever fails, a replayed sale is created once and announced at most once
\* (CreateOrder: "a replayed sync never duplicates the order ... or double-publishes").
OneSale == kind = "sale" => effects <= 1 /\ routed <= effects

\* Every request with one key has its effect once, as long as nobody dies, overruns or fails after
\* its effect, and the key store keeps the answer.
CalmExecutesOnce == ~faulty => effects <= 1

\* ... and its stored answer is there for every later replay.
CompletedStays ==
    [][~faulty /\ key.st = "completed" => key'.st = "completed" /\ key'.code = key.code]_vars

\* The worker gets a final answer, whatever died in between: an abandoned claim is taken
\* over, so no retry meets 409 for ever.
SyncEnds == client.st \in {"pending", "waiting"} ~> client.st \in {"ok", "refused"}

\* "a request carrying an Idempotency-Key (the offline local_id) is executed once".
ExecutedOnce == effects <= 1

\* A request that is refused for good has done nothing ("terminal - replaying won't change
\* the outcome").
RefusedDidNothing == client.st = "refused" => effects = 0

\* An order that was created and whose worker is satisfied has been sent to its boards
\* ("A live order goes to its boards and printers now").
SyncedIsRouted ==
    kind = "sale" /\ client.st = "ok" /\ (\A r \in Req : At(r, "idle")) => routed = 1

----------------------------------------------------------------------------
(* Inductive strengthenings                                                 *)

\* The request about to announce the order is the one that created it, and the only one.
RouteInv ==
    kind = "sale" =>
        /\ OneSale
        /\ \A r \in Req : At(r, "route") =>
              /\ effects = 1 /\ routed = 0
              /\ \A q \in Req \ {r} : ~At(q, "route")

\* In a calm behaviour the in_flight row is its running owner's, nobody else runs, and
\* once the effect of a request other than a sale is committed the key stays taken.
OwnerRuns ==
    /\ \A r \in Req : rq[r].pc \in Running => key.st = "in_flight" /\ key.owner = r
    /\ key.st = "in_flight" => ~key.old /\ key.owner \in Req /\ rq[key.owner].pc \in Running

BeforeEffect(step) == step.pc = "run" \/ (step.pc = "finish" /\ step.code = "error")

EffectIsKept == kind = "other" =>
    /\ \A r \in Req : rq[r].pc \notin {"insert", "route"}
    /\ \A r \in Req : BeforeEffect(rq[r]) => effects = 0
    /\ key.st = "none" => effects = 0
    /\ effects <= 1

CalmInv == ~faulty => OwnerRuns /\ EffectIsKept
=============================================================================
