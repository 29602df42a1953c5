-------------------------- MODULE SaleReplayProofs --------------------------
(***************************************************************************)
(* Type correctness of the replayed request, that a sale is created and     *)
(* announced at most once whatever fails, and that any request has its      *)
(* effect at most once when nothing dies or overruns - for any number of    *)
(* requests in flight and any number of failures.                           *)
(***************************************************************************)
EXTENDS SaleReplay, TLAPS

Code  == {"none", "ok", "refused", "error"}
Where == {"idle", "claim", "takeover", "reclaim", "lookup"} \cup Running
Row   == [st : {"none", "in_flight", "completed"}, old : BOOLEAN,
          owner : Req \cup {Nobody}, code : {"none", "ok", "refused"}]

Step  == [pc : Where, code : Code]

\* A request that moves on, or gets its handler's answer, is still a request.
LEMMA Moves ==
    ASSUME NEW f \in [Req -> Step], NEW r \in Req, NEW l \in Where
    PROVE  [f EXCEPT ![r].pc = l] \in [Req -> Step]
BY DEF Step

LEMMA Results ==
    ASSUME NEW f \in [Req -> Step], NEW r \in Req, NEW c \in Code
    PROVE  [f EXCEPT ![r] = [pc |-> "finish", code |-> c]] \in [Req -> Step]
BY DEF Step, Where, Running

LEMMA Idles ==
    ASSUME NEW f \in [Req -> Step], NEW r \in Req
    PROVE  [f EXCEPT ![r] = Idle] \in [Req -> Step]
BY DEF Step, Where, Code, Idle

\* The client's part of an answer.
LEMMA Told ==
    ASSUME TypeOK, NEW r \in Req, NEW c \in {"none", "ok", "refused", "retry"}, Answer(r, c)
    PROVE  client' \in [st : {"pending", "waiting", "none", "ok", "refused"},
                        req : Req \cup {Nobody}]
BY DEF TypeOK, Answer, Pending

\* What a key row becomes is a key row.
LEMMA RowWritten ==
    ASSUME NEW k \in Row, NEW r \in Req, NEW c \in {"none", "ok", "refused"}
    PROVE  /\ NoKey \in Row
           /\ [NoKey EXCEPT !.st = "in_flight", !.owner = r] \in Row
           /\ [k EXCEPT !.st = "completed", !.code = c] \in Row
 BY DEF Row, NoKey

LEMMA RowAged ==
    ASSUME NEW k \in Row
    PROVE  [k EXCEPT !.old = TRUE] \in Row
BY DEF Row

\* The key row, the requests and the client are always of their types; in particular no
\* server error is ever stored to be replayed.
THEOREM TypeCorrect == Spec => []TypeOK
<1>1. Init => TypeOK
  BY ReplayAssumption DEF Init, TypeOK, NoKey, Idle, Pending, Running
<1>2. TypeOK /\ [Next]_vars => TypeOK'
  <2> SUFFICES ASSUME TypeOK, [Next]_vars
               PROVE  TypeOK'
    OBVIOUS
  <2>t. /\ key \in Row
        /\ rq \in [Req -> Step]
    BY DEF TypeOK, Row, Step, Where, Code
  <2>n. faults \in Nat /\ (Fault => faults' \in Nat) /\ (NoFault => faults' \in Nat)
    BY DEF TypeOK, Fault, NoFault
  <2>1. ASSUME NEW r \in Req, Send(r) PROVE TypeOK'
    <3>1. rq' \in [Req -> Step]
      BY <2>1, <2>t, Moves DEF Send, Goto, Where
    <3> QED BY <2>1, <3>1 DEF Send, TypeOK, Step, Where, Code
  <2>2. ASSUME NEW r \in Req, KeyStoreDown(r) PROVE TypeOK'
    <3>1. rq' \in [Req -> Step]
      BY <2>2, <2>t, Idles DEF KeyStoreDown, Answer, Where, Code
    <3> QED BY <2>2, <2>n, <3>1, Told DEF KeyStoreDown, TypeOK, Step, Where, Code
  <2>3. ASSUME NEW r \in Req, FailEarly(r) PROVE TypeOK'
    <3>1. rq' \in [Req -> Step]
      BY <2>3, <2>t, Results DEF FailEarly, Result, Where, Code
    <3> QED BY <2>3, <2>n, <3>1 DEF FailEarly, TypeOK, Step, Where, Code
  <2>4. ASSUME NEW r \in Req, Claim(r) PROVE TypeOK'
    <3>1. rq' \in [Req -> Step]
      <4>1. PICK l \in {"run", "takeover", "lookup"} : Goto(r, l)
        BY <2>4 DEF Claim
      <4> QED BY <4>1, <2>t, Moves DEF Goto, Where, Running
    <3>2. key' \in Row
      BY <2>4, <2>t, RowWritten DEF Claim
    <3> QED BY <2>4, <3>1, <3>2 DEF Claim, TypeOK, Step, Where, Code, Row
  <2>5. ASSUME NEW r \in Req, Takeover(r) PROVE TypeOK'
    <3>1. rq' \in [Req -> Step]
      BY <2>5, <2>t, Moves DEF Takeover, Goto, Where
    <3>2. key' \in Row
      BY <2>5, <2>t, RowWritten DEF Takeover
    <3> QED BY <2>5, <3>1, <3>2 DEF Takeover, TypeOK, Step, Where, Code, Row
  <2>6. ASSUME NEW r \in Req, Replay(r) PROVE TypeOK'
    <3>1. (IF key.st = "completed" THEN key.code ELSE "retry")
              \in {"none", "ok", "refused", "retry"}
      BY <2>t DEF Row
    <3>2. rq' \in [Req -> Step]
      BY <2>6, <2>t, Idles DEF Replay, Answer, Where, Code
    <3>3. client' \in [st : {"pending", "waiting", "none", "ok", "refused"},
                       req : Req \cup {Nobody}]
      BY <2>6, <3>1, Told DEF Replay
    <3> QED BY <2>6, <3>2, <3>3 DEF Replay, TypeOK, Step, Where, Code
  <2>7. ASSUME NEW r \in Req, Reject(r) \/ GetSale(r) PROVE TypeOK'
    <3>1. rq' \in [Req -> Step]
      <4>1. Result(r, "refused") \/ Result(r, "ok") \/ Goto(r, "insert")
        BY <2>7 DEF Reject, GetSale
      <4>2. CASE Goto(r, "insert")
        BY <4>2, <2>t, Moves DEF Goto, Where, Running
      <4> QED BY <4>1, <4>2, <2>t, Results DEF Result, Code
    <3> QED BY <2>7, <3>1 DEF Reject, GetSale, TypeOK, Step, Where, Code
  <2>8. ASSUME NEW r \in Req, RunOther(r) PROVE TypeOK'
    <3>1. rq' \in [Req -> Step]
      BY <2>8, <2>t, Results DEF Result, RunOther, Where, Code
    <3> QED BY <2>8, <2>n, <3>1 DEF RunOther, TypeOK, Step, Where, Code
  <2>9. ASSUME NEW r \in Req, CreateSale(r) PROVE TypeOK'
    <3>1. rq' \in [Req -> Step]
      <4>1. Result(r, "ok") \/ Goto(r, "route")
        BY <2>9 DEF CreateSale
      <4>2. CASE Goto(r, "route")
        BY <4>2, <2>t, Moves DEF Goto, Where, Running
      <4> QED BY <4>1, <4>2, <2>t, Results DEF Result, Code
    <3> QED BY <2>9, <3>1 DEF CreateSale, TypeOK, Step, Where, Code
  <2>10. ASSUME NEW r \in Req, RouteSale(r) PROVE TypeOK'
    <3>1. rq' \in [Req -> Step]
      BY <2>10, <2>t, Results DEF Result, RouteSale, Where, Code
    <3> QED BY <2>10, <2>n, <3>1 DEF RouteSale, TypeOK, Step, Where, Code
  <2>11. ASSUME NEW r \in Req, Finish(r) PROVE TypeOK'
    <3>1. rq' \in [Req -> Step]
      BY <2>11, <2>t, Idles DEF Finish, Answer, Where, Code
    <3>2. rq[r].code \in Code
      BY DEF TypeOK, Code
    <3>3. key' \in Row
      <4>1. CASE UNCHANGED key
        BY <4>1, <2>t
      <4>2. CASE rq[r].code = "error" /\ key' = NoKey
        BY <4>2, <2>t, RowWritten
      <4>3. CASE rq[r].code # "error" /\ key' = [key EXCEPT !.st = "completed", !.code = rq[r].code]
        <5>1. rq[r].code \in {"none", "ok", "refused"}
          BY <4>3, <3>2 DEF Code
        <5> QED BY <4>3, <5>1, <2>t, RowWritten
      <4> QED BY <2>11, <4>1, <4>2, <4>3 DEF Finish, Cacheable
    <3>4. client' \in [st : {"pending", "waiting", "none", "ok", "refused"},
                       req : Req \cup {Nobody}]
      <4>1. (IF rq[r].code = "error" THEN "retry" ELSE rq[r].code)
                \in {"none", "ok", "refused", "retry"}
        BY <3>2 DEF Code
      <4>2. Answer(r, IF rq[r].code = "error" THEN "retry" ELSE rq[r].code)
        BY <2>11 DEF Finish
      <4> QED BY <4>1, <4>2, Told
    <3>5. faults' \in Nat /\ kind' = kind /\ faulty' = faulty /\ effects' = effects
          /\ routed' = routed
      BY <2>11, <2>n DEF Finish
    <3> QED BY <3>1, <3>3, <3>4, <3>5 DEF TypeOK, Step, Where, Code, Row
  <2>12. ASSUME NEW r \in Req, Die(r) PROVE TypeOK'
    <3>1. rq' \in [Req -> Step]
      BY <2>12, <2>t, Idles DEF Die, Answer, Where, Code
    <3> QED BY <2>12, <2>n, <3>1, Told DEF Die, TypeOK, Step, Where, Code
  <2>13. CASE Drop
    BY <2>13, <2>n DEF Drop, TypeOK, Pending
  <2>14. CASE GrowOld
    <3>1. key' \in Row
      BY <2>14, <2>t, RowAged DEF GrowOld
    <3>2. faults' \in Nat
      BY <2>14, <2>n DEF GrowOld
    <3> QED BY <2>14, <3>1, <3>2 DEF GrowOld, TypeOK, Row
  <2>15. CASE UNCHANGED vars
    BY <2>15 DEF vars, TypeOK
  <2> QED
    BY <2>1, <2>2, <2>3, <2>4, <2>5, <2>6, <2>7, <2>8, <2>9, <2>10, <2>11, <2>12,
       <2>13, <2>14, <2>15 DEF Next, Serve
<1> QED BY <1>1, <1>2, PTL DEF Spec

----------------------------------------------------------------------------
(* A sale is created and announced at most once.  The strengthening says    *)
(* that the request about to announce the order is the one that created it: *)
(* there is one order, nobody has announced it, nobody else is about to.    *)

THEOREM SaleOnce == Spec => []OneSale
<1>1. Init => RouteInv
  BY DEF Init, RouteInv, OneSale, At, Idle
<1>2. TypeOK /\ RouteInv /\ [Next]_vars => RouteInv'
  <2> SUFFICES ASSUME TypeOK, RouteInv, [Next]_vars, kind = "sale", kind' = "sale"
               PROVE  RouteInv'
    BY DEF RouteInv, Next, Serve, vars, Send, KeyStoreDown, FailEarly, Claim, Takeover,
           Replay, Reject, RunOther, GetSale, CreateSale, RouteSale, Finish, Die, Drop, GrowOld
  <2>t. rq \in [Req -> Step] /\ effects \in Nat /\ routed \in Nat
    BY DEF TypeOK, Step, Where, Code
  \* A step that neither creates nor announces, and takes no request to "route".
  <2>a. ASSUME effects' = effects, routed' = routed,
               \A q \in Req : rq'[q].pc = "route" => rq[q].pc = "route"
        PROVE  RouteInv'
    BY <2>a DEF RouteInv, OneSale, At
  <2>1. ASSUME NEW r \in Req,
               \/ Send(r) \/ KeyStoreDown(r) \/ FailEarly(r) \/ Claim(r) \/ Takeover(r)
               \/ Replay(r) \/ Reject(r) \/ GetSale(r) \/ Finish(r) \/ Die(r)
        PROVE  RouteInv'
    <3>1. effects' = effects /\ routed' = routed
      BY <2>1 DEF Send, KeyStoreDown, FailEarly, Claim, Takeover, Replay, Reject, GetSale,
                  Finish, Die
    <3>2. \/ \E l \in {"claim", "run", "takeover", "lookup", "reclaim", "insert"} : Goto(r, l)
          \/ \E c \in Code : Result(r, c)
          \/ \E c \in {"none", "ok", "refused", "retry", "error"} : Answer(r, c)
      <4>1. CASE Send(r) \/ Claim(r) \/ Takeover(r)
        BY <4>1 DEF Send, Claim, Takeover
      <4>2. CASE FailEarly(r) \/ Reject(r) \/ GetSale(r)
        BY <4>2 DEF FailEarly, Reject, GetSale, Code
      <4>3. CASE KeyStoreDown(r) \/ Die(r)
        BY <4>3 DEF KeyStoreDown, Die
      <4>4. CASE Replay(r)
        BY <4>4 DEF Replay, TypeOK
      <4>5. CASE Finish(r)
        BY <4>5, <2>t DEF Finish, Step, Code
      <4> QED BY <2>1, <4>1, <4>2, <4>3, <4>4, <4>5
    <3>3. \A q \in Req : rq'[q].pc = "route" => rq[q].pc = "route"
      <4>1. CASE \E l \in {"claim", "run", "takeover", "lookup", "reclaim", "insert"} : Goto(r, l)
        BY <4>1, <2>t DEF Goto, Step
      <4>2. CASE \E c \in Code : Result(r, c)
        BY <4>2, <2>t DEF Result, Step
      <4>3. CASE \E c \in {"none", "ok", "refused", "retry", "error"} : Answer(r, c)
        BY <4>3, <2>t DEF Answer, Idle, Step
      <4> QED BY <3>2, <4>1, <4>2, <4>3
    <3> QED BY <2>a, <3>1, <3>3
  <2>2. ASSUME NEW r \in Req, CreateSale(r) PROVE RouteInv'
    <3>1. CASE effects > 0
      <4>1. effects' = effects /\ routed' = routed /\ Result(r, "ok")
        BY <2>2, <3>1 DEF CreateSale, IndexRejects
      <4> QED BY <2>a, <4>1, <2>t DEF Result, Step
    <3>2. CASE effects = 0
      <4>1. effects' = 1 /\ routed' = routed /\ Goto(r, "route")
        BY <2>2, <3>2 DEF CreateSale, IndexRejects
      <4>2. routed = 0 /\ \A q \in Req : rq[q].pc # "route"
        BY <3>2, <2>t DEF RouteInv, OneSale, At
      <4>3. \A q \in Req : rq'[q].pc = "route" => q = r
        BY <4>1, <4>2, <2>t DEF Goto, Step
      <4> QED BY <4>1, <4>2, <4>3 DEF RouteInv, OneSale, At
    <3> QED BY <3>1, <3>2, <2>t
  <2>3. ASSUME NEW r \in Req, RouteSale(r) PROVE RouteInv'
    <3>1. rq[r].pc = "route" /\ effects = 1 /\ routed = 0
      BY <2>3 DEF RouteSale, RouteInv, At
    <3>2. /\ effects' = 1 /\ routed' \in {0, 1}
          /\ Result(r, "ok") \/ Result(r, "error")
      BY <2>3, <3>1 DEF RouteSale
    <3>3. \A q \in Req : rq'[q].pc # "route"
      BY <3>1, <3>2, <2>t DEF Result, Step, RouteInv, At
    <3> QED BY <3>2, <3>3 DEF RouteInv, OneSale, At
  <2>4. ASSUME NEW r \in Req, RunOther(r) PROVE RouteInv'
    BY <2>4 DEF RunOther
  <2>5. CASE Drop \/ GrowOld \/ UNCHANGED vars
    BY <2>5, <2>a DEF Drop, GrowOld, vars
  <2> QED BY <2>1, <2>2, <2>3, <2>4, <2>5 DEF Next, Serve
<1>3. RouteInv => OneSale
  BY DEF RouteInv, OneSale
<1> QED BY <1>1, <1>2, <1>3, TypeCorrect, PTL DEF Spec

----------------------------------------------------------------------------
(* In a calm behaviour any request has its effect at most once.  While a    *)
(* handler runs, the in_flight row is its own and young, so no other        *)
(* request gets past the claim; and the row goes only with a server error,  *)
(* which in a calm behaviour precedes the effect.                           *)

\* Whatever a request does before its handler runs leaves the effect as it is.
LEMMA KindStays == [Next]_vars => kind' = kind /\ faulty' = faulty
BY DEF Next, Serve, vars, Send, KeyStoreDown, FailEarly, Claim, Takeover, Replay, Reject,
       RunOther, GetSale, CreateSale, RouteSale, Finish, Die, Drop, GrowOld

\* The in_flight row belongs to the one request whose handler runs.
LEMMA OwnerKept ==
    ASSUME TypeOK, [Next]_vars, ~faulty, OwnerRuns
    PROVE  OwnerRuns'
<1>t. /\ rq \in [Req -> Step] /\ key \in Row
      /\ \A r \in Req : rq[r].pc \in Where
  BY DEF TypeOK, Step, Where, Code, Row
<1> USE DEF At, Running
\* A step of a request that is not running to one that is not running, or from running to
\* running, and leaves the row alone.
<1>a. ASSUME NEW r \in Req, UNCHANGED key, rq' \in [Req -> Step],
             rq'[r].pc \in Running <=> rq[r].pc \in Running,
             \A q \in Req \ {r} : rq'[q] = rq[q]
      PROVE  OwnerRuns'
  BY <1>a DEF OwnerRuns
<1>b. ASSUME NEW r \in Req, NEW l \in Where, Goto(r, l)
      PROVE  /\ rq' \in [Req -> Step] /\ rq'[r].pc = l
             /\ \A q \in Req \ {r} : rq'[q] = rq[q]
  BY <1>b, <1>t DEF Goto, Step
<1>1. ASSUME NEW r \in Req, Send(r) PROVE OwnerRuns'
  BY <1>1, <1>a, <1>t DEF Send, Goto, Step, Where, Code
<1>2. ASSUME NEW r \in Req, KeyStoreDown(r) \/ Replay(r) PROVE OwnerRuns'
  <2>1. /\ UNCHANGED key /\ rq' = [rq EXCEPT ![r] = Idle]
        /\ rq[r].pc \in {"claim", "reclaim", "lookup"}
    BY <1>2 DEF KeyStoreDown, Replay, Answer
  <2> QED BY <2>1, <1>a, <1>t, Idles DEF Idle
<1>3. ASSUME NEW r \in Req, FailEarly(r) \/ Reject(r) \/ RunOther(r) \/ RouteSale(r)
      PROVE OwnerRuns'
  <2>1. PICK c \in Code : Result(r, c)
    BY <1>3 DEF FailEarly, Reject, RunOther, RouteSale, Code
  <2>2. UNCHANGED key /\ rq[r].pc \in Running
    BY <1>3 DEF FailEarly, Reject, RunOther, RouteSale
  <2> QED BY <2>1, <2>2, <1>a, <1>t, Results DEF Result
<1>4. ASSUME NEW r \in Req, GetSale(r) \/ CreateSale(r) PROVE OwnerRuns'
  <2>1. UNCHANGED key /\ rq[r].pc \in Running
    BY <1>4 DEF GetSale, CreateSale
  <2>2. Result(r, "ok") \/ Goto(r, "insert") \/ Goto(r, "route")
    BY <1>4 DEF GetSale, CreateSale
  <2>3. CASE Result(r, "ok")
    BY <2>1, <2>3, <1>a, <1>t, Results DEF Result, Code
  <2>4. CASE Goto(r, "insert")
    BY <2>1, <2>4, <1>a, <1>b DEF Where
  <2>5. CASE Goto(r, "route")
    BY <2>1, <2>5, <1>a, <1>b DEF Where
  <2> QED BY <2>2, <2>3, <2>4, <2>5
<1>5. ASSUME NEW r \in Req, Claim(r) PROVE OwnerRuns'
  <2>1. CASE key.st = "none"
    <3>1. Goto(r, "run") /\ key' = [NoKey EXCEPT !.st = "in_flight", !.owner = r]
      BY <1>5, <2>1 DEF Claim
    <3>2. key'.st = "in_flight" /\ key'.owner = r /\ ~key'.old
      BY <3>1 DEF NoKey
    <3>3. \A q \in Req : rq[q].pc \notin Running
      BY <2>1 DEF OwnerRuns
    <3> QED BY <3>1, <3>2, <3>3, <1>t DEF OwnerRuns, Goto, Step
  <2>2. CASE key.st # "none"
    <3>1. UNCHANGED key /\ rq[r].pc \in {"claim", "reclaim"}
      BY <1>5, <2>2 DEF Claim
    <3>2. PICK l \in {"takeover", "lookup"} : Goto(r, l)
      BY <1>5, <2>2 DEF Claim
    <3> QED BY <3>1, <3>2, <1>a, <1>b DEF Where
  <2> QED BY <2>1, <2>2
<1>6. ASSUME NEW r \in Req, Takeover(r) PROVE OwnerRuns'
  <2>1. Goto(r, "lookup") /\ UNCHANGED key /\ rq[r].pc = "takeover"
    BY <1>6 DEF Takeover, Abandoned, OwnerRuns
  <2> QED BY <2>1, <1>a, <1>b DEF Where
<1>7. ASSUME NEW r \in Req, Finish(r) PROVE OwnerRuns'
  <2>1. key.st = "in_flight" /\ key.owner = r
    BY <1>7 DEF Finish, OwnerRuns
  <2>2. /\ rq' = [rq EXCEPT ![r] = Idle]
        /\ \/ key' = NoKey
           \/ key' = [key EXCEPT !.st = "completed", !.code = rq[r].code]
    BY <1>7, <2>1 DEF Finish, Answer
  <2>4. key'.st # "in_flight"
    <3>1. [key EXCEPT !.st = "completed", !.code = rq[r].code].st = "completed"
      BY <1>t DEF Row
    <3>2. NoKey.st = "none"
      BY DEF NoKey
    <3> QED BY <2>2, <3>1, <3>2
  <2>3. \A q \in Req : rq'[q].pc \notin Running
    BY <2>1, <2>2, <1>t DEF OwnerRuns, Idle, Step
  <2> QED BY <2>3, <2>4 DEF OwnerRuns
<1>8. ASSUME NEW r \in Req, Die(r) PROVE OwnerRuns'
  BY <1>8 DEF Die
<1>9. CASE GrowOld
  BY <1>9, <1>t DEF GrowOld, OwnerRuns, Row
<1>10. CASE Drop \/ UNCHANGED vars
  BY <1>10 DEF Drop, vars, OwnerRuns
<1> QED
  BY <1>1, <1>2, <1>3, <1>4, <1>5, <1>6, <1>7, <1>8, <1>9, <1>10 DEF Next, Serve

\* Once the effect is committed the key is taken and no handler is before its effect.
LEMMA EffectKept ==
    ASSUME TypeOK, [Next]_vars, ~faulty, kind = "other", OwnerRuns, OwnerRuns', EffectIsKept
    PROVE  EffectIsKept'
<1>t. /\ rq \in [Req -> Step] /\ key \in Row /\ effects \in Nat
      /\ kind' = kind
  BY KindStays DEF TypeOK, Step, Where, Code, Row
<1> USE DEF At, Running
\* A step that leaves the effect and the row's status, and takes nobody before its effect.
<1>a. ASSUME effects' = effects, key'.st = "none" => key.st = "none",
             \A q \in Req : BeforeEffect(rq'[q]) => BeforeEffect(rq[q]),
             \A q \in Req : rq'[q].pc \notin {"insert", "route"}
      PROVE  EffectIsKept'
  BY <1>a, <1>t DEF EffectIsKept
<1>b. \A q \in Req : rq[q].pc \notin {"insert", "route"}
  BY DEF EffectIsKept
<1>1. ASSUME NEW r \in Req, Send(r) PROVE EffectIsKept'
  <2>1. UNCHANGED <<key, effects>> /\ rq' = [rq EXCEPT ![r].pc = "claim"]
    BY <1>1 DEF Send, Goto
  <2> QED BY <2>1, <1>a, <1>b, <1>t DEF BeforeEffect, Step
<1>2. ASSUME NEW r \in Req, KeyStoreDown(r) \/ Replay(r) PROVE EffectIsKept'
  <2>1. UNCHANGED <<key, effects>> /\ rq' = [rq EXCEPT ![r] = Idle]
    BY <1>2 DEF KeyStoreDown, Replay, Answer
  <2> QED BY <2>1, <1>a, <1>b, <1>t DEF Idle, BeforeEffect
<1>3. ASSUME NEW r \in Req, FailEarly(r) \/ Reject(r) PROVE EffectIsKept'
  <2>1. /\ UNCHANGED <<key, effects>> /\ rq[r].pc = "run"
        /\ \E c \in Code : rq' = [rq EXCEPT ![r] = [pc |-> "finish", code |-> c]]
    BY <1>3, <1>b DEF FailEarly, Reject, Result, Code
  <2> QED BY <2>1, <1>a, <1>b, <1>t DEF BeforeEffect
<1>4. ASSUME NEW r \in Req, RunOther(r) PROVE EffectIsKept'
  <2>1. /\ UNCHANGED key /\ effects' = effects + 1
        /\ rq' = [rq EXCEPT ![r] = [pc |-> "finish", code |-> "ok"]]
        /\ rq[r].pc = "run"
    BY <1>4 DEF RunOther, Result
  <2>2. effects = 0 /\ key.st = "in_flight" /\ key.owner = r
    BY <2>1, <1>t DEF EffectIsKept, OwnerRuns, BeforeEffect
  <2>3. \A q \in Req : ~BeforeEffect(rq'[q]) /\ rq'[q].pc \notin {"insert", "route"}
    BY <2>1, <2>2, <1>b, <1>t DEF OwnerRuns, BeforeEffect
  <2> QED BY <2>1, <2>2, <2>3 DEF EffectIsKept
<1>5. ASSUME NEW r \in Req, GetSale(r) \/ CreateSale(r) \/ RouteSale(r) PROVE EffectIsKept'
  BY <1>5, <1>b DEF GetSale, CreateSale, RouteSale
<1>6. ASSUME NEW r \in Req, Claim(r) PROVE EffectIsKept'
  <2>1. CASE key.st = "none"
    <3>1. /\ rq' = [rq EXCEPT ![r].pc = "run"] /\ effects' = effects
          /\ key' = [NoKey EXCEPT !.st = "in_flight", !.owner = r]
      BY <1>6, <2>1 DEF Claim, Goto
    <3>2. effects = 0 /\ key'.st = "in_flight"
      BY <2>1, <3>1 DEF EffectIsKept, NoKey
    <3>3. \A q \in Req : rq'[q].pc \notin {"insert", "route"}
      BY <3>1, <1>b, <1>t DEF Step
    <3> QED BY <3>1, <3>2, <3>3 DEF EffectIsKept
  <2>2. CASE key.st # "none"
    <3>1. /\ UNCHANGED <<key, effects>>
          /\ \E l \in {"takeover", "lookup"} : rq' = [rq EXCEPT ![r].pc = l]
      BY <1>6, <2>2 DEF Claim, Goto
    <3> QED BY <3>1, <1>a, <1>b, <1>t DEF BeforeEffect, Step
  <2> QED BY <2>1, <2>2
<1>7. ASSUME NEW r \in Req, Takeover(r) PROVE EffectIsKept'
  <2>1. UNCHANGED <<key, effects>> /\ rq' = [rq EXCEPT ![r].pc = "lookup"]
    BY <1>7 DEF Takeover, Abandoned, OwnerRuns, Goto
  <2> QED BY <2>1, <1>a, <1>b, <1>t DEF BeforeEffect, Step
<1>8. ASSUME NEW r \in Req, Finish(r) PROVE EffectIsKept'
  <2>1. /\ rq[r].pc = "finish" /\ effects' = effects /\ rq' = [rq EXCEPT ![r] = Idle]
        /\ key' = IF rq[r].code = "error" THEN NoKey
                  ELSE IF key.st = "none" THEN key
                  ELSE [key EXCEPT !.st = "completed", !.code = rq[r].code]
    BY <1>8 DEF Finish, Answer, Cacheable
  <2>2. \A q \in Req : /\ BeforeEffect(rq'[q]) => BeforeEffect(rq[q])
                       /\ rq'[q].pc \notin {"insert", "route"}
    BY <2>1, <1>b, <1>t DEF BeforeEffect, Idle
  <2>3. CASE rq[r].code = "error"
    <3>1. effects = 0
      BY <2>1, <2>3 DEF EffectIsKept, BeforeEffect
    <3> QED BY <2>1, <2>2, <3>1 DEF EffectIsKept
  <2>4. CASE rq[r].code # "error"
    <3>1. key'.st = "none" => key.st = "none"
      BY <2>1, <2>4, <1>t DEF Row
    <3> QED BY <2>1, <2>2, <3>1, <1>a
  <2> QED BY <2>3, <2>4
<1>9. ASSUME NEW r \in Req, Die(r) PROVE EffectIsKept'
  BY <1>9 DEF Die
<1>10. CASE Drop \/ GrowOld \/ UNCHANGED vars
  <2>1. effects' = effects /\ rq' = rq /\ (key'.st = "none" => key.st = "none")
    BY <1>10, <1>t DEF Drop, GrowOld, vars, Row
  <2> QED BY <2>1, <1>a, <1>b
<1> QED
  BY <1>1, <1>2, <1>3, <1>4, <1>5, <1>6, <1>7, <1>8, <1>9, <1>10 DEF Next, Serve

LEMMA CalmHolds == Spec => []CalmInv
<1>1. Init => CalmInv
  BY DEF Init, CalmInv, OwnerRuns, EffectIsKept, At, Idle, NoKey, Running
<1>2. TypeOK /\ CalmInv /\ [Next]_vars => CalmInv'
  <2> SUFFICES ASSUME TypeOK, CalmInv, [Next]_vars, ~faulty
               PROVE  OwnerRuns' /\ EffectIsKept'
    BY KindStays DEF CalmInv
  <2>1. OwnerRuns /\ EffectIsKept
    BY DEF CalmInv
  <2>2. OwnerRuns'
    BY <2>1, OwnerKept
  <2>3. CASE kind = "other"
    BY <2>1, <2>2, <2>3, EffectKept
  <2>4. CASE kind # "other"
    BY <2>2, <2>4, KindStays DEF EffectIsKept
  <2> QED BY <2>2, <2>3, <2>4
<1> QED BY <1>1, <1>2, TypeCorrect, PTL DEF Spec

\* As long as nothing dies, overruns or loses its row, any request with one key - a
\* payment, a void, a return - has its effect at most once.
THEOREM CalmOnce == Spec => []CalmExecutesOnce
<1>1. TypeOK /\ OneSale /\ CalmInv => CalmExecutesOnce
  BY DEF TypeOK, OneSale, CalmInv, EffectIsKept, CalmExecutesOnce
<1> QED BY <1>1, CalmHolds, TypeCorrect, SaleOnce, PTL

\* Nobody is at work on a key whose answer is stored, so no step touches its row.
LEMMA AnswerKept ==
    ASSUME TypeOK, OwnerRuns, ~faulty, Next, key.st = "completed"
    PROVE  key'.st = "completed" /\ key'.code = key.code
<1>1. key \in Row
  BY DEF TypeOK, Row
<1>2. \A r \in Req : rq[r].pc \notin Running
  BY DEF OwnerRuns
<1>3. ASSUME NEW r \in Req, Finish(r) PROVE FALSE
  BY <1>2, <1>3 DEF Finish, At, Running
<1>4. ASSUME NEW r \in Req, Claim(r) \/ Takeover(r) PROVE key' = key
  BY <1>4 DEF Claim, Takeover, Abandoned
<1>5. CASE GrowOld
  BY <1>1, <1>5 DEF GrowOld, Row
<1>6. CASE UNCHANGED key
  BY <1>6
<1> QED
  BY <1>3, <1>4, <1>5, <1>6 DEF Next, Serve, Send, KeyStoreDown, FailEarly, Replay, Reject,
     RunOther, GetSale, CreateSale, RouteSale, Die, Drop

\* As long as nobody dies or overruns, an answer once stored for a key is there for every later
\* replay of it, unchanged (CompletedStays), though rows are written by key alone (idempotency.go).
THEOREM AnswerStays == Spec => CompletedStays
<1>1. TypeOK /\ CalmInv /\ [Next]_vars
      => [~faulty /\ key.st = "completed" => key'.st = "completed" /\ key'.code = key.code]_vars
  BY AnswerKept DEF CalmInv
<1> QED BY <1>1, TypeCorrect, CalmHolds, PTL DEF Spec, CompletedStays
=============================================================================
