----------------------- MODULE DocumentSequenceProofs -----------------------
(***************************************************************************)
(* The numbers of a document sequence are unique, grow with time, and have  *)
(* no gap unless a compare-and-set failed with an error; a call loses its   *)
(* attempts only to errors and to numbers handed to others.  For any number *)
(* of callers and calls, any settings and any attempt limit.                *)
(***************************************************************************)
EXTENDS DocumentSequence, TLAPS

Row    == [made : BOOLEAN, val : Nat, format : Formats]
Number == [id : Nat, n : Nat, floor : Nat]

\* What a step may make of a call.
LEMMA Calls ==
    ASSUME NEW f \in [Caller -> Call], NEW c \in Caller
    PROVE  /\ Idle \in Call
           /\ [f EXCEPT ![c] = Idle] \in [Caller -> Call]
BY DEF Call, Idle

LEMMA Moves ==
    ASSUME NEW f \in [Caller -> Call], NEW c \in Caller,
           NEW l \in {"idle", "read", "create", "reread", "cas", "write", "gaveup"}
    PROVE  [f EXCEPT ![c].pc = l] \in [Caller -> Call]
BY DEF Call

LEMMA Finds ==
    ASSUME NEW f \in [Caller -> Call], NEW c \in Caller, NEW v \in Nat,
           NEW l \in {"cas", "write"}
    PROVE  [f EXCEPT ![c].pc = l, ![c].old = v] \in [Caller -> Call]
<1>1. f[c] \in Call
  OBVIOUS
<1>2. [[f[c] EXCEPT !.pc = l] EXCEPT !.old = v] \in Call
  BY <1>1 DEF Call
<1>3. [f EXCEPT ![c].pc = l, ![c].old = v] = [f EXCEPT ![c] = [[f[c] EXCEPT !.pc = l] EXCEPT !.old = v]]
  OBVIOUS
<1> QED BY <1>2, <1>3

\* The record of a call after a lost or failed attempt.
LEMMA TriedAgain ==
    ASSUME NEW k \in Call, NEW t \in Nat, NEW e \in Nat, NEW p \in {"read", "cas", "gaveup"}
    PROVE  [k EXCEPT !.tries = t, !.errs = e, !.pc = p] \in Call
BY DEF Call

LEMMA TriedFields ==
    ASSUME NEW k \in Call, NEW t \in Nat, NEW e \in Nat, NEW p \in {"read", "cas", "gaveup"}
    PROVE  LET r == [k EXCEPT !.tries = t, !.errs = e, !.pc = p]
           IN  /\ r.tries = t /\ r.errs = e /\ r.pc = p
               /\ r.job = k.job /\ r.id = k.id /\ r.old = k.old /\ r.from = k.from
               /\ r.floor = k.floor
BY DEF Call

LEMMA RetryCall ==
    ASSUME TypeOK, NEW c \in Caller, call[c].pc # "gaveup",
           NEW e \in {0, 1}, NEW l \in {"read", "cas"}, Retry(c, e, l)
    PROVE  /\ call' \in [Caller -> Call]
           /\ \A d \in Caller \ {c} : call'[d] = call[d]
           /\ call'[c].tries = call[c].tries + 1
           /\ call'[c].errs = call[c].errs + e
           /\ \/ call'[c].pc = "gaveup" /\ call'[c].tries = MaxTries
              \/ call'[c].pc = l /\ call'[c].tries < MaxTries
           /\ call'[c].job = call[c].job /\ call'[c].id = call[c].id
           /\ call'[c].old = call[c].old /\ call'[c].from = call[c].from
           /\ call'[c].floor = call[c].floor
<1>1. PICK p \in {"read", "cas", "gaveup"} :
         /\ call' = [call EXCEPT ![c].tries = @ + 1, ![c].errs = @ + e, ![c].pc = p]
         /\ p = IF call[c].tries + 1 = MaxTries THEN "gaveup" ELSE l
  BY DEF Retry, Exhausted
<1> DEFINE r == [call[c] EXCEPT !.tries = call[c].tries + 1, !.errs = call[c].errs + e, !.pc = p]
<1>2. /\ call[c] \in Call /\ call[c].tries \in Nat /\ call[c].tries < MaxTries
      /\ call[c].tries + 1 \in Nat /\ call[c].errs + e \in Nat
  BY DEF TypeOK, Call, At
<1>3. call' = [call EXCEPT ![c] = r]
  BY <1>1, <1>2 DEF TypeOK, Call
<1>4. /\ r \in Call /\ r.tries = call[c].tries + 1 /\ r.errs = call[c].errs + e /\ r.pc = p
      /\ r.job = call[c].job /\ r.id = call[c].id /\ r.old = call[c].old
      /\ r.from = call[c].from /\ r.floor = call[c].floor
  <2> DEFINE t == call[c].tries + 1
             u == call[c].errs + e
  <2>1. t \in Nat /\ u \in Nat
    BY <1>2
  <2> HIDE DEF t, u
  <2>2. [call[c] EXCEPT !.tries = t, !.errs = u, !.pc = p] \in Call
    BY <1>2, <2>1, TriedAgain
  <2>3. LET s == [call[c] EXCEPT !.tries = t, !.errs = u, !.pc = p]
        IN  /\ s.tries = t /\ s.errs = u /\ s.pc = p
            /\ s.job = call[c].job /\ s.id = call[c].id /\ s.old = call[c].old
            /\ s.from = call[c].from /\ s.floor = call[c].floor
    BY <1>2, <2>1, TriedFields
  <2> QED BY <2>2, <2>3 DEF t, u
<1> HIDE DEF r
<1>5. call' \in [Caller -> Call] /\ call'[c] = r /\ \A d \in Caller \ {c} : call'[d] = call[d]
  BY <1>3, <1>4 DEF TypeOK
<1>6. \/ p = "gaveup" /\ call[c].tries + 1 = MaxTries
      \/ p = l /\ call[c].tries + 1 < MaxTries
  BY <1>1, <1>2, SequenceAssumption
<1> QED BY <1>4, <1>5, <1>6

\* A statement that finds the row, or fails, ends the call, retries it or takes it on.
LEMMA GotCall ==
    ASSUME TypeOK, NEW c \in Caller, NEW v \in Nat, Got(c, v), call[c].pc # "gaveup"
    PROVE  /\ call' \in [Caller -> Call]
           /\ \A d \in Caller \ {c} : call'[d] = call[d]
           /\ \/ call'[c] = Idle
              \/ /\ call'[c].pc = "write" \/ (call'[c].pc = "cas" /\ call[c].job = "number")
                 /\ call'[c].old = v
                 /\ call'[c].tries = call[c].tries /\ call'[c].errs = call[c].errs
                 /\ call'[c].job = call[c].job /\ call'[c].id = call[c].id
                 /\ call'[c].from = call[c].from /\ call'[c].floor = call[c].floor
<1>t. call \in [Caller -> Call] /\ call[c] \in Call
  BY DEF TypeOK
<1>1. CASE call[c].job \in {"number", "config"}
  <2>1. PICK l \in {"cas", "write"} :
           /\ call' = [call EXCEPT ![c].pc = l, ![c].old = v]
           /\ l = "cas" => call[c].job = "number"
    BY <1>1 DEF Got
  <2>2. call' \in [Caller -> Call] /\ \A d \in Caller \ {c} : call'[d] = call[d]
    BY <2>1, <1>t, Finds
  <2>3. call'[c] = [call[c] EXCEPT !.pc = l, !.old = v]
    BY <2>1, <1>t DEF Call
  <2> QED BY <1>t, <2>1, <2>2, <2>3 DEF Call
<1>2. CASE call[c].job \notin {"number", "config"}
  <2>1. call' = [call EXCEPT ![c] = Idle]
    BY <1>2 DEF Got, End
  <2> QED BY <2>1, <1>t, Calls
<1> QED BY <1>1, <1>2

LEMMA FailedCall ==
    ASSUME TypeOK, NEW c \in Caller, Failed(c), call[c].pc # "gaveup"
    PROVE  /\ call' \in [Caller -> Call]
           /\ \A d \in Caller \ {c} : call'[d] = call[d]
           /\ \/ call'[c] = Idle
              \/ /\ \/ call'[c].pc = "gaveup" /\ call'[c].tries = MaxTries
                    \/ call'[c].pc = "read" /\ call'[c].tries < MaxTries
                 /\ call[c].job = "number"
                 /\ call'[c].tries = call[c].tries + 1 /\ call'[c].errs = call[c].errs + 1
                 /\ call'[c].job = call[c].job /\ call'[c].id = call[c].id
                 /\ call'[c].from = call[c].from /\ call'[c].floor = call[c].floor
<1>1. CASE call[c].job = "number"
  <2>1. Retry(c, 1, "read")
    BY <1>1 DEF Failed
  <2> QED BY <2>1, <1>1, RetryCall
<1>2. CASE call[c].job # "number"
  <2>1. call' = [call EXCEPT ![c] = Idle]
    BY <1>2 DEF Failed, End
  <2> QED BY <2>1, Calls DEF TypeOK
<1> QED BY <1>1, <1>2

LEMMA GotoCall ==
    ASSUME TypeOK, NEW c \in Caller, NEW l \in {"create", "reread"}, Goto(c, l)
    PROVE  /\ call' \in [Caller -> Call]
           /\ \A d \in Caller \ {c} : call'[d] = call[d]
           /\ call'[c].pc = l
           /\ call'[c].tries = call[c].tries /\ call'[c].errs = call[c].errs
           /\ call'[c].job = call[c].job /\ call'[c].id = call[c].id
           /\ call'[c].from = call[c].from /\ call'[c].floor = call[c].floor
<1>1. call \in [Caller -> Call] /\ call[c] \in Call
  BY DEF TypeOK
<1>2. call' = [call EXCEPT ![c] = [call[c] EXCEPT !.pc = l]]
  BY <1>1 DEF Goto, Call
<1>3. call' \in [Caller -> Call]
  BY <1>1, Moves DEF Goto
<1> QED BY <1>1, <1>2, <1>3 DEF Call

LEMMA EndCall ==
    ASSUME TypeOK, NEW c \in Caller, End(c)
    PROVE  /\ call' \in [Caller -> Call]
           /\ \A d \in Caller \ {c} : call'[d] = call[d]
           /\ call'[c] = Idle
BY Calls DEF TypeOK, End

LEMMA BeginCall ==
    ASSUME TypeOK, NEW c \in Caller, NEW job \in {"number", "config", "peek"}, Begin(c, job)
    PROVE  /\ call' \in [Caller -> Call]
           /\ \A d \in Caller \ {c} : call'[d] = call[d]
           /\ call'[c].pc = "read" /\ call'[c].job = job /\ call'[c].id = started
           /\ call'[c].tries = 0 /\ call'[c].errs = 0
           /\ call'[c].from = row.val /\ call'[c].floor = top
<1> DEFINE k == [Idle EXCEPT !.pc = "read", !.job = job, !.id = started,
                             !.from = row.val, !.floor = top]
<1>1. /\ k \in Call
      /\ k.pc = "read" /\ k.job = job /\ k.id = started /\ k.tries = 0 /\ k.errs = 0
      /\ k.from = row.val /\ k.floor = top
  BY DEF TypeOK, Idle, Call
<1>2. call' = [call EXCEPT ![c] = k]
  BY DEF Begin
<1> HIDE DEF k
<1>3. /\ call' \in [Caller -> Call] /\ call'[c] = k
      /\ \A d \in Caller \ {c} : call'[d] = call[d]
  BY <1>1, <1>2 DEF TypeOK
<1> QED BY <1>1, <1>3

\* The statements of getOrCreate: how the call goes on, and what becomes of the row.
LEMMA FindCall ==
    ASSUME TypeOK, NEW c \in Caller, Lookup(c) \/ Create(c) \/ Reread(c)
    PROVE  /\ UNCHANGED <<issued, top, started, clean>>
           /\ call[c].pc \in {"read", "create", "reread"}
           /\ row' = row \/ (~row.made /\ row' = Fresh)
           /\ \/ Goto(c, "create") \/ Goto(c, "reread") \/ Failed(c)
              \/ row'.made /\ Got(c, row'.val)
<1>1. CASE Lookup(c)
  BY <1>1 DEF Lookup, At
<1>2. CASE Create(c)
  BY <1>2 DEF Create, Fresh, At
<1>3. CASE Reread(c)
  BY <1>3 DEF Reread, At
<1> QED BY <1>1, <1>2, <1>3

\* The row, the calls and the numbers are always of their types, and a call makes at most
\* MaxTries attempts.
THEOREM TypeCorrect == Spec => []TypeOK
<1>1. Init => TypeOK
  BY SequenceAssumption DEF Init, TypeOK, Idle, Call, At
<1>2. TypeOK /\ [Next]_vars => TypeOK'
  <2> SUFFICES ASSUME TypeOK, [Next]_vars
               PROVE  TypeOK'
    OBVIOUS
  <2>t. /\ row \in Row /\ row.val \in Nat
        /\ call \in [Caller -> Call] /\ \A c \in Caller : call[c] \in Call
        /\ issued \subseteq Number /\ top \in Nat /\ started \in Nat /\ clean \in BOOLEAN
    BY DEF TypeOK, Row, Number
  <2>i. Idle.tries < MaxTries
    BY SequenceAssumption DEF Idle
  <2>1. ASSUME NEW c \in Caller, NEW job \in {"number", "config", "peek"}, Begin(c, job)
        PROVE  TypeOK'
    <3>1. call'[c].tries < MaxTries
      BY <2>1, SequenceAssumption, BeginCall
    <3>2. /\ call' \in [Caller -> Call]
          /\ \A d \in Caller \ {c} : call'[d] = call[d]
      BY <2>1, BeginCall
    <3> QED BY <2>1, <3>1, <3>2 DEF Begin, TypeOK, At
  <2>2. ASSUME NEW c \in Caller, Lookup(c) \/ Create(c) \/ Reread(c) PROVE TypeOK'
    <3>1. /\ UNCHANGED <<issued, top, started, clean>>
          /\ call[c].pc # "gaveup" /\ row' \in Row /\ row'.val \in Nat
      <4>1. Fresh \in Row
        BY SequenceAssumption DEF Fresh, Row
      <4>2. row' \in Row
        BY <2>2, <2>t, <4>1, FindCall
      <4>3. row'.val \in Nat
        BY <4>2 DEF Row
      <4>4. /\ UNCHANGED <<issued, top, started, clean>>
            /\ call[c].pc \in {"read", "create", "reread"}
        BY <2>2, FindCall
      <4> QED BY <4>2, <4>3, <4>4
    <3>2. call[c].tries < MaxTries
      BY <3>1 DEF TypeOK, At
    <3>3. /\ call' \in [Caller -> Call]
          /\ \A d \in Caller \ {c} : call'[d] = call[d]
          /\ call'[c].tries < MaxTries \/ (call'[c].pc = "gaveup" /\ call'[c].tries = MaxTries)
      <4>1. CASE Goto(c, "create") \/ Goto(c, "reread")
        BY <4>1, <3>2, GotoCall
      <4>2. CASE Failed(c)
        BY <4>2, <3>1, <2>i, FailedCall
      <4>3. CASE Got(c, row'.val)
        BY <4>3, <3>1, <3>2, <2>i, GotCall
      <4> QED BY <2>2, <4>1, <4>2, <4>3, FindCall
    <3> QED BY <3>1, <3>3, <2>t DEF TypeOK, At, Row, Number
  <2>3. ASSUME NEW c \in Caller, Take(c) PROVE TypeOK'
    <3>1. /\ call' \in [Caller -> Call] /\ call'[c] = Idle
          /\ \A d \in Caller \ {c} : call'[d] = call[d]
      BY <2>3, EndCall DEF Take
    <3>2. /\ call[c].old + 1 \in Nat /\ call[c].id \in Nat /\ call[c].floor \in Nat
      BY <2>t DEF Call
    <3>3. row' \in Row
      BY <2>3, <3>2, <2>t DEF Take, Row
    <3>4. issued' \subseteq Number
      BY <2>3, <3>2, <2>t DEF Take, Number
    <3> QED BY <2>3, <2>i, <3>1, <3>2, <3>3, <3>4 DEF Take, TypeOK, At, Row, Number
  <2>4. ASSUME NEW c \in Caller, Lose(c) \/ CasFails(c) PROVE TypeOK'
    <3>1. (\E e \in {0, 1}, l \in {"read", "cas"} : Retry(c, e, l)) /\ call[c].pc # "gaveup"
      BY <2>4 DEF Lose, CasFails, AfterLoss, At
    <3>2. /\ call' \in [Caller -> Call]
          /\ \A d \in Caller \ {c} : call'[d] = call[d]
          /\ call'[c].tries < MaxTries \/ (call'[c].pc = "gaveup" /\ call'[c].tries = MaxTries)
      BY <3>1, RetryCall
    <3>3. row' \in Row
      <4>1. [row EXCEPT !.val = call[c].old + 1] \in Row
        BY <2>t DEF Call, Row
      <4> QED BY <2>4, <4>1, <2>t DEF Lose, CasFails
    <3>4. UNCHANGED <<issued, top, started>> /\ clean' \in BOOLEAN
      BY <2>4, <2>t DEF Lose, CasFails
    <3> QED BY <3>2, <3>3, <3>4 DEF TypeOK, At, Row
  <2>5. ASSUME NEW c \in Caller, WriteConfig(c) PROVE TypeOK'
    <3>1. /\ call' \in [Caller -> Call] /\ call'[c] = Idle
          /\ \A d \in Caller \ {c} : call'[d] = call[d]
      BY <2>5, EndCall DEF WriteConfig
    <3>2. row' \in Row
      BY <2>5, <2>t DEF WriteConfig, Configured, Row
    <3> QED BY <2>5, <2>i, <3>1, <3>2 DEF WriteConfig, TypeOK, At, Row
  <2>6. CASE UNCHANGED vars
    BY <2>6 DEF vars, TypeOK, At
  <2> QED BY <2>1, <2>2, <2>3, <2>4, <2>5, <2>6 DEF Next
<1> QED BY <1>1, <1>2, PTL DEF Spec

----------------------------------------------------------------------------
(* The numbers.  The counter never falls; a call about to advance it read   *)
(* it after the call began, and has paid for each earlier attempt with an   *)
(* error of its own or an advance of another's.                             *)

CallOK(k, r, begun) ==
    /\ k.pc # "idle" =>
          /\ k.id < begun /\ k.floor <= k.from /\ k.from <= r.val
          /\ k.job = "number" => k.tries <= k.errs + (r.val - k.from)
    /\ k.pc = "cas" =>
          /\ r.made /\ k.job = "number" /\ k.from <= k.old /\ k.old <= r.val
          /\ k.tries <= k.errs + (k.old - k.from)

RowOK ==
    /\ ~row.made => row.val = 0
    /\ top <= row.val
    /\ \A x \in issued : x.n \in 1 .. row.val /\ x.id < started

Numbers == NumbersUnique /\ LaterIsLarger /\ Gapless

IInv == RowOK /\ Numbers /\ \A c \in Caller : CallOK(call[c], row, started)

\* What holds of a call still holds when the counter or the number of calls has grown.
LEMMA CallLater ==
    ASSUME NEW k \in Call, NEW q \in Row, NEW r \in Row, NEW s \in Nat, NEW t \in Nat,
           q.val <= r.val, q.made => r.made, s <= t, CallOK(k, q, s)
    PROVE  CallOK(k, r, t)
BY DEF CallOK, Call, Row

LEMMA IdleOK == ASSUME NEW r, NEW s PROVE CallOK(Idle, r, s)
BY DEF CallOK, Idle

\* So a step is right when it is right for the caller that takes it.
LEMMA Others ==
    ASSUME TypeOK, TypeOK', IInv, NEW c \in Caller,
           \A d \in Caller \ {c} : call'[d] = call[d],
           row.val <= row'.val, row.made => row'.made, started <= started',
           CallOK(call'[c], row', started')
    PROVE  \A d \in Caller : CallOK(call'[d], row', started')
<1>1. /\ row \in Row /\ row' \in Row /\ started \in Nat /\ started' \in Nat
      /\ \A d \in Caller : call[d] \in Call
  BY DEF TypeOK, Row
<1> SUFFICES ASSUME NEW d \in Caller, d # c PROVE CallOK(call'[d], row', started')
  OBVIOUS
<1> QED BY <1>1, CallLater DEF IInv

\* A failed or lost attempt that was paid for leaves a sound call.
LEMMA PaidRetry ==
    ASSUME TypeOK, TypeOK', NEW c \in Caller, NEW e \in {0, 1}, Retry(c, e, "read"),
           call[c].pc # "gaveup", call[c].pc # "idle", CallOK(call[c], row, started),
           row.val <= row'.val, started' = started,
           e = 0 => call[c].pc = "cas" /\ call[c].old < row'.val
    PROVE  CallOK(call'[c], row', started')
<1>1. /\ call'[c].tries = call[c].tries + 1 /\ call'[c].errs = call[c].errs + e
      /\ call'[c].pc \in {"gaveup", "read"}
      /\ call'[c].job = call[c].job /\ call'[c].id = call[c].id
      /\ call'[c].from = call[c].from /\ call'[c].floor = call[c].floor
  BY RetryCall
<1>2. /\ row.val \in Nat /\ row'.val \in Nat /\ call[c].tries \in Nat /\ call[c].errs \in Nat
      /\ call[c].old \in Nat /\ call[c].from \in Nat
  BY DEF TypeOK, Call
<1> QED BY <1>1, <1>2 DEF CallOK

THEOREM NumbersHold == Spec => [](CounterInv /\ LostOnlyToOthers /\ Numbers)
<1>1. Init => IInv
  <2> SUFFICES ASSUME Init PROVE IInv
    OBVIOUS
  <2>1. \A c \in Caller : CallOK(call[c], row, started)
    BY IdleOK DEF Init
  <2>2. Gapless
    BY DEF Init, Gapless
  <2>3. RowOK /\ NumbersUnique /\ LaterIsLarger
    BY DEF Init, RowOK, NumbersUnique, LaterIsLarger
  <2> QED BY <2>1, <2>2, <2>3 DEF IInv, Numbers
<1>2. TypeOK /\ TypeOK' /\ IInv /\ [Next]_vars => IInv'
  <2> SUFFICES ASSUME TypeOK, TypeOK', IInv, [Next]_vars
               PROVE  IInv'
    OBVIOUS
  <2>t. /\ row \in Row /\ row.val \in Nat /\ row'.val \in Nat /\ top \in Nat
        /\ call \in [Caller -> Call] /\ \A c \in Caller : call[c] \in Call
        /\ issued \subseteq Number /\ started \in Nat /\ started' \in Nat
    BY DEF TypeOK, Row, Number
  <2>o. \A c \in Caller : CallOK(call[c], row, started)
    BY DEF IInv
  \* A step that hands out no number and leaves the counter.
  <2>q. ASSUME UNCHANGED <<issued, top, clean>>, row'.val = row.val, started <= started',
               ~row'.made => ~row.made
        PROVE  (RowOK /\ Numbers)'
    BY <2>q, <2>t DEF IInv, RowOK, Numbers, NumbersUnique, LaterIsLarger, Gapless, Number
  <2>1. ASSUME NEW c \in Caller, NEW job \in {"number", "config", "peek"}, Begin(c, job)
        PROVE  IInv'
    <3>1. UNCHANGED <<row, issued, top, clean>> /\ started' = started + 1
      BY <2>1 DEF Begin
    <3>2. CallOK(call'[c], row', started')
      BY <2>1, <3>1, <2>t, BeginCall DEF CallOK, IInv, RowOK
    <3>3. \A d \in Caller \ {c} : call'[d] = call[d]
      BY <2>1, BeginCall
    <3> QED BY <3>1, <3>2, <3>3, <2>q, <2>t, Others DEF IInv
  <2>2. ASSUME NEW c \in Caller, Lookup(c) \/ Create(c) \/ Reread(c) PROVE IInv'
    <3>1. /\ UNCHANGED <<issued, top, started, clean>>
          /\ call[c].pc \in {"read", "create", "reread"}
      BY <2>2, FindCall
    <3>2. row'.val = row.val /\ (~row'.made => ~row.made)
      <4>1. row' = row \/ (~row.made /\ row' = Fresh)
        BY <2>2, FindCall
      <4> QED BY <4>1 DEF Fresh, IInv, RowOK
    <3>3. CASE Goto(c, "create") \/ Goto(c, "reread")
      <4>1. \A d \in Caller \ {c} : call'[d] = call[d]
        BY <3>3, GotoCall
      <4>2. CallOK(call'[c], row', started')
        BY <3>1, <3>2, <3>3, <2>o, GotoCall DEF CallOK
      <4> QED BY <3>1, <3>2, <4>1, <4>2, <2>q, <2>t, Others DEF IInv
    <3>4. CASE Failed(c)
      <4>1. \A d \in Caller \ {c} : call'[d] = call[d]
        BY <3>1, <3>4, FailedCall
      <4>2. CallOK(call'[c], row', started')
        <5>1. CASE call[c].job = "number"
          <6>1. Retry(c, 1, "read")
            BY <3>4, <5>1 DEF Failed
          <6> QED BY <6>1, <3>1, <3>2, <2>o, <2>t, PaidRetry
        <5>2. CASE call[c].job # "number"
          <6>1. call'[c] = Idle
            BY <3>4, <5>2, EndCall DEF Failed
          <6> QED BY <6>1, IdleOK
        <5> QED BY <5>1, <5>2
      <4> QED BY <3>1, <3>2, <4>1, <4>2, <2>q, <2>t, Others DEF IInv
    <3>5. CASE row'.made /\ Got(c, row'.val)
      <4>1. \A d \in Caller \ {c} : call'[d] = call[d]
        BY <3>1, <3>5, <2>t, GotCall
      <4>2. CallOK(call'[c], row', started')
        <5>1. CASE call'[c] = Idle
          BY <5>1, IdleOK
        <5>2. CASE call'[c] # Idle
          <6>1. /\ call'[c].pc = "write" \/ (call'[c].pc = "cas" /\ call[c].job = "number")
                /\ call'[c].old = row'.val
                /\ call'[c].tries = call[c].tries /\ call'[c].errs = call[c].errs
                /\ call'[c].job = call[c].job /\ call'[c].id = call[c].id
                /\ call'[c].from = call[c].from /\ call'[c].floor = call[c].floor
            BY <3>1, <3>5, <5>2, <2>t, GotCall
          <6>2. CallOK(call[c], row, started)
            BY <2>o
          <6>3. call[c].from \in Nat /\ call[c].tries \in Nat /\ call[c].errs \in Nat
            BY <2>t DEF Call
          <6> QED BY <6>1, <6>2, <6>3, <3>1, <3>2, <3>5, <2>t DEF CallOK
        <5> QED BY <5>1, <5>2
      <4> QED BY <3>1, <3>2, <4>1, <4>2, <2>q, <2>t, Others DEF IInv
    <3> QED BY <2>2, <3>3, <3>4, <3>5, FindCall
  <2>3. ASSUME NEW c \in Caller, Take(c) PROVE IInv'
    <3> DEFINE n == call[c].old + 1
               x == [id |-> call[c].id, n |-> n, floor |-> call[c].floor]
    <3>1. /\ row.val = call[c].old /\ row'.val = n /\ row'.made = row.made
          /\ issued' = issued \cup {x} /\ top' = n /\ UNCHANGED <<started, clean>>
      BY <2>3, <2>t DEF Take, Unchanged, Row
    <3>2. /\ call[c].id < started /\ call[c].floor <= call[c].old /\ call[c].pc = "cas"
          /\ call[c].floor \in Nat /\ call[c].id \in Nat /\ call[c].old \in Nat
      BY <2>3, <2>o, <2>t DEF Take, At, CallOK, Call
    <3>3. x.n = n /\ x.id = call[c].id /\ x.floor = call[c].floor
      OBVIOUS
    <3>4. n = row.val + 1 /\ n \in Nat
      BY <3>1, <3>2
    <3> HIDE DEF x, n
    <3>5. \A y \in issued : y.n \in 1 .. row.val /\ y.n \in Nat /\ y.id < started
      BY <2>t DEF IInv, RowOK, Number
    <3>6. NumbersUnique' /\ LaterIsLarger'
      <4>1. NumbersUnique /\ LaterIsLarger
        BY DEF IInv, Numbers
      <4>2. \A y \in issued : y.n # n
        BY <3>4, <3>5, <2>t
      <4>3. x.floor < x.n
        BY <3>1, <3>2, <3>3, <3>4
      <4> QED BY <3>1, <3>3, <4>1, <4>2, <4>3 DEF NumbersUnique, LaterIsLarger
    <3>7. Gapless'
      <4> SUFFICES ASSUME clean PROVE {y.n : y \in issued'} = 1 .. row'.val
        BY <3>1 DEF Gapless
      <4>1. {y.n : y \in issued} = 1 .. row.val
        BY DEF IInv, Numbers, Gapless
      <4>2. {y.n : y \in issued'} = {y.n : y \in issued} \cup {n}
        BY <3>1, <3>3
      <4>3. (1 .. row.val) \cup {n} = 1 .. n
        BY <3>4, <2>t
      <4> QED BY <4>1, <4>2, <4>3, <3>1
    <3>8. RowOK'
      <4>1. row.made
        BY <2>3, <2>o DEF Take, At, CallOK
      <4> QED BY <4>1, <3>1, <3>2, <3>3, <3>4, <3>5, <2>t DEF RowOK
    <3>9. call'[c] = Idle /\ \A d \in Caller \ {c} : call'[d] = call[d]
      BY <2>3, EndCall DEF Take
    <3>10. \A d \in Caller : CallOK(call'[d], row', started')
      BY <3>1, <3>4, <3>9, <2>t, IdleOK, Others
    <3> QED BY <3>6, <3>7, <3>8, <3>10 DEF IInv, Numbers
  <2>4. ASSUME NEW c \in Caller, Lose(c) PROVE IInv'
    <3>1. /\ UNCHANGED <<row, issued, top, started, clean>> /\ Retry(c, 0, "read")
          /\ call[c].pc = "cas" /\ row.val # call[c].old
      BY <2>4 DEF Lose, AfterLoss, At, Unchanged
    <3>2. call[c].old < row'.val
      BY <3>1, <2>o, <2>t DEF CallOK, Call
    <3>3. CallOK(call'[c], row', started')
      BY <3>1, <3>2, <2>o, <2>t, PaidRetry
    <3>4. \A d \in Caller \ {c} : call'[d] = call[d]
      BY <3>1, RetryCall
    <3> QED BY <3>1, <3>3, <3>4, <2>q, <2>t, Others DEF IInv
  <2>5. ASSUME NEW c \in Caller, CasFails(c) PROVE IInv'
    <3>1. /\ UNCHANGED <<issued, top, started>> /\ Retry(c, 1, "read")
          /\ call[c].pc = "cas" /\ ~clean'
          /\ \/ row' = row
             \/ row.val = call[c].old /\ row' = [row EXCEPT !.val = call[c].old + 1]
      BY <2>5 DEF CasFails, At, Unchanged
    <3>2. row'.made = row.made /\ row'.val \in {row.val, row.val + 1}
      BY <3>1, <2>t DEF Row
    <3>3. CallOK(call'[c], row', started')
      BY <3>1, <3>2, <2>o, <2>t, PaidRetry
    <3>4. \A d \in Caller \ {c} : call'[d] = call[d]
      BY <3>1, RetryCall
    <3>5. \A d \in Caller : CallOK(call'[d], row', started')
      BY <3>1, <3>2, <3>3, <3>4, <2>t, Others
    <3>6. row.made
      BY <3>1, <2>o DEF CallOK
    <3>7. RowOK'
      <4>1. \A y \in issued : y.n \in Nat
        BY <2>t DEF Number
      <4> QED BY <3>1, <3>2, <3>6, <4>1, <2>t DEF IInv, RowOK
    <3>8. Numbers'
      BY <3>1 DEF IInv, Numbers, NumbersUnique, LaterIsLarger, Gapless
    <3> QED BY <3>5, <3>7, <3>8 DEF IInv
  <2>6. ASSUME NEW c \in Caller, WriteConfig(c) PROVE IInv'
    <3>1. UNCHANGED <<issued, top, started, clean>> /\ End(c)
      BY <2>6 DEF WriteConfig
    <3>2. row'.val = row.val /\ row'.made = row.made
      BY <2>6, <2>t DEF WriteConfig, Configured, Row
    <3>3. call'[c] = Idle /\ \A d \in Caller \ {c} : call'[d] = call[d]
      BY <3>1, EndCall
    <3>4. \A d \in Caller : CallOK(call'[d], row', started')
      BY <3>1, <3>2, <3>3, <2>t, IdleOK, Others
    <3> QED BY <3>1, <3>2, <3>4, <2>q, <2>t DEF IInv
  <2>7. CASE UNCHANGED vars
    BY <2>7 DEF vars, IInv, RowOK, Numbers, NumbersUnique, LaterIsLarger, Gapless
  <2> QED BY <2>1, <2>2, <2>3, <2>4, <2>5, <2>6, <2>7 DEF Next
<1>3. IInv => CounterInv /\ LostOnlyToOthers /\ Numbers
  BY DEF IInv, RowOK, CallOK, CounterInv, LostOnlyToOthers, At
<1> QED BY <1>1, <1>2, <1>3, TypeCorrect, PTL DEF Spec

\* No two calls are ever handed the same number.
THEOREM NeverTwice == Spec => []NumbersUnique
BY NumbersHold, PTL DEF Numbers

\* A call that begins after another returned gets a larger number.
THEOREM NumbersGrow == Spec => []LaterIsLarger
BY NumbersHold, PTL DEF Numbers

\* Without a failed compare-and-set the numbers have no gap.
THEOREM NoGap == Spec => []Gapless
BY NumbersHold, PTL DEF Numbers

\* A call gives up only after as many errors of its own and numbers of others as attempts.
THEOREM OnlyProgressDefeats == Spec => []LostOnlyToOthers
BY NumbersHold, PTL
----------------------------------------------------------------------------
\* The calls of all replicas implement one register: every step of a call hands out the
\* next number, skips it, or leaves the register alone.
THEOREM SequenceIsRegister == Spec => ImplementsRegister
<1>1. Init => Register!Init
  BY DEF Init, Register!Init
<1>2. TypeOK /\ TypeOK' /\ CounterInv /\ [Next]_vars => [Register!HandOut \/ Register!Skip]_(Register!vars)
  <2> SUFFICES ASSUME TypeOK, TypeOK', CounterInv, [Next]_vars
               PROVE  \/ Register!HandOut \/ Register!Skip
                      \/ UNCHANGED <<row.val, {x.n : x \in issued}>>
    BY DEF Register!vars
  <2> USE DEF Register!HandOut, Register!Skip
  <2>t. row \in Row /\ row.val \in Nat
    BY DEF TypeOK, Row
  <2>1. ASSUME NEW c \in Caller, NEW job \in {"number", "config", "peek"}, Begin(c, job)
        PROVE  UNCHANGED <<row.val, {x.n : x \in issued}>>
    BY <2>1 DEF Begin
  <2>2. ASSUME NEW c \in Caller, Lookup(c) \/ Create(c) \/ Reread(c)
        PROVE  UNCHANGED <<row.val, {x.n : x \in issued}>>
    <3>1. UNCHANGED issued /\ (row' = row \/ (~row.made /\ row' = Fresh))
      BY <2>2, FindCall
    <3> QED BY <3>1 DEF Fresh, CounterInv
  <2>3. ASSUME NEW c \in Caller, Take(c) PROVE Register!HandOut
    <3> DEFINE x == [id |-> call[c].id, n |-> call[c].old + 1, floor |-> call[c].floor]
    <3>1. row.val = call[c].old /\ row'.val = call[c].old + 1 /\ issued' = issued \cup {x}
      BY <2>3, <2>t DEF Take, Unchanged, Row
    <3>2. x.n = row.val + 1
      BY <3>1
    <3> HIDE DEF x
    <3>3. {y.n : y \in issued'} = {y.n : y \in issued} \cup {row.val + 1}
      BY <3>1, <3>2
    <3> QED BY <3>1, <3>3
  <2>4. ASSUME NEW c \in Caller, Lose(c) PROVE UNCHANGED <<row.val, {x.n : x \in issued}>>
    BY <2>4 DEF Lose
  <2>5. ASSUME NEW c \in Caller, CasFails(c)
        PROVE  Register!Skip \/ UNCHANGED <<row.val, {x.n : x \in issued}>>
    <3>1. /\ UNCHANGED issued
          /\ \/ row' = row
             \/ row.val = call[c].old /\ row' = [row EXCEPT !.val = call[c].old + 1]
      BY <2>5 DEF CasFails, Unchanged
    <3>2. row'.val \in {row.val, row.val + 1}
      BY <3>1, <2>t DEF Row
    <3> QED BY <3>1, <3>2
  <2>6. ASSUME NEW c \in Caller, WriteConfig(c)
        PROVE  UNCHANGED <<row.val, {x.n : x \in issued}>>
    BY <2>6, <2>t DEF WriteConfig, Configured, Row
  <2>7. CASE UNCHANGED vars
    BY <2>7 DEF vars
  <2> QED BY <2>1, <2>2, <2>3, <2>4, <2>5, <2>6, <2>7 DEF Next
<1> QED BY <1>1, <1>2, TypeCorrect, NumbersHold, PTL DEF Spec, ImplementsRegister, Register!Spec
=============================================================================
