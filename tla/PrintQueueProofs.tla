-------------------------- MODULE PrintQueueProofs --------------------------
(***************************************************************************)
(* Type correctness of the print queue; that no job is printed more often   *)
(* than the attempt cap; and that in a shop whose agents keep their leases  *)
(* and lose nothing no job is printed twice and no settled job is reopened. *)
(* For any set of jobs and agents and any lease, TTL and cap.               *)
(***************************************************************************)
EXTENDS PrintQueue, FiniteSetTheorems, TLAPS

USE DEF Final

LEMMA OpenHand ==
    ASSUME NEW h \in Hand, NEW p \in {"idle", "requeue", "expire", "probe", "claim",
                                      "printing", "waiting"}
    PROVE  [h EXCEPT !.pc = p] \in Hand
BY DEF Hand

LEMMA FreshHand ==
    ASSUME NEW p \in {"idle", "requeue", "expire", "probe", "claim"}, NEW t \in Nat
    PROVE  /\ [Empty EXCEPT !.pc = p, !.at = t] \in Hand
           /\ Empty \in Hand
BY DEF Hand, Empty

\* A row written by a poll or an acknowledgement is a row.
LEMMA RowWritten ==
    ASSUME NEW r \in PrintJob, NEW s \in {"absent", "queued", "claimed"} \cup Final
    PROVE  /\ [r EXCEPT !.st = s] \in PrintJob
           /\ [r EXCEPT !.st = s, !.by = Nobody, !.exp = 0] \in PrintJob
BY DEF PrintJob

\* The rows and the clock are always of their types.
THEOREM TypeCorrect == Spec => []TypeOK
<1>1. Init => TypeOK
  BY QueueAssumption DEF Init, TypeOK, NoJob, Empty, PrintJob, Hand, AckMessage
<1>2. TypeOK /\ [Next]_vars => TypeOK'
  <2> SUFFICES ASSUME TypeOK, [Next]_vars
               PROVE  TypeOK'
    OBVIOUS
  <2> USE DEF TypeOK, rest
  <2>1. ASSUME NEW j \in Job, Enqueue(j) PROVE TypeOK'
    <3>1. [NoJob EXCEPT !.st = "queued", !.born = now] \in PrintJob
      BY DEF NoJob, PrintJob
    <3> QED BY <2>1, <3>1 DEF Enqueue
  <2>2. ASSUME NEW a \in Agent, BeginPoll(a) PROVE TypeOK'
    <3>1. /\ [Empty EXCEPT !.pc = "requeue", !.at = now] \in Hand
          /\ [Empty EXCEPT !.pc = "probe", !.at = now] \in Hand
      BY FreshHand
    <3>2. \A p \in {"requeue", "probe"} :
              [Empty EXCEPT !.pc = p, !.at = now].pc \notin {"printing", "waiting"}
      BY DEF Empty
    <3> QED BY <2>2, <3>1, <3>2 DEF BeginPoll
  <2>3. ASSUME NEW a \in Agent, SweepLeases(a) PROVE TypeOK'
    <3>1. \A j \in Job : [job[j] EXCEPT !.st = "queued", !.by = Nobody, !.exp = 0] \in PrintJob
      BY RowWritten
    <3>2. [hand[a] EXCEPT !.pc = "expire"] \in Hand
      BY OpenHand
    <3>3. job' \in [Job -> PrintJob]
      BY <2>3, <3>1 DEF SweepLeases
    <3> QED BY <2>3, <3>2, <3>3 DEF SweepLeases, Hand
  <2>4. ASSUME NEW a \in Agent, SweepQueued(a) PROVE TypeOK'
    <3>1. \A j \in Job : [job[j] EXCEPT !.st = "expired"] \in PrintJob
      BY RowWritten
    <3>2. [hand[a] EXCEPT !.pc = "probe"] \in Hand
      BY OpenHand
    <3>3. job' \in [Job -> PrintJob]
      BY <2>4, <3>1 DEF SweepQueued
    <3> QED BY <2>4, <3>2, <3>3 DEF SweepQueued, Hand
  <2>5. ASSUME NEW a \in Agent, Probe(a) PROVE TypeOK'
    <3>1. [Empty EXCEPT !.pc = "claim", !.at = now] \in Hand /\ Empty \in Hand
      BY FreshHand
    <3>2. /\ [Empty EXCEPT !.pc = "claim", !.at = now].pc = "claim"
          /\ Empty.pc = "idle"
      BY DEF Empty
    <3> QED BY <2>5, <3>1, <3>2 DEF Probe
  <2>6. ASSUME NEW a \in Agent, Claim(a) PROVE TypeOK'
    <3>1. PICK j \in Job :
             /\ Claimable(job[j], hand[a].at)
             /\ job' = [job EXCEPT ![j] = [st |-> "claimed", by |-> a,
                          exp |-> hand[a].at + ClaimLease,
                          attempts |-> NextAttempt(j), born |-> job[j].born]]
             /\ \/ hand' = [hand EXCEPT ![a] = [pc |-> "printing", at |-> 0, job |-> j,
                              n |-> NextAttempt(j), until |-> hand[a].at + ClaimLease]]
                \/ unreliable /\ hand' = [hand EXCEPT ![a] = Empty]
      BY <2>6 DEF Claim
    <3>2. NextAttempt(j) \in Nat /\ hand[a].at + ClaimLease \in Nat
      BY QueueAssumption DEF NextAttempt, PrintJob, Hand
    <3>3. /\ [st |-> "claimed", by |-> a, exp |-> hand[a].at + ClaimLease,
              attempts |-> NextAttempt(j), born |-> job[j].born] \in PrintJob
          /\ [pc |-> "printing", at |-> 0, job |-> j, n |-> NextAttempt(j),
              until |-> hand[a].at + ClaimLease] \in Hand
          /\ Empty \in Hand /\ Empty.pc = "idle"
      BY <3>2 DEF PrintJob, Hand, Empty
    <3> QED BY <2>6, <3>1, <3>3 DEF Claim
  <2>7. ASSUME NEW a \in Agent, ClaimedByAnother(a) PROVE TypeOK'
    <3>1. Empty \in Hand /\ Empty.pc = "idle"
      BY DEF Empty, Hand
    <3> QED BY <2>7, <3>1 DEF ClaimedByAnother, Missed
  <2>8. ASSUME NEW a \in Agent, Dispatch(a) PROVE TypeOK'
    <3>1. hand[a].job \in Job /\ hand[a].n \in Nat
      BY <2>8 DEF Dispatch, At, Hand
    <3>2. [hand[a] EXCEPT !.pc = "waiting"] \in Hand
      BY OpenHand
    <3>3. hand' \in [Agent -> Hand] /\ \A b \in Agent : hand'[b].job = hand[b].job
      BY <2>8, <3>2 DEF Dispatch, Hand
    <3>4. \A b \in Agent : hand'[b].pc \in {"printing", "waiting"} => hand'[b].job \in Job
      BY <2>8, <3>1, <3>3 DEF Dispatch
    <3>5. PICK ok, out \in BOOLEAN :
             /\ paper' = [paper EXCEPT ![hand[a].job] = IF out THEN @ \cup {hand[a].n} ELSE @]
             /\ good' = [good EXCEPT ![hand[a].job] = IF ok THEN @ \cup {hand[a].n} ELSE @]
             /\ acks' = acks \cup {[a |-> a, j |-> hand[a].job, n |-> hand[a].n, ok |-> ok,
                                    held |-> FALSE, att |-> 0]}
      BY <2>8 DEF Dispatch
    <3>6. paper' \in [Job -> SUBSET Nat] /\ good' \in [Job -> SUBSET Nat]
      BY <3>1, <3>5
    <3>7. [a |-> a, j |-> hand[a].job, n |-> hand[a].n, ok |-> ok,
           held |-> FALSE, att |-> 0] \in AckMessage
      BY <3>1 DEF AckMessage
    <3>8. acks' \subseteq AckMessage
      BY <3>5, <3>7
    <3> QED BY <2>8, <3>3, <3>4, <3>6, <3>8 DEF Dispatch
  <2>9. ASSUME NEW a \in Agent, AckReturns(a) PROVE TypeOK'
    <3>1. Empty \in Hand /\ Empty.pc = "idle"
      BY DEF Empty, Hand
    <3> QED BY <2>9, <3>1 DEF AckReturns
  <2>10. ASSUME NEW a \in Agent, AgentDies(a) PROVE TypeOK'
    <3>1. Empty \in Hand /\ Empty.pc = "idle"
      BY DEF Empty, Hand
    <3>2. hand[a].job \in Job /\ hand[a].n \in Nat
      BY <2>10 DEF AgentDies, At, Hand
    <3> QED BY <2>10, <3>1, <3>2 DEF AgentDies
  <2>11. ASSUME NEW k \in acks, AckRead(k) PROVE TypeOK'
    <3>1. k \in AckMessage /\ job[k.j].attempts \in Nat
      BY DEF AckMessage, PrintJob
    <3>2. [k EXCEPT !.held = TRUE, !.att = job[k.j].attempts] \in AckMessage
      BY <3>1 DEF AckMessage
    <3> QED BY <2>11, <3>2 DEF AckRead
  <2>12. ASSUME NEW k \in acks, AckWrite(k) PROVE TypeOK'
    <3>1. k.j \in Job /\ Outcome(k) \in {"printed", "failed", "queued"}
      BY DEF AckMessage, Outcome
    <3>2. [job[k.j] EXCEPT !.st = Outcome(k), !.by = Nobody, !.exp = 0] \in PrintJob
      BY <3>1, RowWritten
    <3>3. job' = [job EXCEPT ![k.j] = [job[k.j] EXCEPT !.st = Outcome(k), !.by = Nobody, !.exp = 0]]
      BY <2>12, <3>1 DEF AckWrite, PrintJob
    <3> QED BY <2>12, <3>1, <3>2, <3>3 DEF AckWrite
  <2>13. ASSUME NEW k \in acks, AckLost(k) PROVE TypeOK'
    BY <2>13 DEF AckLost
  <2>14. CASE Tick
    BY <2>14 DEF Tick
  <2>15. CASE UNCHANGED vars
    BY <2>15 DEF vars
  <2> QED
    BY <2>1, <2>2, <2>3, <2>4, <2>5, <2>6, <2>7, <2>8, <2>9, <2>10, <2>11, <2>12, <2>13,
       <2>14, <2>15 DEF Next, AgentStep, AckStep
<1> QED BY <1>1, <1>2, PTL DEF Spec

----------------------------------------------------------------------------
(* A step that gives nobody a delivery, prints nothing and starts no job     *)
(* over keeps DeliveryInv.                                                   *)
LEMMA NothingDelivered ==
    ASSUME TypeOK, DeliveryInv, job' \in [Job -> PrintJob], UNCHANGED paper,
           \A j \in Job : /\ job'[j].attempts = job[j].attempts
                          /\ job'[j].st = "absent" => job[j].st = "absent",
           \A a \in Agent : hand'[a].pc = "printing" => hand'[a] = hand[a]
    PROVE  DeliveryInv'
<1>1. paper' = paper
  OBVIOUS
<1>2. FreshDelivery'
  <2> SUFFICES ASSUME NEW a \in Agent, hand'[a].pc = "printing"
               PROVE  /\ hand'[a].n \in 1..job'[hand'[a].job].attempts
                      /\ hand'[a].n \notin paper'[hand'[a].job]
                      /\ \A b \in Agent \ {a} : hand'[b].pc = "printing" =>
                            hand'[b].job # hand'[a].job \/ hand'[b].n # hand'[a].n
    BY DEF FreshDelivery, At
  <2>1. hand'[a] = hand[a] /\ At(a, "printing") /\ hand[a].job \in Job
    BY DEF At, TypeOK
  <2>2. job'[hand[a].job].attempts = job[hand[a].job].attempts
    BY <2>1
  <2> QED BY <1>1, <2>1, <2>2 DEF DeliveryInv, FreshDelivery, At
<1>3. ASSUME NEW j \in Job
      PROVE  /\ job'[j].attempts <= MaxAttempts
             /\ paper'[j] \subseteq 1..job'[j].attempts
             /\ job'[j].st = "absent" => job'[j].attempts = 0
  <2>1. job'[j].attempts = job[j].attempts
    OBVIOUS
  <2>2. job'[j].st = "absent" => job[j].st = "absent"
    OBVIOUS
  <2> QED BY <1>1, <2>1, <2>2 DEF DeliveryInv
<1> QED BY <1>2, <1>3 DEF DeliveryInv

\* A delivery that nobody else holds and nobody has printed may be printed.
LEMMA SheetOut ==
    ASSUME TypeOK, DeliveryInv, NEW a \in Agent, At(a, "printing"), NEW out \in BOOLEAN,
           NEW done \in Hand, done.pc # "printing", UNCHANGED job,
           hand' = [hand EXCEPT ![a] = done],
           paper' = [paper EXCEPT ![hand[a].job] = IF out THEN @ \cup {hand[a].n} ELSE @]
    PROVE  DeliveryInv'
<1> DEFINE j == hand[a].job
<1> DEFINE n == hand[a].n
<1>1. /\ j \in Job /\ n \in 1..job[j].attempts
      /\ \A b \in Agent \ {a} : At(b, "printing") => hand[b].job # j \/ hand[b].n # n
  BY DEF TypeOK, DeliveryInv, FreshDelivery, At
<1>2. /\ \A i \in Job : i # j => paper'[i] = paper[i]
      /\ paper'[j] \subseteq paper[j] \cup {n}
  BY <1>1 DEF TypeOK
<1>3. \A b \in Agent : hand'[b].pc = "printing" => b # a /\ hand'[b] = hand[b]
  BY DEF TypeOK
<1>4. FreshDelivery'
  <2> SUFFICES ASSUME NEW b \in Agent, hand'[b].pc = "printing"
               PROVE  /\ hand'[b].n \in 1..job'[hand'[b].job].attempts
                      /\ hand'[b].n \notin paper'[hand'[b].job]
                      /\ \A c \in Agent \ {b} : hand'[c].pc = "printing" =>
                            hand'[c].job # hand'[b].job \/ hand'[c].n # hand'[b].n
    BY DEF FreshDelivery, At
  <2>1. b # a /\ hand'[b] = hand[b] /\ At(b, "printing")
    BY <1>3 DEF At
  <2>2. hand[b].job \in Job
    BY <2>1 DEF TypeOK, At
  <2>3. hand[b].n \notin paper'[hand[b].job]
    BY <2>1, <2>2, <1>1, <1>2 DEF DeliveryInv, FreshDelivery
  <2> QED BY <2>1, <2>3, <1>3 DEF DeliveryInv, FreshDelivery, At
<1>5. \A i \in Job : paper'[i] \subseteq 1..job[i].attempts
  BY <1>1, <1>2 DEF DeliveryInv
<1> QED BY <1>4, <1>5 DEF DeliveryInv

\* A claim hands out a delivery of its own: one more than the job ever had.
LEMMA ClaimDelivers ==
    ASSUME TypeOK, DeliveryInv, NEW a \in Agent, Claim(a)
    PROVE  DeliveryInv'
<1>1. PICK j \in Job :
         /\ Claimable(job[j], hand[a].at)
         /\ job' = [job EXCEPT ![j] = [st |-> "claimed", by |-> a,
                      exp |-> hand[a].at + ClaimLease,
                      attempts |-> NextAttempt(j), born |-> job[j].born]]
         /\ \/ hand' = [hand EXCEPT ![a] = [pc |-> "printing", at |-> 0, job |-> j,
                          n |-> NextAttempt(j), until |-> hand[a].at + ClaimLease]]
            \/ unreliable /\ hand' = [hand EXCEPT ![a] = Empty]
  BY DEF Claim
<1> DEFINE n == job[j].attempts + 1
<1>2. /\ job[j].attempts \in Nat /\ job[j].attempts < MaxAttempts /\ MaxAttempts \in Nat
      /\ UNCHANGED paper
  BY <1>1, QueueAssumption DEF Claimable, TypeOK, PrintJob, Claim, rest
<1>3. /\ job'[j].attempts = n /\ job'[j].st = "claimed"
      /\ \A i \in Job : i # j => job'[i] = job[i]
  BY <1>1 DEF TypeOK, NextAttempt
<1>4. \A b \in Agent : hand'[b].pc = "printing" =>
          \/ b # a /\ hand'[b] = hand[b]
          \/ b = a /\ hand'[b].job = j /\ hand'[b].n = n
  BY <1>1 DEF TypeOK, NextAttempt, Empty
<1>5. \A b \in Agent : At(b, "printing") =>
          /\ hand[b].job \in Job
          /\ hand[b].n \in 1..job[hand[b].job].attempts
          /\ hand[b].n \notin paper[hand[b].job]
  BY DEF DeliveryInv, FreshDelivery, TypeOK, At
<1>6. FreshDelivery'
  <2> SUFFICES ASSUME NEW b \in Agent, hand'[b].pc = "printing"
               PROVE  /\ hand'[b].n \in 1..job'[hand'[b].job].attempts
                      /\ hand'[b].n \notin paper'[hand'[b].job]
                      /\ \A c \in Agent \ {b} : hand'[c].pc = "printing" =>
                            hand'[c].job # hand'[b].job \/ hand'[c].n # hand'[b].n
    BY DEF FreshDelivery, At
  <2>1. CASE b = a
    <3>1. hand'[b].job = j /\ hand'[b].n = n
      BY <2>1, <1>4
    <3>2. n \notin paper[j]
      BY <1>2 DEF DeliveryInv
    <3>3. \A c \in Agent \ {b} : hand'[c].pc = "printing" => hand[c].job # j \/ hand[c].n # n
      BY <2>1, <1>2, <1>4, <1>5 DEF At
    <3> QED BY <2>1, <3>1, <3>2, <3>3, <1>2, <1>3, <1>4
  <2>2. CASE b # a
    <3>1. hand'[b] = hand[b] /\ At(b, "printing") /\ hand[b].job \in Job
      BY <2>2, <1>4, <1>5 DEF At
    <3>2. hand[b].n \in 1..job'[hand[b].job].attempts
      BY <3>1, <1>2, <1>3, <1>5
    <3>3. \A c \in Agent \ {b} : hand'[c].pc = "printing" =>
              hand'[c].job # hand[b].job \/ hand'[c].n # hand[b].n
      <4> SUFFICES ASSUME NEW c \in Agent \ {b}, hand'[c].pc = "printing"
                   PROVE  hand'[c].job # hand[b].job \/ hand'[c].n # hand[b].n
        OBVIOUS
      <4>1. CASE c = a
        BY <4>1, <3>1, <1>2, <1>4, <1>5
      <4>2. CASE c # a
        BY <4>2, <3>1, <1>4 DEF DeliveryInv, FreshDelivery, At
      <4> QED BY <4>1, <4>2
    <3> QED BY <3>1, <3>2, <3>3, <1>2, <1>5
  <2> QED BY <2>1, <2>2
<1>7. \A i \in Job :
          /\ job'[i].attempts <= MaxAttempts
          /\ paper'[i] \subseteq 1..job'[i].attempts
          /\ job'[i].st = "absent" => job'[i].attempts = 0
  BY <1>2, <1>3 DEF DeliveryInv
<1> QED BY <1>6, <1>7 DEF DeliveryInv

\* The deliveries a job ever had are numbered 1..attempts and no two agents hold the same one,
\* whatever leases run out, answers get lost and acknowledgements arrive late.
THEOREM DeliveriesStayFresh == Spec => []DeliveryInv
<1>1. Init => DeliveryInv
  BY QueueAssumption DEF Init, DeliveryInv, FreshDelivery, At, Empty, NoJob
<1>2. TypeOK /\ TypeOK' /\ DeliveryInv /\ [Next]_vars => DeliveryInv'
  <2> SUFFICES ASSUME TypeOK, TypeOK', DeliveryInv, [Next]_vars
               PROVE  DeliveryInv'
    OBVIOUS
  <2>1. ASSUME NEW j \in Job, Enqueue(j) PROVE DeliveryInv'
    <3>1. /\ UNCHANGED <<hand, paper>> /\ job[j].attempts = 0 /\ job' \in [Job -> PrintJob]
      BY <2>1 DEF Enqueue, rest, DeliveryInv, TypeOK
    <3>2. \A i \in Job : /\ job'[i].attempts = job[i].attempts
                         /\ job'[i].st = "absent" => job[i].st = "absent"
      BY <2>1, <3>1 DEF Enqueue, NoJob, TypeOK
    <3> QED BY <3>1, <3>2, NothingDelivered
  <2>2. ASSUME NEW a \in Agent, BeginPoll(a) PROVE DeliveryInv'
    <3>1. \A b \in Agent : hand'[b].pc = "printing" => hand'[b] = hand[b]
      BY <2>2 DEF BeginPoll, Empty, TypeOK
    <3> QED BY <2>2, <3>1, NothingDelivered DEF BeginPoll, rest, TypeOK
  <2>3. ASSUME NEW a \in Agent, SweepLeases(a) PROVE DeliveryInv'
    <3>1. \A b \in Agent : hand'[b].pc = "printing" => hand'[b] = hand[b]
      BY <2>3 DEF SweepLeases, TypeOK, Hand
    <3>2. \A i \in Job : /\ job'[i].attempts = job[i].attempts
                         /\ job'[i].st = "absent" => job[i].st = "absent"
      <4> TAKE i \in Job
      <4>1. /\ [job[i] EXCEPT !.st = "queued", !.by = Nobody, !.exp = 0].attempts = job[i].attempts
            /\ [job[i] EXCEPT !.st = "queued", !.by = Nobody, !.exp = 0].st = "queued"
        BY DEF TypeOK, PrintJob
      <4>2. \/ job'[i] = [job[i] EXCEPT !.st = "queued", !.by = Nobody, !.exp = 0]
            \/ job'[i] = job[i]
        BY <2>3 DEF SweepLeases
      <4> QED BY <4>1, <4>2
    <3> QED BY <2>3, <3>1, <3>2, NothingDelivered DEF SweepLeases, rest, TypeOK
  <2>4. ASSUME NEW a \in Agent, SweepQueued(a) PROVE DeliveryInv'
    <3>1. \A b \in Agent : hand'[b].pc = "printing" => hand'[b] = hand[b]
      BY <2>4 DEF SweepQueued, TypeOK, Hand
    <3>2. \A i \in Job : /\ job'[i].attempts = job[i].attempts
                         /\ job'[i].st = "absent" => job[i].st = "absent"
      BY <2>4 DEF SweepQueued, TypeOK, PrintJob
    <3> QED BY <2>4, <3>1, <3>2, NothingDelivered DEF SweepQueued, rest, TypeOK
  <2>5. ASSUME NEW a \in Agent, Probe(a) PROVE DeliveryInv'
    <3>1. \A b \in Agent : hand'[b].pc = "printing" => hand'[b] = hand[b]
      BY <2>5 DEF Probe, Empty, TypeOK
    <3> QED BY <2>5, <3>1, NothingDelivered DEF Probe, rest, TypeOK
  <2>6. ASSUME NEW a \in Agent, Claim(a) PROVE DeliveryInv'
    BY <2>6, ClaimDelivers
  <2>7. ASSUME NEW a \in Agent, ClaimedByAnother(a) PROVE DeliveryInv'
    <3>1. \A b \in Agent : hand'[b].pc = "printing" => hand'[b] = hand[b]
      BY <2>7 DEF ClaimedByAnother, Missed, Empty, TypeOK
    <3> QED BY <2>7, <3>1, NothingDelivered DEF ClaimedByAnother, rest, TypeOK
  <2>8. ASSUME NEW a \in Agent, Dispatch(a) PROVE DeliveryInv'
    <3>1. At(a, "printing") /\ UNCHANGED job
      BY <2>8 DEF Dispatch
    <3>2. PICK out \in BOOLEAN :
             paper' = [paper EXCEPT ![hand[a].job] = IF out THEN @ \cup {hand[a].n} ELSE @]
      BY <2>8 DEF Dispatch
    <3>3. [hand[a] EXCEPT !.pc = "waiting"] \in Hand
      BY OpenHand DEF TypeOK
    <3>4. [hand[a] EXCEPT !.pc = "waiting"].pc # "printing"
      BY DEF TypeOK, Hand
    <3>5. hand' = [hand EXCEPT ![a] = [hand[a] EXCEPT !.pc = "waiting"]]
      BY <2>8 DEF Dispatch
    <3> QED BY <3>1, <3>2, <3>3, <3>4, <3>5, SheetOut
  <2>9. ASSUME NEW a \in Agent, AckReturns(a) PROVE DeliveryInv'
    <3>1. \A b \in Agent : hand'[b].pc = "printing" => hand'[b] = hand[b]
      BY <2>9 DEF AckReturns, Empty, TypeOK
    <3> QED BY <2>9, <3>1, NothingDelivered DEF AckReturns, rest, TypeOK
  <2>10. ASSUME NEW a \in Agent, AgentDies(a) PROVE DeliveryInv'
    <3>1. Empty \in Hand /\ Empty.pc # "printing"
      BY DEF Empty, Hand
    <3>2. PICK out \in BOOLEAN :
             paper' = [paper EXCEPT ![hand[a].job] = IF out THEN @ \cup {hand[a].n} ELSE @]
      BY <2>10 DEF AgentDies
    <3> QED BY <2>10, <3>1, <3>2, SheetOut DEF AgentDies
  <2>11. ASSUME NEW k \in acks, AckRead(k) PROVE DeliveryInv'
    BY <2>11, NothingDelivered DEF AckRead, rest, TypeOK
  <2>12. ASSUME NEW k \in acks, AckWrite(k) PROVE DeliveryInv'
    <3>1. k.j \in Job /\ Outcome(k) # "absent"
      BY DEF AckMessage, TypeOK, Outcome
    <3>2. \A i \in Job : /\ job'[i].attempts = job[i].attempts
                         /\ job'[i].st = "absent" => job[i].st = "absent"
      BY <2>12, <3>1 DEF AckWrite, TypeOK, PrintJob
    <3> QED BY <2>12, <3>2, NothingDelivered DEF AckWrite, rest, TypeOK
  <2>13. ASSUME NEW k \in acks, AckLost(k) PROVE DeliveryInv'
    BY <2>13, NothingDelivered DEF AckLost, rest, TypeOK
  <2>14. CASE Tick
    BY <2>14, NothingDelivered DEF Tick, rest, TypeOK
  <2>15. CASE UNCHANGED vars
    BY <2>15, NothingDelivered DEF vars, rest, TypeOK
  <2> QED
    BY <2>1, <2>2, <2>3, <2>4, <2>5, <2>6, <2>7, <2>8, <2>9, <2>10, <2>11, <2>12, <2>13,
       <2>14, <2>15 DEF Next, AgentStep, AckStep
<1> QED BY <1>1, <1>2, TypeCorrect, PTL DEF Spec

\* Every job is printed at most MaxAttempts times: claimable stops at the cap.
THEOREM PrintsStayWithinCap == Spec => []PrintsWithinCap
<1>1. TypeOK /\ DeliveryInv => PrintsWithinCap
  <2> SUFFICES ASSUME TypeOK, DeliveryInv, NEW j \in Job, NEW n \in paper[j]
               PROVE  n \in 1..MaxAttempts
    BY DEF PrintsWithinCap
  <2> QED BY QueueAssumption DEF TypeOK, PrintJob, DeliveryInv
<1> QED BY <1>1, DeliveriesStayFresh, TypeCorrect, PTL

----------------------------------------------------------------------------
(* The reliable shop: a claimed job is in the hands of the agent that       *)
(* claimed it, within its lease, until the acknowledgement is stored.       *)

InHand(j) ==
    LET a == job[j].by IN
    /\ a \in Agent /\ hand[a].pc \in {"printing", "waiting"} /\ hand[a].job = j /\ hand[a].n = job[j].attempts
    /\ hand[a].until = job[j].exp /\ now <= job[j].exp
    /\ hand[a].pc = "waiting" => \E k \in acks : k.j = j
\* A poll judges leases by a time that has come, and a claim by the present.
Clocks == \A a \in Agent : /\ hand[a].pc = "claim" => hand[a].at = now
                           /\ hand[a].pc \in {"requeue", "expire"} => hand[a].at <= now
Sent(k) == job[k.j].st = "claimed" /\ job[k.j].by = k.a /\ hand[k.a].pc = "waiting" /\ k.n = job[k.j].attempts
\* A good print is the job's last delivery, and the job is printed or the agent is about to say so.
Told(j) == \A n \in good[j] : n = job[j].attempts /\ (job[j].st = "printed" \/ \E k \in acks : k.j = j /\ k.ok)
PrinterHolds(a) == hand[a].pc = "printing" => job[hand[a].job].st = "claimed" /\ job[hand[a].job].by = a

HandInv ==
    /\ Clocks
    /\ \A j \in Job : (job[j].st = "claimed" => InHand(j)) /\ Told(j)
    /\ \A a \in Agent : PrinterHolds(a)
    /\ \A k \in acks : Sent(k) /\ \A l \in acks : k.j = l.j => k = l

LEMMA HandStart == Init => HandInv
<1> SUFFICES ASSUME Init PROVE HandInv
  OBVIOUS
<1>1. (\A j \in Job : job[j].st = "absent" /\ good[j] = {}) /\ (\A a \in Agent : hand[a].pc = "idle") /\ acks = {}
  BY DEF Init, NoJob, Empty
<1> QED BY <1>1 DEF HandInv, Clocks, Told, PrinterHolds

\* Jobs that nobody holds change, and agents that hold nothing.
LEMMA HandsStay ==
    ASSUME TypeOK, HandInv, UNCHANGED <<now, acks, good>>, Clocks',
           \A j \in Job : \/ job'[j] = job[j]
                          \/ /\ job[j].st \notin {"claimed", "printed"} /\ job'[j].st # "claimed"
                             /\ job'[j].attempts = job[j].attempts,
           \A a \in Agent : \/ hand'[a] = hand[a]
                            \/ /\ hand[a].pc # "printing" /\ (hand[a].pc = "waiting" => Answered(a))
                               /\ hand'[a].pc \notin {"printing", "waiting"}
    PROVE  HandInv'
<1>1. ASSUME NEW j \in Job, job[j].st = "claimed" PROVE hand'[job[j].by] = hand[job[j].by] /\ job'[j] = job[j]
  <2>1. InHand(j) /\ job[j].by \in Agent
    BY <1>1 DEF HandInv, InHand
  <2>2. ~(hand[job[j].by].pc = "waiting" /\ Answered(job[j].by))
    <3>1. ASSUME NEW k \in acks, k.j = j PROVE k.a = job[j].by /\ k.n = hand[job[j].by].n /\ k.j = hand[job[j].by].job
      BY <2>1, <3>1 DEF HandInv, Sent, InHand
    <3> QED BY <2>1, <3>1 DEF InHand, Answered
  <2> QED BY <1>1, <2>1, <2>2 DEF InHand
<1>2. ASSUME NEW j \in Job PROVE (job'[j].st = "claimed" => InHand(j)') /\ Told(j)'
  <2>1. ASSUME job'[j].st = "claimed" PROVE InHand(j)'
    <3>1. job[j].st = "claimed"
      BY <2>1
    <3>2. hand'[job[j].by] = hand[job[j].by] /\ job'[j] = job[j] /\ InHand(j)
      BY <1>1, <3>1 DEF HandInv
    <3> QED BY <3>2 DEF InHand
  <2>2. Told(j)'
    <3>1. ASSUME NEW k \in acks, k.j = j PROVE job'[j] = job[j]
      BY <1>1, <3>1 DEF HandInv, Sent
    <3> QED BY DEF HandInv, Told
  <2> QED BY <2>1, <2>2
<1>3. ASSUME NEW a \in Agent PROVE PrinterHolds(a)'
  <2> SUFFICES ASSUME hand'[a].pc = "printing" PROVE job'[hand'[a].job].st = "claimed" /\ job'[hand'[a].job].by = a
    BY DEF PrinterHolds
  <2>1. hand'[a] = hand[a] /\ hand[a].job \in Job
    BY DEF TypeOK
  <2>2. job[hand[a].job].st = "claimed" /\ job[hand[a].job].by = a
    BY <2>1 DEF HandInv, PrinterHolds
  <2> QED BY <1>1, <2>1, <2>2
<1>4. ASSUME NEW k \in acks PROVE Sent(k)'
  <2>1. k.j \in Job /\ Sent(k)
    BY DEF TypeOK, AckMessage, HandInv
  <2> QED BY <1>1, <2>1 DEF Sent
<1> QED BY <1>2, <1>3, <1>4 DEF HandInv

LEMMA NoLeaseOver ==
    ASSUME TypeOK, HandInv, NEW j \in Job, NEW t \in Nat, t <= now
    PROVE  ~LeaseOver(job[j], t)
<1>1. job[j].exp \in Nat /\ now \in Nat
  BY DEF TypeOK, PrintJob
<1> QED BY <1>1 DEF HandInv, InHand, LeaseOver

\* What a poll does before and around the claim.
LEMMA PollKeepsHands ==
    ASSUME TypeOK, HandInv, NEW a \in Agent,
           BeginPoll(a) \/ SweepLeases(a) \/ SweepQueued(a) \/ Probe(a) \/ ClaimedByAnother(a) \/ AckReturns(a), ~unreliable
    PROVE  HandInv'
<1>1. UNCHANGED <<now, acks, good>> /\ now \in Nat
  BY DEF BeginPoll, SweepLeases, SweepQueued, Probe, ClaimedByAnother, AckReturns, rest, TypeOK
<1>2. \A b \in Agent : b # a => hand'[b] = hand[b]
  BY DEF BeginPoll, SweepLeases, SweepQueued, Probe, ClaimedByAnother, AckReturns, TypeOK
<1>3. /\ hand[a].pc # "printing" /\ (hand[a].pc = "waiting" => Answered(a)) /\ hand'[a].pc \notin {"printing", "waiting"}
      /\ hand'[a].pc = "claim" => hand'[a].at = now
      /\ hand'[a].pc \in {"requeue", "expire"} => hand'[a].at <= now
  <2>1. CASE BeginPoll(a)
    BY <1>1, <2>1 DEF BeginPoll, At, Empty, TypeOK
  <2>2. CASE SweepLeases(a)
    <3>1. hand[a].pc = "requeue" /\ hand[a].at <= now /\ hand[a] \in Hand
      BY <2>2 DEF SweepLeases, At, HandInv, Clocks, TypeOK
    <3>2. hand'[a] = [hand[a] EXCEPT !.pc = "expire"]
      BY <2>2 DEF SweepLeases, TypeOK
    <3> QED BY <3>1, <3>2 DEF Hand
  <2>3. CASE SweepQueued(a)
    <3>1. hand[a].pc = "expire" /\ hand[a] \in Hand
      BY <2>3 DEF SweepQueued, At, TypeOK
    <3>2. hand'[a] = [hand[a] EXCEPT !.pc = "probe"]
      BY <2>3 DEF SweepQueued, TypeOK
    <3> QED BY <3>1, <3>2 DEF Hand
  <2>4. CASE Probe(a)
    BY <2>4 DEF Probe, At, Empty, TypeOK
  <2>5. CASE ClaimedByAnother(a)
    BY <2>5 DEF ClaimedByAnother, Missed, At, Empty, TypeOK
  <2>6. CASE AckReturns(a)
    BY <2>6 DEF AckReturns, At, Empty, TypeOK
  <2> QED BY <2>1, <2>2, <2>3, <2>4, <2>5, <2>6
<1>4. Clocks'
  BY <1>1, <1>2, <1>3 DEF Clocks, HandInv
<1>5. ASSUME NEW j \in Job
      PROVE  \/ job'[j] = job[j]
             \/ job[j].st \notin {"claimed", "printed"} /\ job'[j].st # "claimed" /\ job'[j].attempts = job[j].attempts
  <2>1. CASE SweepLeases(a)
    <3>1. hand[a].at \in Nat /\ hand[a].at <= now
      BY <2>1 DEF SweepLeases, At, HandInv, Clocks, TypeOK, Hand
    <3> QED BY <2>1, <3>1, NoLeaseOver DEF SweepLeases
  <2>2. CASE SweepQueued(a)
    <3>1. job[j] \in PrintJob
      BY DEF TypeOK
    <3>2. [job[j] EXCEPT !.st = "expired"].st = "expired" /\ [job[j] EXCEPT !.st = "expired"].attempts = job[j].attempts
      BY <3>1 DEF PrintJob
    <3> QED BY <2>2, <3>2 DEF SweepQueued, TooOld
  <2>3. CASE UNCHANGED job
    BY <2>3
  <2> QED BY <2>1, <2>2, <2>3 DEF BeginPoll, Probe, ClaimedByAnother, AckReturns
<1> QED BY <1>1, <1>2, <1>3, <1>4, <1>5, HandsStay

LEMMA EnqueueKeepsHands ==
    ASSUME TypeOK, DeliveryInv, HandInv, NEW j \in Job, Enqueue(j)
    PROVE  HandInv'
<1>1. UNCHANGED <<now, acks, good>> /\ UNCHANGED hand /\ Clocks'
  BY DEF Enqueue, rest, HandInv, Clocks
<1>2. \A i \in Job : \/ job'[i] = job[i]
                     \/ job[i].st \notin {"claimed", "printed"} /\ job'[i].st # "claimed" /\ job'[i].attempts = job[i].attempts
  BY DEF Enqueue, NoJob, DeliveryInv, TypeOK
<1> QED BY <1>1, <1>2, HandsStay

LEMMA ClaimKeepsHands ==
    ASSUME TypeOK, HandInv, NEW a \in Agent, Claim(a), ~unreliable
    PROVE  HandInv'
<1>1. PICK j \in Job :
         /\ Claimable(job[j], hand[a].at)
         /\ job' = [job EXCEPT ![j] = [st |-> "claimed", by |-> a, exp |-> hand[a].at + ClaimLease,
                      attempts |-> NextAttempt(j), born |-> job[j].born]]
         /\ hand' = [hand EXCEPT ![a] = [pc |-> "printing", at |-> 0, job |-> j,
                          n |-> NextAttempt(j), until |-> hand[a].at + ClaimLease]]
  BY DEF Claim
<1>2. UNCHANGED <<now, acks, good>> /\ hand[a].pc = "claim" /\ hand[a].at = now /\ now \in Nat
  BY DEF Claim, rest, At, HandInv, Clocks, TypeOK
<1> PICK n : n = NextAttempt(j)
  OBVIOUS
<1>3. job[j].st = "queued"
  BY <1>1, <1>2, NoLeaseOver DEF Claimable
<1>4. /\ job'[j].st = "claimed" /\ job'[j].by = a /\ job'[j].exp = now + ClaimLease /\ job'[j].attempts = n
      /\ \A i \in Job : i # j => job'[i] = job[i]
  BY <1>1, <1>2 DEF TypeOK
<1>5. /\ hand'[a].pc = "printing" /\ hand'[a].job = j /\ hand'[a].n = n /\ hand'[a].until = now + ClaimLease
      /\ \A b \in Agent : b # a => hand'[b] = hand[b]
  BY <1>1, <1>2 DEF TypeOK
<1>6. Clocks'
  BY <1>2, <1>5 DEF HandInv, Clocks
<1>7. ASSUME NEW i \in Job, i # j, job[i].st = "claimed" PROVE job[i].by # a /\ InHand(i)'
  <2>1. InHand(i)
    BY <1>7 DEF HandInv
  <2>2. job[i].by # a
    BY <1>2, <2>1 DEF InHand
  <2> QED BY <1>2, <1>4, <1>5, <1>7, <2>1, <2>2 DEF InHand
<1>8. InHand(j)'
  BY <1>2, <1>4, <1>5, QueueAssumption DEF InHand
<1>9. \A k \in acks : k.j # j /\ k.j \in Job
  BY <1>3 DEF HandInv, Sent, TypeOK, AckMessage
<1>10. ASSUME NEW i \in Job PROVE Told(i)'
  <2>1. CASE i = j
    BY <1>2, <1>3, <1>9, <2>1 DEF HandInv, Told
  <2>2. CASE i # j
    BY <1>2, <1>4, <2>2 DEF HandInv, Told
  <2> QED BY <2>1, <2>2
<1>11. ASSUME NEW b \in Agent PROVE PrinterHolds(b)'
  <2>1. CASE b = a
    BY <1>4, <1>5, <2>1 DEF PrinterHolds
  <2>2. CASE b # a /\ hand[b].pc = "printing"
    <3>1. job[hand[b].job].st = "claimed" /\ hand[b].job \in Job /\ job[hand[b].job].by = b
      BY <2>2 DEF HandInv, PrinterHolds, TypeOK
    <3> QED BY <1>3, <1>4, <1>5, <2>2, <3>1 DEF PrinterHolds
  <2> QED BY <1>5, <2>1, <2>2 DEF PrinterHolds
<1>12. ASSUME NEW k \in acks PROVE Sent(k)'
  <2>1. Sent(k) /\ k.a # a /\ k.a \in Agent
    BY <1>2 DEF HandInv, Sent, TypeOK, AckMessage
  <2> QED BY <1>4, <1>5, <1>9, <2>1 DEF Sent
<1> QED BY <1>2, <1>4, <1>6, <1>7, <1>8, <1>10, <1>11, <1>12 DEF HandInv

LEMMA DispatchKeepsHands ==
    ASSUME TypeOK, HandInv, NEW a \in Agent, Dispatch(a)
    PROVE  HandInv'
<1> PICK j, n : j = hand[a].job /\ n = hand[a].n
  OBVIOUS
<1>1. j \in Job /\ job[j].st = "claimed" /\ job[j].by = a /\ hand[a].pc = "printing" /\ hand[a] \in Hand /\ InHand(j)
      /\ UNCHANGED <<job, now>> /\ n = job[j].attempts
  BY DEF Dispatch, At, HandInv, PrinterHolds, TypeOK, InHand
<1>2. PICK ok \in BOOLEAN :
             /\ good' = [good EXCEPT ![j] = IF ok THEN @ \cup {n} ELSE @]
             /\ acks' = acks \cup {[a |-> a, j |-> j, n |-> n, ok |-> ok, held |-> FALSE, att |-> 0]}
  BY DEF Dispatch
<1> PICK m : m = [a |-> a, j |-> j, n |-> n, ok |-> ok, held |-> FALSE, att |-> 0]
  OBVIOUS
<1>3. m \in acks' /\ m.a = a /\ m.j = j /\ m.n = n /\ m.ok = ok /\ \A k \in acks' : k \in acks \/ k = m
  BY <1>2
<1>4. /\ hand'[a].pc = "waiting" /\ hand'[a].job = j /\ hand'[a].n = n /\ hand'[a].until = hand[a].until
      /\ \A b \in Agent : b # a => hand'[b] = hand[b]
  <2>1. hand' = [hand EXCEPT ![a] = [hand[a] EXCEPT !.pc = "waiting"]]
    BY DEF Dispatch
  <2> QED BY <1>1, <2>1 DEF TypeOK, Hand
<1>5. Clocks'
  BY <1>1, <1>4 DEF HandInv, Clocks
<1>6. \A k \in acks : k.j # j /\ Sent(k) /\ k.a # a /\ k.a \in Agent
  BY <1>1 DEF HandInv, Sent, TypeOK, AckMessage
<1>7. ASSUME NEW i \in Job, job[i].st = "claimed" PROVE InHand(i)'
  <2>1. CASE i = j
    BY <1>1, <1>3, <1>4, <2>1 DEF InHand
  <2>2. CASE i # j
    <3>1. InHand(i) /\ job[i].by # a
      BY <1>7, <2>2 DEF HandInv, InHand
    <3> QED BY <1>1, <1>2, <1>4, <3>1 DEF InHand
  <2> QED BY <2>1, <2>2
<1>8. ASSUME NEW i \in Job PROVE Told(i)'
  <2>1. CASE i = j
    <3>1. good[j] = {}
      BY <1>1, <1>6 DEF HandInv, Told
    <3>2. good'[j] = IF ok THEN {n} ELSE {}
      BY <1>1, <1>2, <3>1 DEF TypeOK
    <3> QED BY <1>1, <1>3, <2>1, <3>2 DEF Told
  <2>2. CASE i # j
    <3>1. good'[i] = good[i]
      BY <1>2, <2>2 DEF TypeOK
    <3> QED BY <1>1, <1>2, <3>1 DEF HandInv, Told
  <2> QED BY <2>1, <2>2
<1>9. ASSUME NEW b \in Agent PROVE PrinterHolds(b)'
  BY <1>1, <1>4 DEF HandInv, PrinterHolds
<1>10. ASSUME NEW k \in acks' PROVE Sent(k)' /\ \A l \in acks' : k.j = l.j => k = l
  <2>1. Sent(k)'
    BY <1>1, <1>3, <1>4, <1>6 DEF Sent
  <2>2. \A l \in acks' : k.j = l.j => k = l
    BY <1>3, <1>6 DEF HandInv
  <2> QED BY <2>1, <2>2
<1> QED BY <1>1, <1>5, <1>7, <1>8, <1>9, <1>10 DEF HandInv

LEMMA AckReadKeepsHands ==
    ASSUME TypeOK, HandInv, NEW k \in acks, AckRead(k)
    PROVE  HandInv'
<1>1. k \in AckMessage /\ Sent(k) /\ UNCHANGED <<job, now, hand, good>>
  BY DEF TypeOK, HandInv, AckRead, rest
<1> PICK m : m = [k EXCEPT !.held = TRUE, !.att = job[k.j].attempts]
  OBVIOUS
<1>2. acks' = (acks \ {k}) \cup {m}
  BY <1>1 DEF AckRead, Sent
<1>3. m.j = k.j /\ m.a = k.a /\ m.n = k.n /\ m.ok = k.ok
  BY <1>1 DEF AckMessage
<1>4. \A i, b : (\E l \in acks : l.j = i /\ (b => l.ok)) => \E l \in acks' : l.j = i /\ (b => l.ok)
  BY <1>2, <1>3
<1>5. ASSUME NEW j \in Job PROVE (job'[j].st = "claimed" => InHand(j)') /\ Told(j)'
  <2>1. (\E l \in acks : l.j = j) => \E l \in acks' : l.j = j
    BY <1>2, <1>3
  <2>2. (\E l \in acks : l.j = j /\ l.ok) => \E l \in acks' : l.j = j /\ l.ok
    BY <1>2, <1>3
  <2> QED BY <1>1, <2>1, <2>2 DEF HandInv, InHand, Told
<1>6. ASSUME NEW l \in acks' PROVE Sent(l)' /\ \A o \in acks' : l.j = o.j => l = o
  <2>1. Sent(l)'
    <3>1. \E o \in acks : l.j = o.j /\ l.a = o.a /\ l.n = o.n
      BY <1>2, <1>3
    <3>2. \A o \in acks : Sent(o)
      BY DEF HandInv
    <3> QED BY <1>1, <3>1, <3>2 DEF Sent
  <2>2. ASSUME NEW o \in acks', l.j = o.j PROVE l = o
    <3>1. (l = m \/ l \in acks \ {k}) /\ (o = m \/ o \in acks \ {k})
      BY <1>2
    <3>2. \A x, y \in acks : x.j = y.j => x = y
      BY DEF HandInv
    <3> QED BY <1>3, <2>2, <3>1, <3>2
  <2> QED BY <2>1, <2>2
<1>7. Clocks' /\ \A a \in Agent : PrinterHolds(a)'
  BY <1>1 DEF HandInv, Clocks, PrinterHolds
<1> QED BY <1>5, <1>6, <1>7 DEF HandInv

LEMMA AckWriteKeepsHands ==
    ASSUME TypeOK, HandInv, NEW k \in acks, AckWrite(k)
    PROVE  HandInv'
<1>1. /\ k.j \in Job /\ k.a \in Agent /\ Sent(k) /\ UNCHANGED <<now, hand, good>> /\ acks' = acks \ {k}
      /\ job[k.j] \in PrintJob /\ \A l \in acks' : l.j # k.j
  BY DEF TypeOK, AckMessage, HandInv, AckWrite, rest
<1>2. /\ job'[k.j].st = Outcome(k) /\ job'[k.j].attempts = job[k.j].attempts
      /\ \A i \in Job : i # k.j => job'[i] = job[i]
  BY <1>1 DEF AckWrite, TypeOK, PrintJob
<1>3. job'[k.j].st # "claimed" /\ (k.ok => job'[k.j].st = "printed")
  <2>1. k.ok \in BOOLEAN
    BY DEF TypeOK, AckMessage
  <2>2. CASE k.ok
    BY <1>2, <2>2 DEF Outcome
  <2>3. CASE ~k.ok
    BY <1>2, <2>3 DEF Outcome
  <2> QED BY <2>1, <2>2, <2>3
<1>4. ASSUME NEW j \in Job PROVE (job'[j].st = "claimed" => InHand(j)') /\ Told(j)'
  <2>1. CASE j = k.j
    <3>1. \A n \in good[j] : n = job[j].attempts /\ k.ok
      BY <1>1, <2>1 DEF HandInv, Told, Sent
    <3> QED BY <1>1, <1>2, <1>3, <2>1, <3>1 DEF Told
  <2>2. CASE j # k.j
    <3>1. \A l \in acks : l.j = j => l \in acks'
      BY <1>1, <2>2
    <3> QED BY <1>1, <1>2, <2>2, <3>1 DEF HandInv, InHand, Told
  <2> QED BY <2>1, <2>2
<1>5. ASSUME NEW a \in Agent PROVE PrinterHolds(a)'
  <2> SUFFICES ASSUME hand[a].pc = "printing" PROVE job'[hand[a].job].st = "claimed" /\ job'[hand[a].job].by = a
    BY <1>1 DEF PrinterHolds
  <2>1. job[hand[a].job].by = a /\ hand[a].job \in Job /\ job[hand[a].job].st = "claimed"
    BY DEF HandInv, PrinterHolds, TypeOK
  <2>2. hand[a].job # k.j
    BY <1>1, <2>1 DEF Sent
  <2> QED BY <1>2, <2>1, <2>2
<1>6. ASSUME NEW l \in acks' PROVE Sent(l)' /\ \A o \in acks' : l.j = o.j => l = o
  <2>1. l \in acks /\ l.j # k.j /\ l.j \in Job
    BY <1>1 DEF TypeOK, AckMessage
  <2> QED BY <1>1, <1>2, <2>1 DEF HandInv, Sent
<1>7. Clocks'
  BY <1>1 DEF HandInv, Clocks
<1> QED BY <1>4, <1>5, <1>6, <1>7 DEF HandInv

LEMMA TickKeepsHands ==
    ASSUME TypeOK, HandInv, Tick, ~unreliable
    PROVE  HandInv'
<1>1. UNCHANGED <<job, hand, acks, good>> /\ now' = now + 1 /\ now \in Nat
  BY DEF Tick, rest, TypeOK
<1>2. \A a \in Agent : hand[a].pc # "claim" /\ (hand[a].pc \in {"printing", "waiting"} => now < hand[a].until)
                       /\ hand[a].at \in Nat /\ hand[a].until \in Nat
  BY DEF Tick, At, TypeOK, Hand
<1>3. Clocks'
  BY <1>1, <1>2 DEF HandInv, Clocks
<1>4. \A j \in Job : job[j].st = "claimed" => InHand(j)'
  BY <1>1, <1>2 DEF HandInv, InHand
<1>5. (\A j \in Job : Told(j)') /\ (\A a \in Agent : PrinterHolds(a)') /\ (\A k \in acks : Sent(k)')
  BY <1>1 DEF HandInv, Told, PrinterHolds, Sent
<1> QED BY <1>1, <1>3, <1>4, <1>5 DEF HandInv

TimelyInv == ~unreliable => HandInv

LEMMA TimelyInductive == TypeOK /\ DeliveryInv /\ TimelyInv /\ [Next]_vars => TimelyInv'
<1> SUFFICES ASSUME TypeOK, DeliveryInv, TimelyInv, [Next]_vars, ~unreliable' PROVE HandInv'
  BY DEF TimelyInv
<1>1. UNCHANGED unreliable
  BY DEF Next, AgentStep, AckStep, Enqueue, BeginPoll, SweepLeases, SweepQueued, Probe, Claim, ClaimedByAnother, Dispatch,
         AckReturns, AgentDies, AckRead, AckWrite, AckLost, Tick, vars, rest
<1>2. ~unreliable /\ HandInv
  BY <1>1 DEF TimelyInv
<1>3. CASE UNCHANGED vars
  <2>1. UNCHANGED <<now, acks, good>> /\ UNCHANGED <<job, hand>>
    BY <1>3 DEF vars, rest
  <2>2. Clocks'
    BY <1>2, <2>1 DEF HandInv, Clocks
  <2> QED BY <1>2, <2>1, <2>2, HandsStay
<1>4. ASSUME NEW a \in Agent, AgentStep(a) \/ AgentDies(a) PROVE HandInv'
  BY <1>2, <1>4, PollKeepsHands, ClaimKeepsHands, DispatchKeepsHands DEF AgentStep, AgentDies
<1>5. ASSUME NEW k \in acks, AckRead(k) \/ AckWrite(k) \/ AckLost(k) PROVE HandInv'
  BY <1>2, <1>5, AckReadKeepsHands, AckWriteKeepsHands DEF AckLost
<1> QED BY <1>2, <1>3, <1>4, <1>5, EnqueueKeepsHands, TickKeepsHands DEF Next, AckStep

LEMMA TimelyStays == Spec => []TimelyInv
<1>1. Init => TimelyInv
  BY HandStart DEF TimelyInv
<1> QED BY <1>1, TimelyInductive, TypeCorrect, DeliveriesStayFresh, PTL DEF Spec

\* While agents print and acknowledge within the lease and nothing is lost, a job that came out well
\* never comes out again, for any jobs, agents, lease and cap (queue.go: the lease of claimOnce).
THEOREM NeverReprinted == Spec => []NoReprint
<1>1. TypeOK /\ DeliveryInv /\ TimelyInv => NoReprint
  <2> SUFFICES ASSUME TypeOK, DeliveryInv, HandInv, NEW j \in Job
               PROVE  Cardinality(good[j]) <= 1 /\ \A n \in good[j] : paper[j] \subseteq 1..n
    BY DEF NoReprint, TimelyInv
  <2>1. \A n \in good[j] : n = job[j].attempts
    BY DEF HandInv, Told
  <2>2. Cardinality(good[j]) <= 1
    <3>1. CASE good[j] = {}
      BY <3>1, FS_EmptySet
    <3>2. CASE good[j] # {}
      <4>1. good[j] = {job[j].attempts}
        BY <2>1, <3>2
      <4>2. Cardinality({job[j].attempts}) = 1
        BY FS_Singleton
      <4> QED BY <4>1, <4>2
    <3> QED BY <3>1, <3>2
  <2>3. paper[j] \subseteq 1..job[j].attempts
    BY DEF DeliveryInv
  <2> QED BY <2>1, <2>2, <2>3
<1> QED BY <1>1, TimelyStays, TypeCorrect, DeliveriesStayFresh, PTL

\* An acknowledgement that is stored finds the job still claimed.
LEMMA FinalSteps ==
    ASSUME TypeOK, HandInv, Next, NEW j \in Job, job[j].st \in Final
    PROVE  job'[j].st = job[j].st
<1>1. job[j].st \notin {"absent", "queued", "claimed"}
  BY DEF Final
<1>2. ASSUME NEW i \in Job, Enqueue(i) PROVE job'[j].st = job[j].st
  <2>1. i # j /\ \A h \in Job : h # i => job'[h] = job[h]
    BY <1>1, <1>2 DEF Enqueue, TypeOK
  <2> QED BY <2>1
<1>3. ASSUME NEW a \in Agent, SweepLeases(a) \/ SweepQueued(a) PROVE job'[j].st = job[j].st
  BY <1>1, <1>3 DEF SweepLeases, SweepQueued, LeaseOver, TooOld
<1>4. ASSUME NEW a \in Agent, Claim(a) PROVE job'[j].st = job[j].st
  <2>1. PICK i \in Job : Claimable(job[i], hand[a].at) /\ \A h \in Job : h # i => job'[h] = job[h]
    BY <1>4 DEF Claim, TypeOK
  <2>2. i # j
    BY <1>1, <2>1 DEF Claimable, LeaseOver
  <2> QED BY <2>1, <2>2
<1>5. ASSUME NEW k \in acks, AckWrite(k) PROVE job'[j].st = job[j].st
  <2>1. job[k.j].st = "claimed" /\ k.j \in Job
    BY DEF HandInv, Sent, TypeOK, AckMessage
  <2>2. \A h \in Job : h # k.j => job'[h] = job[h]
    BY <1>5, <2>1 DEF AckWrite, TypeOK
  <2> QED BY <1>1, <2>1, <2>2
<1>6. CASE UNCHANGED job
  BY <1>6
<1> QED BY <1>2, <1>3, <1>4, <1>5, <1>6 DEF Next, AgentStep, AckStep, BeginPoll, Probe, ClaimedByAnother, Dispatch,
           AckReturns, AgentDies, AckRead, AckLost, Tick

\* In the reliable shop what is printed, failed or expired stays so (queue.go, Ack).
THEOREM FinalStaysWhenTimely == Spec => FinalWhenTimely
<1>1. TypeOK /\ TimelyInv /\ [Next]_vars
      => [~unreliable => \A j \in Job : job[j].st \in Final => job'[j].st = job[j].st]_vars
  BY FinalSteps DEF TimelyInv
<1> QED BY <1>1, TypeCorrect, TimelyStays, PTL DEF Spec, FinalWhenTimely

\* Then, too, no two agents print the same job at once within its lease (queue.go:26-28).
THEOREM LeaseStaysHeld == Spec => []LeaseHeld
<1>1. TypeOK /\ TimelyInv => LeaseHeld
  BY DEF TimelyInv, HandInv, PrinterHolds, LeaseHeld, At
<1> QED BY <1>1, TimelyStays, TypeCorrect, PTL

----------------------------------------------------------------------------
(* The queue implements CappedDelivery                                      *)

\* A step that sends no acknowledgement, prints nothing new and takes no attempt back.
LEMMA AcksStand ==
    ASSUME TypeOK, TypeOK', AckInv,
           \A k \in acks' \ acks : /\ k.ok => k.n \in paper'[k.j]
                                   /\ k.held => k.att <= job'[k.j].attempts,
           \A j \in Job : paper[j] \subseteq paper'[j] /\ job[j].attempts <= job'[j].attempts
    PROVE  AckInv'
<1> SUFFICES ASSUME NEW k \in acks', k \in acks
             PROVE  /\ k.ok => k.n \in paper'[k.j]
                    /\ k.held => k.att <= job'[k.j].attempts
  BY DEF AckInv
<1>1. k.j \in Job /\ k.att \in Nat /\ job[k.j].attempts \in Nat /\ job'[k.j].attempts \in Nat
  BY DEF TypeOK, AckMessage, PrintJob
<1>2. /\ k.ok => k.n \in paper[k.j]
      /\ k.held => k.att <= job[k.j].attempts
  BY DEF AckInv
<1>3. paper[k.j] \subseteq paper'[k.j] /\ job[k.j].attempts <= job'[k.j].attempts
  BY <1>1
<1> QED BY <1>1, <1>2, <1>3

\* No step gives a job fewer attempts or takes a print back.
LEMMA OnlyMore ==
    ASSUME TypeOK, TypeOK', DeliveryInv, [Next]_vars
    PROVE  \A j \in Job : paper[j] \subseteq paper'[j] /\ job[j].attempts <= job'[j].attempts
<1>0. \A j \in Job : job[j].attempts \in Nat /\ job'[j].attempts \in Nat
  BY DEF TypeOK, PrintJob
<1>1. \A j \in Job : paper[j] \subseteq paper'[j]
  <2>1. ASSUME NEW a \in Agent, Dispatch(a) \/ AgentDies(a) PROVE \A j \in Job : paper[j] \subseteq paper'[j]
    <3>1. \E out \in BOOLEAN :
             paper' = [paper EXCEPT ![hand[a].job] = IF out THEN @ \cup {hand[a].n} ELSE @]
      <4>1. CASE Dispatch(a)
        BY <4>1 DEF Dispatch
      <4>2. CASE AgentDies(a)
        BY <4>2 DEF AgentDies
      <4> QED BY <2>1, <4>1, <4>2
    <3> QED BY <3>1 DEF TypeOK
  <2>2. ASSUME UNCHANGED paper PROVE \A j \in Job : paper[j] \subseteq paper'[j]
    BY <2>2
  <2>3. ASSUME NEW a \in Agent, AgentStep(a), ~Dispatch(a) PROVE UNCHANGED paper
    BY <2>3 DEF AgentStep, BeginPoll, SweepLeases, SweepQueued, Probe, Claim,
       ClaimedByAnother, AckReturns, rest
  <2>4. AckStep \/ (\E k \in acks : AckLost(k)) \/ (\E j \in Job : Enqueue(j)) \/ Tick
          \/ UNCHANGED vars => UNCHANGED paper
    BY DEF AckStep, AckRead, AckWrite, AckLost, Enqueue, Tick, vars, rest
  <2> QED BY <2>1, <2>2, <2>3, <2>4 DEF Next
<1> DEFINE More == \A j \in Job : job[j].attempts <= job'[j].attempts
<1>2. ASSUME NEW a \in Agent, Claim(a) PROVE More
  <2>1. PICK j \in Job :
          job' = [job EXCEPT ![j] = [st |-> "claimed", by |-> a,
                      exp |-> hand[a].at + ClaimLease,
                      attempts |-> NextAttempt(j), born |-> job[j].born]]
    BY <1>2 DEF Claim
  <2>2. job'[j].attempts = job[j].attempts + 1 /\ \A i \in Job : i # j => job'[i] = job[i]
    BY <2>1 DEF TypeOK, NextAttempt
  <2> QED BY <1>0, <2>2
<1>3. ASSUME NEW a \in Agent, SweepLeases(a) \/ SweepQueued(a) PROVE More
  <2>1. ASSUME NEW j \in Job PROVE job'[j].attempts = job[j].attempts
    <3>1. /\ [job[j] EXCEPT !.st = "queued", !.by = Nobody, !.exp = 0].attempts = job[j].attempts
          /\ [job[j] EXCEPT !.st = "expired"].attempts = job[j].attempts
      BY DEF TypeOK, PrintJob
    <3>2. \/ job'[j] = [job[j] EXCEPT !.st = "queued", !.by = Nobody, !.exp = 0]
          \/ job'[j] = [job[j] EXCEPT !.st = "expired"]
          \/ job'[j] = job[j]
      BY <1>3 DEF SweepLeases, SweepQueued
    <3> QED BY <3>1, <3>2
  <2> QED BY <1>0, <2>1
<1>4. ASSUME NEW k \in acks, AckWrite(k) PROVE More
  <2>1. \A j \in Job : job'[j].attempts = job[j].attempts
    BY <1>4 DEF AckWrite, TypeOK, PrintJob
  <2> QED BY <1>0, <2>1
<1>5. ASSUME NEW j \in Job, Enqueue(j) PROVE More
  <2>1. job[j].attempts = 0 /\ \A i \in Job : i # j => job'[i] = job[i]
    BY <1>5 DEF Enqueue, TypeOK, DeliveryInv
  <2> QED BY <1>0, <2>1
<1>6. ASSUME UNCHANGED job PROVE More
  BY <1>0, <1>6
<1> HIDE DEF More
<1>7. ASSUME NEW a \in Agent, AgentStep(a) \/ AgentDies(a), ~Claim(a), ~SweepLeases(a),
             ~SweepQueued(a)
      PROVE  UNCHANGED job
  BY <1>7 DEF AgentStep, AgentDies, BeginPoll, Probe, ClaimedByAnother, Dispatch, AckReturns
<1>8. (\E k \in acks : AckRead(k) \/ AckLost(k)) \/ Tick \/ UNCHANGED vars => UNCHANGED job
  BY DEF AckRead, AckLost, Tick, vars
<1>9. More
  BY <1>2, <1>3, <1>4, <1>5, <1>6, <1>7, <1>8 DEF Next, AckStep
<1> QED BY <1>1, <1>9 DEF More

LEMMA AckInductive == TypeOK /\ TypeOK' /\ DeliveryInv /\ AckInv /\ [Next]_vars => AckInv'
<1> SUFFICES ASSUME TypeOK, TypeOK', DeliveryInv, AckInv, [Next]_vars PROVE AckInv'
  OBVIOUS
<1> DEFINE New == \A k \in acks' \ acks : /\ k.ok => k.n \in paper'[k.j]
                                          /\ k.held => k.att <= job'[k.j].attempts
<1>1. ASSUME NEW a \in Agent, Dispatch(a) PROVE New
  <2>1. PICK ok, out \in BOOLEAN :
           /\ ok => out
           /\ paper' = [paper EXCEPT ![hand[a].job] = IF out THEN @ \cup {hand[a].n} ELSE @]
           /\ acks' = acks \cup {[a |-> a, j |-> hand[a].job, n |-> hand[a].n, ok |-> ok,
                                  held |-> FALSE, att |-> 0]}
    BY <1>1 DEF Dispatch
  <2>2. hand[a].job \in Job
    BY <1>1 DEF Dispatch, At, TypeOK
  <2>3. ok => hand[a].n \in paper'[hand[a].job]
    BY <2>1, <2>2 DEF TypeOK
  <2>4. \A k \in acks' \ acks : /\ k.j = hand[a].job /\ k.n = hand[a].n /\ k.ok = ok
                                /\ k.held = FALSE
    BY <2>1
  <2> QED BY <2>3, <2>4
<1>2. ASSUME NEW k \in acks, AckRead(k) PROVE New
  <2> DEFINE m == [k EXCEPT !.held = TRUE, !.att = job[k.j].attempts]
  <2>1. acks' \ acks \subseteq {m} /\ UNCHANGED <<job, paper>>
    BY <1>2 DEF AckRead, rest
  <2>2. k \in AckMessage /\ k.j \in Job /\ job[k.j].attempts \in Nat
    BY DEF TypeOK, AckMessage, PrintJob
  <2>3. m.ok = k.ok /\ m.n = k.n /\ m.j = k.j /\ m.att = job[k.j].attempts
    BY <2>2 DEF AckMessage
  <2>4. k.ok => k.n \in paper[k.j]
    BY DEF AckInv
  <2> HIDE DEF m
  <2> QED BY <2>1, <2>2, <2>3, <2>4
<1>3. ASSUME acks' \subseteq acks PROVE New
  BY <1>3
<1> HIDE DEF New
<1>4. ASSUME NEW a \in Agent, AgentStep(a) \/ AgentDies(a), ~Dispatch(a) PROVE acks' \subseteq acks
  BY <1>4 DEF AgentStep, AgentDies, BeginPoll, SweepLeases, SweepQueued, Probe, Claim,
     ClaimedByAnother, AckReturns
<1>5. (\E j \in Job : Enqueue(j)) \/ (\E k \in acks : AckWrite(k) \/ AckLost(k)) \/ Tick
        \/ UNCHANGED vars => acks' \subseteq acks
  BY DEF Enqueue, AckWrite, AckLost, Tick, vars
<1>6. New
  BY <1>1, <1>2, <1>3, <1>4, <1>5 DEF Next, AckStep
<1> QED BY <1>6, AcksStand, OnlyMore DEF New

\* What one step of the queue looks like from outside.
LEMMA SeenHandOut ==
    ASSUME NEW j \in Job, Reported(job[j]) = "open", job[j].attempts < MaxAttempts,
           job'[j].attempts = job[j].attempts + 1, paper' = paper,
           \A i \in Job : i # j => job'[i].attempts = job[i].attempts /\ Slips(i)' = Slips(i),
           Slips(j)' = Slips(j) \cup {job'[j].attempts} \/ Slips(j)' = Slips(j),
           \A i \in Job : Reported(job'[i]) = Reported(job[i])
    PROVE  Delivery!HandOut(j)
<1>1. [i \in Job |-> job'[i].attempts]
        = [[i \in Job |-> job[i].attempts] EXCEPT ![j] = @ + 1]
  OBVIOUS
<1>2. CASE Slips(j)' = Slips(j)
  <2>1. [i \in Job |-> Slips(i)'] = [i \in Job |-> Slips(i)]
    BY <1>2
  <2> QED BY <1>1, <2>1 DEF Delivery!HandOut
<1>3. CASE Slips(j)' = Slips(j) \cup {job'[j].attempts}
  <2>1. [i \in Job |-> Slips(i)']
          = [[i \in Job |-> Slips(i)] EXCEPT ![j] = @ \cup {job'[j].attempts}]
    BY <1>3
  <2> QED BY <1>1, <2>1 DEF Delivery!HandOut
<1> QED BY <1>2, <1>3

LEMMA SeenUse ==
    ASSUME NEW j \in Job, NEW n \in Slips(j), job' = job,
           Slips(j)' = Slips(j) \ {n}, \A i \in Job : i # j => Slips(i)' = Slips(i),
           paper' = [paper EXCEPT ![j] = @ \cup {n}] \/ paper' = paper
    PROVE  Delivery!Use(j)
<1>1. [i \in Job |-> Slips(i)'] = [[i \in Job |-> Slips(i)] EXCEPT ![j] = @ \ {n}]
  OBVIOUS
<1> QED BY <1>1 DEF Delivery!Use

LEMMA SeenTell ==
    ASSUME NEW j \in Job, paper' = paper, \A i \in Job : Slips(i)' = Slips(i),
           \A i \in Job : job'[i].attempts = job[i].attempts,
           \A i \in Job : i # j => job'[i] = job[i],
           Reported(job'[j]) = "printed" => paper[j] # {},
           Reported(job'[j]) = "failed" => job[j].attempts = MaxAttempts
    PROVE  Delivery!Tell(j)
<1>1. [i \in Job |-> Reported(job'[i])]
        = [[i \in Job |-> Reported(job[i])] EXCEPT ![j] = Reported(job'[j])]
  OBVIOUS
<1>2. Reported(job'[j]) \in {"open", "printed", "failed"}
  BY DEF Reported
<1>3. /\ [i \in Job |-> job'[i].attempts] = [i \in Job |-> job[i].attempts]
      /\ [i \in Job |-> Slips(i)'] = [i \in Job |-> Slips(i)]
  OBVIOUS
<1> QED BY <1>1, <1>2, <1>3 DEF Delivery!Tell, Delivery!Tales

LEMMA SeenNothing ==
    ASSUME paper' = paper, \A i \in Job : Slips(i)' = Slips(i),
           \A i \in Job : /\ job'[i].attempts = job[i].attempts
                          /\ Reported(job'[i]) = Reported(job[i])
    PROVE  UNCHANGED Delivery!vars
<1>1. /\ [i \in Job |-> job'[i].attempts] = [i \in Job |-> job[i].attempts]
      /\ [i \in Job |-> Slips(i)'] = [i \in Job |-> Slips(i)]
      /\ [i \in Job |-> Reported(job'[i])] = [i \in Job |-> Reported(job[i])]
  OBVIOUS
<1> QED BY <1>1 DEF Delivery!vars

\* Slips change hands only when somebody starts or stops printing.
LEMMA SlipsStay ==
    ASSUME \A a \in Agent : hand'[a].pc = "printing" \/ hand[a].pc = "printing"
                              => hand'[a] = hand[a]
    PROVE  \A j \in Job : Slips(j)' = Slips(j)
<1>1. \A a \in Agent, j \in Job :
         (hand'[a].pc = "printing" /\ hand'[a].job = j) <=> (hand[a].pc = "printing" /\ hand[a].job = j)
  OBVIOUS
<1>2. \A a \in Agent : hand[a].pc = "printing" => hand'[a].n = hand[a].n
  OBVIOUS
<1> QED BY <1>1, <1>2 DEF Slips, At

\* Agent a, who held slip n of job j, is through with it.
LEMMA SlipGone ==
    ASSUME TypeOK, DeliveryInv, NEW a \in Agent, At(a, "printing"),
           NEW j, j = hand[a].job, NEW n, n = hand[a].n,
           hand'[a].pc # "printing", \A b \in Agent \ {a} : hand'[b] = hand[b]
    PROVE  /\ j \in Job /\ n \in Slips(j)
           /\ Slips(j)' = Slips(j) \ {n}
           /\ \A i \in Job : i # j => Slips(i)' = Slips(i)
<1>1. j \in Job /\ n \in Slips(j)
  BY DEF TypeOK, At, Slips
<1>2. \A b \in Agent \ {a} : At(b, "printing") => hand[b].job # j \/ hand[b].n # n
  BY DEF DeliveryInv, FreshDelivery
<1>3. Slips(j)' = Slips(j) \ {n}
  <2>1. ASSUME NEW m \in Slips(j)' PROVE m \in Slips(j) \ {n}
    <3>1. PICK b \in Agent : hand'[b].pc = "printing" /\ hand'[b].job = j /\ hand'[b].n = m
      BY <2>1 DEF Slips, At
    <3>2. b # a /\ hand'[b] = hand[b]
      BY <3>1
    <3> QED BY <1>2, <3>1, <3>2 DEF Slips, At
  <2>2. ASSUME NEW m \in Slips(j) \ {n} PROVE m \in Slips(j)'
    <3>1. PICK b \in Agent : At(b, "printing") /\ hand[b].job = j /\ hand[b].n = m
      BY <2>2 DEF Slips
    <3>2. hand'[b] = hand[b]
      BY <2>2, <3>1
    <3> QED BY <3>1, <3>2 DEF Slips, At
  <2> QED BY <2>1, <2>2
<1>4. ASSUME NEW i \in Job, i # j PROVE Slips(i)' = Slips(i)
  <2>1. \A b \in Agent : (hand'[b].pc = "printing" /\ hand'[b].job = i)
                           <=> (hand[b].pc = "printing" /\ hand[b].job = i)
    BY <1>4
  <2>2. \A b \in Agent : hand'[b].pc = "printing" => hand'[b].n = hand[b].n
    OBVIOUS
  <2> QED BY <2>1, <2>2 DEF Slips, At
<1> QED BY <1>1, <1>3, <1>4

\* A printer that is through, whatever came out of it.
LEMMA PrinterSeen ==
    ASSUME TypeOK, TypeOK', DeliveryInv, NEW a \in Agent, Dispatch(a) \/ AgentDies(a)
    PROVE  \E j \in Job : Delivery!Use(j)
<1> PICK j, n : j = hand[a].job /\ n = hand[a].n
  OBVIOUS
<1>1. At(a, "printing") /\ job' = job
  BY DEF Dispatch, AgentDies
<1>2. hand'[a].pc # "printing" /\ \A b \in Agent \ {a} : hand'[b] = hand[b]
  <2>1. CASE Dispatch(a)
    BY <2>1 DEF Dispatch, TypeOK, Hand
  <2>2. CASE AgentDies(a)
    BY <2>2 DEF AgentDies, TypeOK, Empty
  <2> QED BY <2>1, <2>2
<1>3. /\ j \in Job /\ n \in Slips(j) /\ Slips(j)' = Slips(j) \ {n}
      /\ \A i \in Job : i # j => Slips(i)' = Slips(i)
  BY <1>1, <1>2, SlipGone
<1>4. \E out \in BOOLEAN : paper' = [paper EXCEPT ![j] = IF out THEN @ \cup {n} ELSE @]
  <2>1. CASE Dispatch(a)
    BY <2>1 DEF Dispatch
  <2>2. CASE AgentDies(a)
    BY <2>2 DEF AgentDies
  <2> QED BY <2>1, <2>2
<1>5. paper' = [paper EXCEPT ![j] = @ \cup {n}] \/ paper' = paper
  BY <1>3, <1>4 DEF TypeOK
<1> QED BY <1>1, <1>3, <1>5, SeenUse

LEMMA ClaimSeen ==
    ASSUME TypeOK, TypeOK', DeliveryInv, NEW a \in Agent, Claim(a)
    PROVE  \E j \in Job : Delivery!HandOut(j)
<1>1. PICK j \in Job :
         /\ Claimable(job[j], hand[a].at)
         /\ job' = [job EXCEPT ![j] = [st |-> "claimed", by |-> a,
                      exp |-> hand[a].at + ClaimLease,
                      attempts |-> NextAttempt(j), born |-> job[j].born]]
         /\ \/ hand' = [hand EXCEPT ![a] = [pc |-> "printing", at |-> 0, job |-> j,
                          n |-> NextAttempt(j), until |-> hand[a].at + ClaimLease]]
            \/ unreliable /\ hand' = [hand EXCEPT ![a] = Empty]
  BY DEF Claim
<1>2. At(a, "claim") /\ paper' = paper
  BY DEF Claim, rest
<1>3. /\ job[j].attempts < MaxAttempts /\ job[j].st \in {"queued", "claimed"}
      /\ Reported(job[j]) = "open"
  BY <1>1 DEF Claimable, LeaseOver, Reported
<1>4. /\ job'[j].attempts = job[j].attempts + 1 /\ job'[j].st = "claimed"
      /\ \A i \in Job : i # j => job'[i] = job[i]
  BY <1>1 DEF TypeOK, NextAttempt
<1>5. \A i \in Job : Reported(job'[i]) = Reported(job[i])
  BY <1>3, <1>4 DEF Reported
<1>6. \A b \in Agent \ {a} : hand'[b] = hand[b]
  BY <1>1 DEF TypeOK
<1>7. CASE hand' = [hand EXCEPT ![a] = Empty]
  <2>1. hand'[a].pc = "idle" /\ hand[a].pc = "claim"
    BY <1>2, <1>7 DEF TypeOK, Empty, At
  <2>2. \A i \in Job : Slips(i)' = Slips(i)
    BY <1>6, <2>1, SlipsStay
  <2> QED BY <1>2, <1>3, <1>4, <1>5, <2>2, SeenHandOut
<1>8. CASE hand' = [hand EXCEPT ![a] = [pc |-> "printing", at |-> 0, job |-> j,
                          n |-> NextAttempt(j), until |-> hand[a].at + ClaimLease]]
  <2>1. /\ hand'[a].pc = "printing" /\ hand'[a].job = j /\ hand'[a].n = job'[j].attempts
        /\ hand[a].pc = "claim"
    BY <1>2, <1>4, <1>8 DEF TypeOK, At, NextAttempt
  <2>2. Slips(j)' = Slips(j) \cup {job'[j].attempts}
    <3>1. ASSUME NEW m \in Slips(j)' PROVE m \in Slips(j) \cup {job'[j].attempts}
      <4>1. PICK b \in Agent : hand'[b].pc = "printing" /\ hand'[b].job = j /\ hand'[b].n = m
        BY <3>1 DEF Slips, At
      <4> QED BY <1>6, <2>1, <4>1 DEF Slips, At
    <3>2. ASSUME NEW m \in Slips(j) PROVE m \in Slips(j)'
      <4>1. PICK b \in Agent : hand[b].pc = "printing" /\ hand[b].job = j /\ hand[b].n = m
        BY <3>2 DEF Slips, At
      <4>2. hand'[b] = hand[b]
        BY <1>6, <2>1, <4>1
      <4> QED BY <4>1, <4>2 DEF Slips, At
    <3>3. job'[j].attempts \in Slips(j)'
      BY <2>1 DEF Slips, At
    <3> QED BY <3>1, <3>2, <3>3
  <2>3. ASSUME NEW i \in Job, i # j PROVE Slips(i)' = Slips(i)
    <3>1. \A b \in Agent : (hand'[b].pc = "printing" /\ hand'[b].job = i)
                             <=> (hand[b].pc = "printing" /\ hand[b].job = i)
      BY <1>6, <2>1, <2>3
    <3>2. \A b \in Agent : hand'[b].pc = "printing" /\ hand'[b].job = i => hand'[b].n = hand[b].n
      BY <1>6, <2>1, <2>3
    <3> QED BY <3>1, <3>2 DEF Slips, At
  <2> QED BY <1>2, <1>3, <1>4, <1>5, <2>2, <2>3, SeenHandOut
<1> QED BY <1>1, <1>7, <1>8

LEMMA AckSeen ==
    ASSUME TypeOK, TypeOK', DeliveryInv, AckInv, NEW k \in acks, AckWrite(k)
    PROVE  \E j \in Job : Delivery!Tell(j)
<1>1. /\ k.j \in Job /\ k.n \in Nat /\ k.att \in Nat /\ MaxAttempts \in Nat
      /\ \A i \in Job : job[i] \in PrintJob /\ job[i].attempts \in Nat
  BY QueueAssumption DEF TypeOK, AckMessage, PrintJob
<1> PICK j \in Job : j = k.j
  BY <1>1
<1>2. /\ paper' = paper /\ hand' = hand /\ k.held
      /\ job' = [job EXCEPT ![j].st = Outcome(k), ![j].by = Nobody, ![j].exp = 0]
  BY DEF AckWrite, rest
<1>3. /\ job'[j].attempts = job[j].attempts /\ job'[j].st = Outcome(k)
      /\ \A i \in Job : i # j => job'[i] = job[i]
  BY <1>1, <1>2 DEF TypeOK, PrintJob
<1>4. \A i \in Job : Slips(i)' = Slips(i)
  BY <1>2, SlipsStay
<1>5. Outcome(k) = "printed" => paper[j] # {}
  <2>1. Outcome(k) = "printed" => k.ok
    BY <1>1 DEF Outcome, TypeOK, AckMessage
  <2> QED BY <2>1 DEF AckInv
<1>6. Outcome(k) = "failed" => job[j].attempts = MaxAttempts
  <2>1. Outcome(k) = "failed" => k.att >= MaxAttempts
    BY <1>1 DEF Outcome, TypeOK, AckMessage
  <2>2. k.att <= job[j].attempts
    BY <1>2 DEF AckInv
  <2>3. job[j].attempts <= MaxAttempts
    BY DEF DeliveryInv
  <2> QED BY <1>1, <2>1, <2>2, <2>3
<1>7. /\ Reported(job'[j]) = "printed" => paper[j] # {}
      /\ Reported(job'[j]) = "failed" => job[j].attempts = MaxAttempts
  BY <1>3, <1>5, <1>6 DEF Reported
<1> QED BY <1>2, <1>3, <1>4, <1>7, SeenTell

\* The other steps cannot be seen from outside.
LEMMA Unseen ==
    ASSUME TypeOK, TypeOK', DeliveryInv, [Next]_vars,
           \A a \in Agent : ~Dispatch(a) /\ ~AgentDies(a) /\ ~Claim(a),
           \A k \in acks : ~AckWrite(k)
    PROVE  UNCHANGED Delivery!vars
<1> DEFINE SameJobs == \A i \in Job : /\ job'[i].attempts = job[i].attempts
                                      /\ Reported(job'[i]) = Reported(job[i])
           SameHands == \A a \in Agent : hand'[a].pc = "printing" \/ hand[a].pc = "printing"
                              => hand'[a] = hand[a]
<1>1. ASSUME NEW j \in Job, Enqueue(j) PROVE SameJobs /\ SameHands /\ paper' = paper
  <2>1. job[j].st = "absent" /\ job[j].attempts = 0
    BY <1>1 DEF Enqueue, DeliveryInv
  <2>2. /\ job'[j].st = "queued" /\ job'[j].attempts = 0
        /\ \A i \in Job : i # j => job'[i] = job[i]
    BY <1>1 DEF Enqueue, TypeOK, NoJob
  <2> QED BY <1>1, <2>1, <2>2 DEF Enqueue, Reported, rest
<1>2. ASSUME NEW a \in Agent, SweepLeases(a) \/ SweepQueued(a) PROVE SameJobs
  <2> TAKE i \in Job
  <2>1. CASE SweepLeases(a)
    <3>1. /\ [job[i] EXCEPT !.st = "queued", !.by = Nobody, !.exp = 0].attempts = job[i].attempts
          /\ [job[i] EXCEPT !.st = "queued", !.by = Nobody, !.exp = 0].st = "queued"
      BY DEF TypeOK, PrintJob
    <3>2. \/ job'[i] = job[i]
          \/ /\ job[i].st = "claimed"
             /\ job'[i] = [job[i] EXCEPT !.st = "queued", !.by = Nobody, !.exp = 0]
      BY <2>1 DEF SweepLeases, LeaseOver
    <3> QED BY <3>1, <3>2 DEF Reported
  <2>2. CASE SweepQueued(a)
    <3>1. /\ [job[i] EXCEPT !.st = "expired"].attempts = job[i].attempts
          /\ [job[i] EXCEPT !.st = "expired"].st = "expired"
      BY DEF TypeOK, PrintJob
    <3>2. \/ job'[i] = job[i]
          \/ job[i].st = "queued" /\ job'[i] = [job[i] EXCEPT !.st = "expired"]
      BY <2>2 DEF SweepQueued, TooOld
    <3> QED BY <3>1, <3>2 DEF Reported
  <2> QED BY <1>2, <2>1, <2>2
<1>3. ASSUME job' = job PROVE SameJobs
  BY <1>3
<1>4. ASSUME NEW a \in Agent, AgentStep(a) PROVE SameHands /\ paper' = paper
  <2>1. CASE BeginPoll(a)
    BY <2>1 DEF BeginPoll, At, TypeOK, Empty, rest
  <2>2. CASE SweepLeases(a) \/ SweepQueued(a)
    BY <2>2 DEF SweepLeases, SweepQueued, At, TypeOK, Hand, rest
  <2>3. CASE Probe(a)
    BY <2>3 DEF Probe, At, TypeOK, Empty, rest
  <2>4. CASE ClaimedByAnother(a) \/ AckReturns(a)
    BY <2>4 DEF ClaimedByAnother, AckReturns, Missed, At, TypeOK, Empty, rest
  <2> QED BY <1>4, <2>1, <2>2, <2>3, <2>4 DEF AgentStep
<1>5. ASSUME NEW a \in Agent, AgentStep(a), ~SweepLeases(a), ~SweepQueued(a) PROVE job' = job
  BY <1>5 DEF AgentStep, BeginPoll, Probe, ClaimedByAnother, AckReturns
<1>6. (\E k \in acks : AckRead(k) \/ AckLost(k)) \/ Tick \/ UNCHANGED vars
        => job' = job /\ hand' = hand /\ paper' = paper
  BY DEF AckRead, AckLost, Tick, vars, rest
<1>7. ASSUME hand' = hand PROVE SameHands
  BY <1>7
<1> HIDE DEF SameJobs, SameHands
<1>8. SameJobs /\ SameHands /\ paper' = paper
  BY <1>1, <1>2, <1>3, <1>4, <1>5, <1>6, <1>7 DEF Next, AckStep
<1>9. \A i \in Job : Slips(i)' = Slips(i)
  BY <1>8, SlipsStay DEF SameHands
<1> QED BY <1>8, <1>9, SeenNothing DEF SameJobs

\* Seen from outside, the outlet's queue hands each job out under at most MaxAttempts slips,
\* each in one hand and used once, and what it calls printed or failed is so (ClaimNext,
\* claimOnce, Ack, and cmd/print-agent), in unreliable shops as well.
THEOREM QueueIsCapped == Spec => ImplementsDelivery
<1>1. Init => Delivery!Init /\ AckInv
  <2> SUFFICES ASSUME Init PROVE Delivery!Init /\ AckInv
    OBVIOUS
  <2>1. \A j \in Job : job[j].attempts = 0 /\ Reported(job[j]) = "open" /\ Slips(j) = {}
    BY DEF Init, NoJob, Reported, Slips, At, Empty
  <2>2. paper = [j \in Job |-> {}] /\ acks = {}
    BY DEF Init
  <2> QED BY <2>1, <2>2 DEF Delivery!Init, AckInv
<1>2. TypeOK /\ TypeOK' /\ DeliveryInv /\ AckInv /\ [Next]_vars => AckInv'
  BY AckInductive
<1>3. TypeOK /\ TypeOK' /\ DeliveryInv /\ AckInv /\ [Next]_vars => [Delivery!Next]_(Delivery!vars)
  <2> SUFFICES ASSUME TypeOK, TypeOK', DeliveryInv, AckInv, [Next]_vars
               PROVE  Delivery!Next \/ UNCHANGED Delivery!vars
    OBVIOUS
  <2>1. ASSUME NEW a \in Agent, Dispatch(a) \/ AgentDies(a) PROVE Delivery!Next
    BY <2>1, PrinterSeen DEF Delivery!Next
  <2>2. ASSUME NEW a \in Agent, Claim(a) PROVE Delivery!Next
    BY <2>2, ClaimSeen DEF Delivery!Next
  <2>3. ASSUME NEW k \in acks, AckWrite(k) PROVE Delivery!Next
    BY <2>3, AckSeen DEF Delivery!Next
  <2> QED BY <2>1, <2>2, <2>3, Unseen
<1> QED
  BY <1>1, <1>2, <1>3, TypeCorrect, DeliveriesStayFresh, PTL DEF Spec, ImplementsDelivery, Delivery!Spec
=============================================================================
