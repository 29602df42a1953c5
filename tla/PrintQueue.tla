----------------------------- MODULE PrintQueue -----------------------------
(***************************************************************************)
(* The background print queue of one outlet (internal/modules/printing/     *)
(* queue.go) and the print agents that empty it (cmd/print-agent).  A till  *)
(* enqueues a job; an agent polls, claims it under a lease, prints it and   *)
(* acknowledges.  The server may lose an agent, an answer or an             *)
(* acknowledgement; the lease then gives the job to the next poll.          *)
(*                                                                          *)
(* A poll and an acknowledgement are several statements on the server, and  *)
(* an acknowledgement is on its way for a while: acks holds those that were *)
(* sent and not yet answered.                                               *)
(***************************************************************************)
EXTENDS Integers, FiniteSets

CONSTANTS
    Job, Agent, Nobody,
    MaxAttempts,    \* deliveries of one job (3)
    JobTTL,         \* how long a queued job stays printable (15 minutes)
    ClaimLease,     \* how long a delivery is the agent's (60 seconds)
    SweepInterval,  \* the least time between two hygiene sweeps (15 seconds)
    MaxTime,        \* bound on the clock
    Unreliable      \* subset of BOOLEAN: whether agents may die or overrun the lease, and
                    \* answers get lost or late

ASSUME QueueAssumption ==
    /\ Nobody \notin Agent
    /\ MaxAttempts \in Nat \ {0}
    /\ JobTTL \in Nat /\ ClaimLease \in Nat /\ SweepInterval \in Nat /\ MaxTime \in Nat
    /\ Unreliable \subseteq BOOLEAN

VARIABLES
    job,        \* the print_jobs rows
    now,        \* the clock
    lastSweep,  \* when the process last swept
    hand,       \* hand[a]: what agent a, or the poll it is waiting for, is doing
    acks,       \* acknowledgements on their way, or read by the server and not yet stored
    unreliable, \* chosen once: whether the shop's agents and network are unreliable
    paper,      \* history: paper[j] is the set of deliveries of j that came out of a printer
    good        \* history: good[j] is the set of deliveries of j whose print succeeded

rest == <<unreliable, paper, good>>
vars == <<job, now, lastSweep, hand, acks, rest>>

Final == {"printed", "failed", "expired"}

NoJob == [st |-> "absent", by |-> Nobody, exp |-> 0, attempts |-> 0, born |-> 0]
Empty == [pc |-> "idle", at |-> 0, job |-> Nobody, n |-> 0, until |-> 0]

Init ==
    /\ job = [j \in Job |-> NoJob]
    /\ now = 1 /\ lastSweep = 0
    /\ hand = [a \in Agent |-> Empty]
    /\ acks = {}
    /\ unreliable \in Unreliable
    /\ paper = [j \in Job |-> {}]
    /\ good = [j \in Job |-> {}]

At(a, l) == hand[a].pc = l

\* Enqueue. The dedupe key names the job: a second call with it finds the row and
\* changes nothing.
Enqueue(j) ==
    /\ job[j].st = "absent"
    /\ now + JobTTL + ClaimLease < MaxTime        \* bound: its last lease ends in time
    /\ job' = [job EXCEPT ![j] = [NoJob EXCEPT !.st = "queued", !.born = now]]
    /\ UNCHANGED <<now, lastSweep, hand, acks, rest>>

----------------------------------------------------------------------------
(* ClaimNext: the hygiene sweep, at most once per interval, then claimOnce.  *)

LeaseOver_AnyStatus(r, t) == r.exp < t
LeaseOver_AtTheEnd(r, t)  == r.st = "claimed" /\ r.exp <= t
LeaseOver(r, t)           == r.st = "claimed" /\ r.exp < t

BeginPoll(a) ==
    LET due == now - lastSweep >= SweepInterval \/ now = MaxTime
    IN  /\ At(a, "idle")
        /\ hand' = [hand EXCEPT ![a] = [Empty EXCEPT !.pc = IF due THEN "requeue" ELSE "probe",
                                                    !.at = now]]
        /\ lastSweep' = IF due THEN now ELSE lastSweep
        /\ UNCHANGED <<job, now, acks, rest>>

SweepLeases(a) ==
    /\ At(a, "requeue")
    /\ job' = [j \in Job |-> IF LeaseOver(job[j], hand[a].at)
                               THEN [job[j] EXCEPT !.st = "queued", !.by = Nobody, !.exp = 0]
                               ELSE job[j]]
    /\ hand' = [hand EXCEPT ![a].pc = "expire"]
    /\ UNCHANGED <<now, lastSweep, acks, rest>>

TooOld_NeverTried(r, t) == r.st = "queued" /\ r.attempts = 0 /\ r.born + JobTTL < t
TooOld(r, t)            == r.st = "queued" /\ r.born + JobTTL < t

SweepQueued(a) ==
    /\ At(a, "expire")
    /\ job' = [j \in Job |-> IF TooOld(job[j], hand[a].at)
                               THEN [job[j] EXCEPT !.st = "expired"] ELSE job[j]]
    /\ hand' = [hand EXCEPT ![a].pc = "probe"]
    /\ UNCHANGED <<now, lastSweep, acks, rest>>

Claimable_NoCapOnLeases(r, t) ==
    /\ t <= r.born + JobTTL
    /\ (r.st = "queued" /\ r.attempts < MaxAttempts) \/ LeaseOver(r, t)
Claimable(r, t) ==
    /\ r.attempts < MaxAttempts
    /\ t <= r.born + JobTTL
    /\ r.st = "queued" \/ LeaseOver(r, t)

\* The EXISTS probe outside the transaction; nothing there ends this look.
Probe(a) ==
    /\ At(a, "probe")
    /\ hand' = [hand EXCEPT ![a] =
            IF \E j \in Job : Claimable(job[j], now)
              THEN [Empty EXCEPT !.pc = "claim", !.at = now] ELSE Empty]
    /\ UNCHANGED <<job, now, lastSweep, acks, rest>>

\* The claim transaction: SELECT ... FOR UPDATE SKIP LOCKED takes a row no other claim
\* holds (the oldest of them) and judges it by the time of the probe.
NextAttempt(j)           == job[j].attempts + 1

Claim(a) ==
    LET t == hand[a].at
    IN  /\ At(a, "claim")
        /\ \E j \in Job :
              /\ Claimable(job[j], t)
              /\ job' = [job EXCEPT ![j] = [st |-> "claimed", by |-> a, exp |-> t + ClaimLease,
                                           attempts |-> NextAttempt(j), born |-> job[j].born]]
              /\ \/ hand' = [hand EXCEPT ![a] = [pc |-> "printing", at |-> 0, job |-> j,
                                                n |-> NextAttempt(j), until |-> t + ClaimLease]]
                 \/ unreliable /\ hand' = [hand EXCEPT ![a] = Empty]     \* the answer is lost
        /\ UNCHANGED <<now, lastSweep, acks, rest>>

\* Another replica was faster: there is no row, and no job is handed out.
Missed(a)           == Empty

ClaimedByAnother(a) ==
    /\ At(a, "claim")
    /\ ~\E j \in Job : Claimable(job[j], hand[a].at)
    /\ hand' = [hand EXCEPT ![a] = Missed(a)]
    /\ UNCHANGED <<job, now, lastSweep, acks, rest>>

----------------------------------------------------------------------------
(* The agent: dispatchJob, then ackJob, one job at a time.                   *)

\* A failed write to the printer may have printed all the same.
Dispatch(a) ==
    LET h == hand[a]
    IN  /\ At(a, "printing")
        /\ \E ok, out \in BOOLEAN :
              /\ ok => out
              /\ paper' = [paper EXCEPT ![h.job] = IF out THEN @ \cup {h.n} ELSE @]
              /\ good' = [good EXCEPT ![h.job] = IF ok THEN @ \cup {h.n} ELSE @]
              /\ acks' = acks \cup {[a |-> a, j |-> h.job, n |-> h.n, ok |-> ok,
                                     held |-> FALSE, att |-> 0]}
        /\ hand' = [hand EXCEPT ![a].pc = "waiting"]
        /\ UNCHANGED <<job, now, lastSweep, unreliable>>

Answered(a) == ~\E k \in acks : k.a = a /\ k.j = hand[a].job /\ k.n = hand[a].n

\* The answer to the acknowledgement arrives, or the agent's 40 second timeout does.
AckReturns(a) ==
    /\ At(a, "waiting")
    /\ Answered(a) \/ unreliable
    /\ hand' = [hand EXCEPT ![a] = Empty]
    /\ UNCHANGED <<job, now, lastSweep, acks, rest>>

AgentDies(a) ==
    /\ unreliable
    /\ At(a, "printing")
    /\ \E out \in BOOLEAN :
          paper' = [paper EXCEPT ![hand[a].job] = IF out THEN @ \cup {hand[a].n} ELSE @]
    /\ hand' = [hand EXCEPT ![a] = Empty]
    /\ UNCHANGED <<job, now, lastSweep, acks, unreliable, good>>

----------------------------------------------------------------------------
(* Ack: find the job held by the agent, then store the outcome by id.        *)

AckRead(k) ==
    /\ ~k.held
    /\ LET r == job[k.j]
       IN  acks' = (acks \ {k}) \cup
                   IF r.st = "claimed" /\ r.by = k.a
                     THEN {[k EXCEPT !.held = TRUE, !.att = r.attempts]} ELSE {}
    /\ UNCHANGED <<job, now, lastSweep, hand, rest>>

Outcome_OneEarly(k) ==
    CASE k.ok                              -> "printed"
      [] ~k.ok /\ k.att + 1 >= MaxAttempts -> "failed"
      [] OTHER                             -> "queued"
Outcome(k) ==
    CASE k.ok                          -> "printed"
      [] ~k.ok /\ k.att >= MaxAttempts -> "failed"
      [] OTHER                         -> "queued"

AckWrite(k) ==
    /\ k.held
    /\ job' = [job EXCEPT ![k.j].st = Outcome(k), ![k.j].by = Nobody, ![k.j].exp = 0]
    /\ acks' = acks \ {k}
    /\ UNCHANGED <<now, lastSweep, hand, rest>>

AckLost(k) ==
    /\ unreliable
    /\ acks' = acks \ {k}
    /\ UNCHANGED <<job, now, lastSweep, hand, rest>>

\* Time passes; in a reliable shop not while an agent's lease would run out under it.
Tick ==
    /\ now < MaxTime
    /\ unreliable \/ \A a \in Agent : hand[a].pc \in {"printing", "waiting"} => now < hand[a].until
    /\ unreliable \/ \A a \in Agent : ~At(a, "claim")
    /\ now' = now + 1
    /\ UNCHANGED <<job, lastSweep, hand, acks, rest>>

----------------------------------------------------------------------------
AgentStep(a) ==
    \/ BeginPoll(a) \/ SweepLeases(a) \/ SweepQueued(a) \/ Probe(a) \/ Claim(a)
    \/ ClaimedByAnother(a) \/ Dispatch(a) \/ AckReturns(a)

AckStep == \E k \in acks : AckRead(k) \/ AckWrite(k)

Next ==
    \/ \E j \in Job : Enqueue(j)
    \/ \E a \in Agent : AgentStep(a) \/ AgentDies(a)
    \/ AckStep
    \/ \E k \in acks : AckLost(k)
    \/ Tick

Spec == Init /\ [][Next]_vars

\* The agents' loops poll for ever (a safety-net poll every 45 seconds while the
\* wake-up socket is up), the server answers, and the clock runs.
FairSpec == Spec /\ WF_vars(Tick) /\ WF_vars(AckStep) /\ \A a \in Agent : WF_vars(AgentStep(a))

----------------------------------------------------------------------------
(* Properties                                                               *)

PrintJob == [st : {"absent", "queued", "claimed"} \cup Final, by : Agent \cup {Nobody},
             exp : Nat, attempts : Nat, born : Nat]
Hand == [pc : {"idle", "requeue", "expire", "probe", "claim", "printing", "waiting"},
         at : Nat, job : Job \cup {Nobody}, n : Nat, until : Nat]
AckMessage == [a : Agent, j : Job, n : Nat, ok : BOOLEAN, held : BOOLEAN, att : Nat]

\* Type invariant.
TypeOK ==
    /\ job \in [Job -> PrintJob]
    /\ now \in Nat /\ lastSweep \in Nat
    /\ hand \in [Agent -> Hand]
    /\ \A a \in Agent : hand[a].pc \in {"printing", "waiting"} => hand[a].job \in Job
    /\ acks \subseteq AckMessage /\ unreliable \in BOOLEAN
    /\ paper \in [Job -> SUBSET Nat]
    /\ good \in [Job -> SUBSET Nat]

\* However leases, sweeps and acknowledgements interleave, a job comes out of a printer
\* at most MaxAttempts times (the attempt cap of claimable and the locked increment of
\* claimOnce).
PrintsWithinCap == \A j \in Job : paper[j] \subseteq 1..MaxAttempts

\* ... because no two deliveries are one and the same: an agent about to print holds a
\* delivery that nobody has printed and nobody else holds.
FreshDelivery ==
    \A a \in Agent : At(a, "printing") =>
        /\ hand[a].n \in 1..job[hand[a].job].attempts
        /\ hand[a].n \notin paper[hand[a].job]
        /\ \A b \in Agent \ {a} :
              At(b, "printing") => hand[b].job # hand[a].job \/ hand[b].n # hand[a].n

\* The inductive strengthening of PrintsWithinCap.
DeliveryInv ==
    /\ FreshDelivery
    /\ \A j \in Job :
          /\ job[j].attempts <= MaxAttempts
          /\ paper[j] \subseteq 1..job[j].attempts
          /\ job[j].st = "absent" => job[j].attempts = 0

\* Every job that was enqueued ends printed, failed or expired, whatever gets lost
\* (the TTL sweep of maybeSweep is the backstop).
JobSettles == \A j \in Job : (job[j].st \in {"queued", "claimed"}) ~> (job[j].st \in Final)

\* When agents print and acknowledge within the lease and nothing is lost, a job whose
\* print succeeded is not printed again.
NoReprint ==
    ~unreliable => \A j \in Job : Cardinality(good[j]) <= 1 /\ \A n \in good[j] : paper[j] \subseteq 1..n

\* A delivery stays the agent's for the whole lease: until it runs out nobody else gets
\* the job (ClaimLease: "how long an agent holds a claimed job before it requeues").
LeaseHeld ==
    ~unreliable => \A a, b \in Agent : a # b /\ At(a, "printing") /\ At(b, "printing")
                          /\ hand[a].job = hand[b].job => hand[a].until < now \/ hand[b].until < now

\* "Ack finalizes a claimed job": what is printed, failed or expired stays so.
FinalIsFinal == [][\A j \in Job : job[j].st \in Final => job'[j].st = job[j].st]_vars

\* It does while agents keep their leases and nothing is lost: no acknowledgement then
\* lands on a job that was settled after it was read.
FinalWhenTimely ==
    [][~unreliable => \A j \in Job : job[j].st \in Final => job'[j].st = job[j].st]_vars

\* "MaxAttempts is the delivery cap per job before it is marked failed": a job that used
\* up its deliveries is not left to expire.
ExhaustedIsFailed ==
    [][\A j \in Job : job'[j].st = "expired" /\ job[j].st # "expired"
                        => job[j].attempts < MaxAttempts]_vars

----------------------------------------------------------------------------
(* The deliveries and what is told of them, seen from outside               *)

Slips(j) == {hand[a].n : a \in {b \in Agent : At(b, "printing") /\ hand[b].job = j}}

Reported(r) == IF r.st \in {"printed", "failed"} THEN r.st ELSE "open"

Delivery ==
    INSTANCE CappedDelivery WITH
        Cap   <- MaxAttempts,
        given <- [j \in Job |-> job[j].attempts],
        out   <- [j \in Job |-> Slips(j)],
        used  <- paper,
        told  <- [j \in Job |-> Reported(job[j])]

\* Whatever leases run out, answers get lost and acknowledgements arrive late, a job is
\* handed out at most MaxAttempts times, each time under a number nobody else holds and
\* nobody prints twice; and it is called printed only if it came out of a printer, failed
\* only when its deliveries are used up (claimOnce, Ack).
ImplementsDelivery == Delivery!Spec

\* What an acknowledgement carries is so: a success was printed, and the attempts read
\* with the job are no more than it has had.
AckInv ==
    \A k \in acks : /\ k.ok => k.n \in paper[k.j]
                    /\ k.held => k.att <= job[k.j].attempts
=============================================================================
