# Formal verification of pos-api

TLA+ models of the core of pos-api (a multi-tenant point-of-sale backend in Go, `github.com/bengobox/pos-service`),
the TLC runs that check them on small instances, and theorems about them proved with TLAPS. Source lines below are
relative to `src/internal` unless they say otherwise; `PROJECT.json` maps every definition to its lines.

## 1. The system

pos-api is one Go process (several replicas may run) over PostgreSQL, reached through ent, the generated ORM under
`internal/ent` (612 thousand of the 724 thousand lines of Go, left aside). HTTP handlers (`http/handlers`) call service
modules (`modules`), which call other services (treasury for money and receivables, inventory for stock, ordering,
logistics, notifications) over HTTP and publish events through an outbox table that a library empties into NATS.
Background workers (reconcilers, the webhook worker, schedulers) repair what a request left unfinished. Tills work
offline and replay what they queued; print agents in the shops poll for jobs.

Almost no handler holds a transaction across its whole body: a handler is a sequence of statements, and the rows it
read first are snapshots it goes on using. That is where the hard behaviours come from. Two requests on one row
interleave at statement granularity, a process may die between two of them, an answer may be lost after its effect.

### Inventory

| Component | State | Operations | Interacts with | Hard behaviours | What makes it correct |
|---|---|---|---|---|---|
| **Order settlement** (`modules/payments/service.go`, `manage.go`, `credit_settlement.go`, parts of `modules/orders`) | order row (status, total, paid_total, on_account), payment rows, completed returns | cash, on-account, complimentary and legacy tenders; credit settlement; void a payment; recheck; edit, discount, add; status change; void; delete a draft; release; complete a return | treasury, the post-sale fan-out | snapshots under concurrent tills, one row lock, completion claimed by conditional update, crashes | no till collects more than the sale was worth; one completion per opening; only covered orders complete; covered orders do complete; no request hangs |
| **Sale-finalized publication** (`modules/payments/reconciler.go`, `service.go`) | order status, metadata mark, outbox rows | complete, fan out, insert, mark, scan and republish, deliver, give up | settlement, outbox library, every metadata writer | crash between completion and outbox, lost mark, in-flight race, broker outage | every completed sale reaches the others; the mark never lies; nothing is published twice without cause |
| **Sale replay** (`http/middleware/idempotency.go`, `modules/orders/service.go`) | idempotency key, client reference, order | claim, take over, replay, create, route, store the answer | offline worker, every keyed handler | retries racing their first attempt, dead owners, dropped connections | one sale per client reference; one effect per key while nobody fails; the worker always gets a final answer |
| **Print queue and agent** (`modules/printing/queue.go`, `cmd/print-agent`) | print_jobs rows, leases, attempts | enqueue, poll, sweep, claim, print, acknowledge | tills, agents | leases running out, lost answers, late acknowledgements | at most MaxAttempts prints; every job settles; no reprint while agents are timely |
| **Document numbers** (`modules/documents/sequence.go`) | one counter row per tenant and type | take a number, change settings, preview | orders, returns, layaway | replicas racing on the counter, failing statements | numbers unique, increasing, gapless without errors |
| Order totals and lines | lines, charges, tax, total | add, edit, void lines, discount | settlement, kitchen | two edits recomputing from stale lines | total = sum of the surviving lines |
| **Digital payment intents** (`modules/payments/service.go`, `intent_reconciler.go`, `treasury_subscriber.go`) | payment rows pending, completed or failed; treasury's intents | record, choose a reference, create, backfill, retry, confirm, fail | treasury calls and events, settlement | events acknowledged whatever came of them, references computed again at a retry, lost goroutines | digital money counts only when captured, and in the end it does; no two payments share an intent; every cash payment gets one |
| **Receivables reconciliation** (`modules/payments/credit_settlement.go`, `credit_settlement_reconciler.go`, `ar_reconcile.go`, `ar_drift_audit.go`, `treasury_balance_subscriber.go`) | settlement rows, their mark and receipt id, stored paid totals; treasury's receipts and debt | settle, post, mark, retry, void, undo, settle down, audit | treasury calls and events | a settlement posted after its row, passes that act on a figure fetched before, voids while an event is under way | nothing settled without money received, but for failed recounts; nothing undone without a voided receipt; every settlement is posted; drift heals to within the tolerance |
| **Reversals** (`modules/reversals/service.go`, `steps.go`, `modules/salecorrection/loyalty.go`) | reversal rows with a step ledger, the order's lines and payment rows | execute, retry, five steps | treasury, inventory, KRA notes, loyalty | steps that fail, end too late or are lost with their record; overlapping retries | reported completed only when every effect happened; nothing taken back twice while one request runs |
| Credit sales, close on account | on_account mark, receivable | post, retry | treasury | crash between the posting and the row | one posting per sale |
| Returns, sale deletion, sale editing | return rows, recorded steps | approve, complete, restock, resume | treasury, inventory, settlement | a job resumed after any step failed | all or resumable; never more returned than sold |
| Promotions, loyalty, gift and meal cards, layaway | redemptions, ledgers, plans | reserve, redeem, release, earn | settlement | caps and balances under races | no cap exceeded; balance = ledger |
| Cash drawers, shifts, closings | sessions, movements | open, close, auto-end | sales | a session closed while a sale lands in it | every sale in one session |
| Online orders, kitchen, tables, held items | orders, tickets, occupancy | accept, reject, bump, hold | ordering, logistics | events against local changes | status machines respected |
| Rooms, bookings, appointments | calendar rows | book, bill nightly, check out | settlement | double booking | no overlap |
| Approval codes, webhooks | codes, deliveries | issue, redeem; claim, send, retry | every guarded handler | single use under races | used once; delivered at least once |
| Catalog, identity, roles, subscriptions | caches of other services | upsert | events | stale caches, by design | last version wins |
| Reports, documents, receipts, media, audit | none of their own | render | | none | |

Components in bold are modelled; the others are listed in `PROJECT.json` with the reason and, where it is worth it, the
module planned for them.

## 2. Modules

One module per component; an `MC` module adds the values and the symmetry TLC may use; a `Proofs` module extends the component's module
with the theorems. Every action is one SQL statement, or one transaction, of a handler; what the handler read before is
kept in the request's own record, and later actions act on that record and not on the row, as the code does.

### OrderSettlement

One order and the requests in flight on it (`Req`). `status, total, paidTotal, onAccount` are the order row; `pay[r]` is
the payment row request `r` inserted; `sums` is what the `SUM(amount)` queries return by tender family; `lock` is the
holder of `SELECT ... FOR UPDATE`; `rq[r]` is a handler's place and its snapshots. PostgreSQL blocks other writers of the
order row while it is locked, and also inserts of payments, whose foreign key takes a share lock: hence `Unlocked`.

| Handler | Actions |
|---|---|
| `CreatePaymentIntent` (cash) | `BeginTender`, `Clamp` (amount against the snapshot), `LockAndCheck`, `CommitLocked`, recompute (`RecomputeRead`, `RecomputeWrite`), `ClaimCompletion` |
| `recordCreditSale`, `recordComplimentarySale`, `RecordPayment` | `BeginTender`, `Clamp`, `BookCredit`, `InsertRow`, recompute, claim |
| `SettleCreditPayment` | `BeginSettle`, `ReadReturns`, `LockAndCheck`, `CommitLocked`, recompute |
| `VoidPayment` | `BeginVoidPayment`, `MarkVoided`, recompute, `ReloadForReopen`, `Reopen` |
| line edit, discount, added lines | `BeginReprice`, `Reprice` or `RefuseReprice`, `RecheckAfterReprice`, recompute, claim |
| `UpdateStatus`, void, delete a draft | `BeginSetStatus` and `UpdateStatus`; `BeginVoidOrder` and `VoidOrder`; `BeginDeleteDraft` and `HardDeleteDraft` |
| `ReleaseHeldOrder`, `CompleteReturn` | one action each |

`Crash` ends a request between two statements and rolls its transaction back. The recomputation of totals is abstracted
to "the total becomes another value of `Totals`". `SerialSpec` is the same specification with requests that do not overlap (one
begins when no other runs; a dead one does not run): it shows which promises the code keeps but for races. Not modelled:
digital intents (GatewayPayments), store-credit surplus of a settlement,
customer-credit tender, staff-credit sales, the reuse check of M-Pesa codes, failing statements other than a deleted
order.

### SaleFinalized

One order from the completion that `completeOrderIfFullyPaid` claims to the delivery of `pos.sale.finalized`. A goroutine
`proc[p]` is a fan-out (`Complete`, `Insert` or `InsertFails`, `Reload`, `Store`), a reconciler run (`ClaimPeriod`,
`ScanOrders`, `Judge`, then the same steps), or another writer of the metadata (`BeginNote`, `Store`). `CompleteOutside`
stands for the paths that complete an order without dispatching (`UpdateStatus`, delivery and lifecycle events), `Reopen`
for a voided payment. The metadata is one JSON column that each writer reads and writes whole, so `Store` writes the
snapshot plus its own key. The outbox publisher is a library: `Deliver` removes a row, `Exhaust` leaves it FAILED. Time is
counted in ticks of the scan's floor (2 minutes); whatever goes on without a fault is over within its tick (the fan-out
has 30 seconds). Every fault (crash, failing statement, outage, missed or overrunning run) is counted by `faults`.

### SaleReplay

One keyed request: the offline worker (`Send`, `Drop`), the idempotency middleware (`Claim`, `Takeover`, `Replay`,
`Finish`) and the handler it guards. For a sale the handler is `CreateOrder` (`GetSale`, `CreateSale`, `RouteSale`), which
is itself get-or-create on the client reference; any other handler is `RunOther`, one effect and an answer. `Reject` and
`FailEarly` are refusals and failures before the effect: `createOrder` checks order limits, approval codes and promotions
before it looks the reference up, so it may refuse even a sale that exists. `faulty` is chosen once: in a calm behaviour
connections may drop and handlers may fail early, but nobody dies, no handler outlives the two-minute takeover age or
fails after its effect, and the key store keeps the answer. The 422 for a key reused with another payload and the
expiry of keys (72 hours, by no code of this repository) are left out.

### PrintQueue

One outlet's `print_jobs` rows, its agents, and a clock. A poll is `BeginPoll`, the hygiene sweep (`SweepLeases`,
`SweepQueued`, at most once per interval), the probe outside the transaction (`Probe`) and the claim with
`FOR UPDATE SKIP LOCKED` (`Claim`, or `ClaimedByAnother`). The agent prints (`Dispatch`) and acknowledges; the server's
`Ack` is `AckRead` and `AckWrite`. `unreliable` is chosen once: agents may then die (`AgentDies`), overrun their lease, and
lose answers and acknowledgements. `paper` and `good` record what came out of the printers. Pairing, the wake-up socket
(the 45-second safety-net poll makes it an optimisation) and rendering are left out.

`CappedDelivery` is the abstract specification: each job is handed out under numbered slips, at most `Cap` of them, each slip is
used at most once and by whoever holds it, and a job is called printed only when a slip was used, failed only when none is
left. `Delivery` is its instance (`given` is the attempts counter, `out` the deliveries agents are printing, `used` the paper,
`told` the status, in which queued, claimed and expired are all "open"), and `ImplementsDelivery` says that polls, sweeps, claims
and acknowledgements together implement it, also in unreliable shops, where a late acknowledgement may take back what was told.

### DocumentSequence

One counter row and its callers: `Begin`, `Lookup`, `Create` and `Reread` (the shared get-or-create), then `Take`, `Lose` or
`CasFails` (the compare-and-set of `GenerateNumber`) or `WriteConfig`. Any statement may fail, and a compare-and-set may
fail after it took effect. The rendering of the number is abstracted to the counter's value: the format does not decide
uniqueness. When attempts run out the order falls back to a millisecond timestamp, outside the sequence.

`NumberRegister` is the abstract specification: a register that counts up by one and hands a number out in the instant it
reaches it, or skips it. `Register` is its instance under the refinement mapping (`count` is the row's counter, `handed` the
numbers returned), and `ImplementsRegister` says that the calls of all replicas together implement it.

### Reversal

The reversals of one finalized sale, full and partial. A request (`proc[p]`) is `Execute` and `Create`, or `Retry`, and then
runs the steps its copy of the ledger does not call done: the totals transaction (`ReadLine`, `VoidLine`, `Commit`, which
locks only the line it updates and reads the payment rows without a lock), `ReverseStock`, the treasury refund split by what
was netted off real payments (`SplitGL`, `PostWhole` or `PostCash` and `PostAR`), `RaiseNote` and `ClawBack`. After each step
`Persist` writes the whole local ledger, at the end `Finalize` writes it with the status it gives. A call may be refused, or
succeed after its time limit, which the code takes for a failure. `sale` is chosen once: how much was paid on account and in
cash, what was returned, whether the sale is fiscalized and its stock tracked, and whether requests may overlap (`orderly`),
processes die and the database fail or lose the answer to a commit (`sound`). One line of units worth one each stands for
the lines; tax, cost and the voided commissions follow the amounts and are left out.

`ResumableSteps` is the abstract specification of a job with a step ledger: effects land and stay, and the job is reported
completed only when all of them have. `KeepsLedger` says that `Reversal` implements it under the mapping `Landed` (what the
other services and the order show) and the row's status, in every behaviour.

### Receivables

One customer's credit sales, and treasury, which keeps the authoritative debt. A settlement at the till is
`SettleCreditPayment` (which stores a recomputed total on the way), `InsertSettlement` under the row lock,
`RecomputePaidTotal`, `RecordARPayment` and `MarkSynced`; the two-minute reconciler begins at the call again (`RetrySync`,
whose age limit is taken to mean that no request is still at the row). A void is `LoadForVoid`, `VoidPayment` (which writes
`payment_data` back as it was loaded), the recomputation and `VoidARReceipt`. A balance event (`BalanceUpdated`) and the
daily audit (`AuditOne`) start the same pass: `ReadOrders`, then `ApplyReconcileSettlement` row by row, oldest order first,
or `UnreconcilePhantom` when a receipt was voided. `Receive` and `Withdraw` are receipts treasury takes and voids by itself.
Recomputation is one step here (OrderSettlement has it in two), which may fail, with the total stored or not: the till drops
that error and posts all the same, a void and an undoing pass go on, and a settling pass goes to the next order without
deducting what it has just recorded (`AfterLostRecount`). The history variable `missed` keeps, per order, what was recorded
over a failed recount. A unit is a shilling, and `Tolerance` is the audit's `arDriftTolerance`. `scene` says what one behaviour
may meet, tills and treasury's own receipts among it, and how much the orders come to. Left out: the audit's flags for a human in the unsafe
direction, the balance cache (last write wins), the manual heal endpoint (the same pass), returns, and the store credit a
surplus settlement becomes.

### GatewayPayments

The payments of one order and treasury's intents. Cash and keyed tenders (card or M-Pesa code) are recorded completed first
(`RecordCash`), and their intent is created by a background goroutine (`IntentReference`, `CreateIntent`, `Backfill`) or by
the reconciler (`RetryIntent`); a digital tender chooses its reference, creates the intent and then records a pending row
(`RecordPending`) that the events confirm or fail (`Load`, `Write`, one row at a time). Treasury is external: it keeps one
intent per reference, answers a repeated reference with the intent it has, and may capture money for an intent it declined
before. Events are assumed to carry the captured amount. Left out: the entitlement gate, the reconciler's 24-hour window,
the reuse check of M-Pesa codes, the refund a void asks of treasury, and completion, which OrderSettlement has.

In the last three modules `scene` (`sale` in Reversal) is chosen in `Init`: the kinds of failure one behaviour may meet. Every
failure is counted by `faults`.

## 3. Runs

Bounds are in the `.cfg` files; every bound of a model is a named constant that appears in a guard.

| Run | Question | Bounds, and why they are enough |
|---|---|---|
| `settle_mix` | Do cash, the legacy endpoint, voids of payments, repricing, status changes, draft deletion, releases and returns, with crashes, keep the till and the completions right? | 3 requests: every race in this code is between two writers and one who read before them |
| `settle_credit` | Do credit, settlement, complimentary and cash on one order complete it only when covered? | 3 requests, full and part amounts, a return of half |
| `settle_live` | Does a covered order complete, and does every request end? | 2 requests of 7 kinds, of which any may die between two statements; liveness is checked without symmetry |
| `settle_over_collects` | "a sale can never collect more than the order is worth" | violated, see section 6 |
| `print` | Attempt cap, settlement, no reprint, final statuses; the queue and its agents implement `CappedDelivery` | 2 agents, 1 job, cap 2, TTL 2, lease 1: a lease runs out, is swept and reclaimed, and the cap and the TTL are both reached. Jobs do not interact except through the agents' time |
| `docs_numbers` | Numbers unique, growing, gapless; attempts lost only to others; the calls implement `NumberRegister` | 3 symmetric callers, 2 attempts (5 in the code), 4 calls: exhaustion, a lost first insert and settings changed in between all happen |
| `replay_sync` | One sale, one effect, a final answer | 3 requests in flight (an original, the one that takes over, one more), 3 faults, calm and faulty |
| `replay_twice` | "executed once" | violated |
| `final_reach` | Does each first completion reach the others, is the mark true, is nothing published needlessly? | 2 goroutines, 2 completions, another metadata writer, 2 faults. The window is 6 ticks: two faults can eat two periods of 2, and the third one still finds the order. The code's window is 288 periods |
| `reversal_saga` | Does completed mean done, is nothing voided, netted, posted or taken twice, do all reversals complete, and do the ledgers implement `ResumableSteps`? | 2 reversals by 2 requests on a sale of 2 units: a full one after a partial one, and two partial ones; 2 failures, so that a retry can fail again. Calm sales in every mix of payments; unsound and overlapping ones in the mixes where the split of the refund matters |
| `receivables` | Is every settlement posted and backed by money, undone only for a voided receipt, and does drift heal? | 2 workers, 2 orders, 1 receipt of treasury's own, 2 settlements, 4 rows, 1 void, 1 fault, a tolerance of 1 as in the code: drifts of 1, which the audit leaves, and of 2, which it heals. Eleven scenes: two orders of a shilling or one of two, with tills, treasury's receipts or both; failing statements and calls, late ones; debt of other origin; voids; overlaps, also with failures or a crash. One fault is enough for either way in which a failed recount settles money twice. 107,000 states, two minutes |
| `gateway` | Does digital money count only when captured and in the end always, do payments keep to their own intents, and does each cash payment get one? | 3 payments with treasury away, late answers and crashes, 2 payments in the scenes with declines, races of 2 handlers, failing statements, a void, overlapping requests; 2 faults, so that a retry may fail as well |

The runs check what is not proved, and the results of the proofs that a small instance illustrates. Type invariants are
left to TLAPS but for `GatewayPayments`, where it says that no amount goes below zero and no date past the
payments; so are inductive strengthenings (`DeliveryInv`, `MarkInv`). `SumsMatchRows`, `LeaseHeld`, `CompletedStays` and
`DoneStays` are stated beside the others and proved; `NoReprint`, `CalmExecutesOnce` and `KeepsLedger` ask the same questions of
what follows from them.

Deadlock checking is off where the model stops by design: when every request has ended or the bounds are used up. It is
on in the print queue, where agents poll for ever.

**Fairness.** Liveness is claimed only under weak fairness of steps the code takes on its own: a handler that started runs
its next statement (`settle_live`, `SaleReplay!Serve`), a goroutine goes on (`SaleFinalized!Work`), the outbox publisher and
the reconciler's ticker run (`Send`, `ClaimPeriod`), agents poll (a loop with a 45-second timer), the sync worker retries,
and time passes (`Tick`, `GrowOld`). The timers of the two-minute reconcilers and of the daily audit always come
round, but the worker may be busy when they do: strong fairness of `RetrySync`, `AuditOne` and `RetryIntent`. That an operator
goes on retrying a reversal that is not completed is an assumption (`AllComplete`), since the code only offers the
button. Nothing is assumed of clients' choices, of failures (only that they are finitely many
where they are counted) or of the order of steps. `settle_live` includes crashes. Nothing in the code retries a completion whose
process died, so `CoveredCompletes` promises nothing once a request is dead; `StartedEnds` does, to all the others.

**Refutability.** Every property of every passing run has a mutant in `PROJECT.json`: a plausible bug, written as an operator
next to the definition it replaces (`Eligible_NoFloor`, `Claimable_NoCapOnLeases`, ...), under which TLC finds the property
violated.

## 4. Proofs

The theorems hold for every value of the constants under the `ASSUME` of their module (naturals where the code has
counts and durations, disjointness of model values, finite sets of requests and rows), and under what the table names
besides. Every safety property a passing run checks is a theorem, the invariants and the action properties, the three
refinements among them.

| Module | Theorem | Argument |
|---|---|---|
| OrderSettlementProofs | `TypeCorrect` | `Shape`: with the types, which handler can be where (`KindsInPlace`), and what its place says of its row and of the lock (`RowsInPlace`) |
| | `OneClaimPerOpening` (`SingleClaim`) | `ClaimInv`: an order in a payable status has used up none of its claims. `SingleClaim` alone is not inductive: a claim from a payable status would break it |
| | `SumsStayTrue` (`SumsMatchRows`) | the sums the handlers read are those of the rows: an insert adds one row's amount, a void takes it off once |
| | `TillNeverOvershoots` (`TillWithinPeak`) | `TillInv`: every snapshot of the total is at most the peak, and an amount chosen under the lock still fits when the row is inserted, because the lock keeps all other till rows out in between. What the other tenders took is subtracted from the balance, and `SumsMatchRows` says it is never negative, however often one row is voided |
| | `CompletedStaysCovered` (`CompletedIsCovered`), under `OnlyTendered` | `CoverInv`: a snapshot's total is still the order's, and what a request summed is still there (`ReadingsStand`). `OnlyTendered` leaves out the voiding of rows, the operations that change the total, and a client asking `UpdateStatus` for "completed"; TLC finds an uncovered completed order when any one of them is let in |
| | `SerialRecounts` (`PaidTotalConsistent`), `SerialCollectsWithinWorth` (`NeverCollectsBeyondWorth`), `SerialDeletesDrafts` (`DeletesOnlyDrafts`), under `SerialSpec` | `SerialInv`: one request runs, what it has read still holds (`SnapshotHolds`), and the paid total is what was collected unless somebody is about to count again or died first (`Recounted`) |
| | `SerialReopens` (`UncoveredReopens`), under `SerialSpec` and no client asking for "completed" | `ReopensNext`: a completed order is covered, or a void is on its way to reopening it, or a request died |
| SaleFinalizedProofs | `TypeCorrect` | |
| | `MarkStaysTrue` (`MarkIsTrue`) | `MarkInv`: whoever holds the mark in a snapshot, or is about to write it, does so after a row was inserted; rows vanish only by being delivered. Needed because any metadata writer may write an old snapshot back |
| | `MarksFollowRows` (`MarkInv`) | the inductive invariant itself |
| | `RedundancyStaysPaid` (`RedundancyIsPaid`) | `DuesInv`: rows stored, plus those a goroutine is bound to insert, plus those the next scan will, never exceed completions, faults and overwritten marks. A scan that starts while another one runs was paid for by the tick the other outlived, and the one after it as well once a tick has passed; a fan-out is over before the clock ticks (`Roles`) |
| SaleReplayProofs | `TypeCorrect` | |
| | `SaleOnce` (`OneSale`) | `RouteInv`: the request about to announce an order is the one that created it, and the only one |
| | `CalmOnce` (`CalmExecutesOnce`) | `CalmInv`: an in_flight key belongs to the one running request, and once the effect is committed the key stays taken |
| | `AnswerStays` (`CompletedStays`) | from `CalmInv`: nobody is at work on a completed key |
| PrintQueueProofs | `TypeCorrect` | |
| | `PrintsStayWithinCap` (`PrintsWithinCap`) | `DeliveryInv`: deliveries of a job are numbered `1..attempts`, no two agents hold the same one, and a held one is not on paper yet |
| | `DeliveriesStayFresh` (`DeliveryInv`) | the inductive invariant itself |
| | `NeverReprinted` (`NoReprint`), `FinalStaysWhenTimely` (`FinalWhenTimely`), `LeaseStaysHeld` (`LeaseHeld`) | `HandInv`, for reliable shops: a claimed job is in the hands of the agent in its row, within the lease, or its acknowledgement is on its way; a good print is the last delivery, and the job is printed or about to be called so |
| | `QueueIsCapped` (`ImplementsDelivery`) | step simulation: `Claim` is `HandOut` (an answer that gets lost is a lost slip), `Dispatch` and `AgentDies` are `Use`, `AckWrite` is `Tell`, the sweeps and polls stutter. `DeliveryInv` says that slips are fresh; `AckInv`, that an acknowledgement of success follows a print, and that the attempts `Outcome` compares, read in an earlier statement, are no more than the job has had |
| DocumentSequenceProofs | `TypeCorrect` | |
| | `NeverTwice`, `NumbersGrow`, `OnlyProgressDefeats`, `NoGap` | `CounterInv`: a caller about to compare read the counter after it began, and each lost attempt was paid for by an error or a step of the counter. `NoGap` adds that `issued` fills `1..row.val` |
| | `SequenceIsRegister` (`ImplementsRegister`) | step simulation: `Take` is `HandOut`, a failed compare-and-set that took effect is `Skip`, every other step a stutter; `CounterInv` is needed for the insert of the row, which may only start the counter where the register is |
| ReversalProofs | `TypeCorrect` | with it, that an amount written from an earlier read is never negative: the cut is bounded by the amount read with it |
| | `CompletedIsDone` (`CompletedMeansDone`) | `RowInv` and `RequestInv`: whatever a ledger calls done, in the row or in a request's copy, has happened, and effects never go away. The property alone is not inductive: `Finalize` believes its copy |
| | `LedgerKept` (`KeepsLedger`) | step simulation: an effect is `Land`, `Create` is `Open`, `Finalize` is `Tell`, whose guard is what `RequestInv` says of the copy |
| | `VoidsStayWithinSold` (`VoidsWhatWasSold`), `NetsStayExact` (`NetsOnce`), `BooksStayTrue` (`BooksAgree`), `PointsStayOnce` (`PointsOnce`), `LedgersOnlyGrow` (`DoneStays`) | `CalmInv`, see below |
| ReceivablesProofs | `TypeCorrect` | no total, amount, target or debt goes below zero, though each is written from an earlier read |
| | `SyncedStaysPosted` (`SyncedIsPosted`), `UndoneStaysVoided` (`UndoneWasVoided`) | `SafeInv`: whoever is about to mark a row, or carries a loaded mark back to it, does so after treasury took the receipt; whoever undoes, and each event under way, names a receipt that is void, and a void receipt stays void |
| | `VoidsStayReversed` (`VoidedIsReversed`) | `CalmInv`: no two requests hold one row, and the id that reverses its receipt is known to whoever holds it, or, when nobody does, to the row |
| | `SettlesStayWithin` (`SettlesWithinWorth`) | inductive with `SafeInv` and the types: the row lock and the check under it are enough, for tills, workers and passes alike |
| | `SettledStaysReceived` (`SettledWasReceived`) | `SoundInv`, see below |
| GatewayPaymentsProofs | `TypeCorrect` | no amount is negative, and no payment occurs later than the order has payments |
| | `ConfirmedStaysCaptured` (`ConfirmedWasCaptured`) | `CaptureInv`: a success under way, in the mail or in a handler, names a settled intent, a settled intent is final, and a digital row keeps the reference it was recorded with |
| | `ConfirmedStays` (`FailKeepsConfirmed`) | `OneHandler`: while one handler works at a time, what it still has to fail is pending |
| | `IntentsStayOwn` (`OwnIntent`) | `OwnInv`: while earlier payments stay, `occurred_at` ranks the payments without ties, so the reference computed at a retry is the one of the first attempt; every intent has the payment it belongs to, and a settled one is worth no less than its row |

**`CalmInv` of Reversal.** Where one reversal is worked on at a time and the process and its database hold, four claims about
sums have to be kept together: the line's voided units are those of the reversals that voided (`Counted`), the payment
rows hold what was paid less the partial reversals (`Netting`), and the cash given back, posted or yet to be posted, is
what is missing from the cash row (`Till`). None is inductive without the rest: each request's copy of the ledger differs
from the row only in the step being written (`Copied`), what it read of the line and the rows is still so (`Known`), and
each effect is tied to the ledger entry that stands for it (`Tally`, `Booked`), or else a retry would repeat it.

**`SoundInv` of Receivables.** A pass adds to the orders what treasury's debt is short of what they show as open. That is
safe because three inequalities hold at any moment one may read: the debt with all that treasury has recorded is at least
what the sales are worth (`Owing`); what an order collected is in its paid total, but for rows a till has not recounted,
what failed recounts missed, and what a pass has just paid in (`Counting`); and what a pass may still add is covered by what
was received and what was missed (`Giving`). A failed recount of a pass keeps both sides of `Giving` level: the order shows one
share more, the pass has as much left as before, and `missed` grows by that share.
`Orderly` says who may be at which row in between, `Blank` that a receipt not yet taken is worth nothing.

**Sums.** The community modules define a sum over a finite set by recursion on a chosen member. What the proofs need of it
(the order of the members does not matter, one changed value changes the sum by the difference, larger values give a
larger sum, a disjoint union adds) is proved by taking a minimal subset that refutes the claim, in the well-founded order
of strict inclusion: no induction rule with a predicate for parameter is needed. Four modules need these lemmas, and each
proves its own, so that its proof can be read alone.

**What the proofs changed.** `SettledWasReceived` was first proved of recounts that cannot fail. With failing ones that
is false; with `missed` added it is true: what was recorded over a failed recount is settled once too many, never twice.
The type invariant of Receivables is false with `MaxOrder = 0`: requests and rows not
in use name order 1. The constant is now at least 1, a customer with a sale. The sets of
receipts and of requests are assumed finite where sums run over them. `Outcome` in PrintQueue has exclusive cases, which
changes no behaviour. `TillWithinPeak` was first proved for shops without the legacy endpoint; the premise turned out not to be
needed once `SumsMatchRows` says that no sum is negative, and `settle_mix` now runs that endpoint. `PaidTotalConsistent` does not
speak of deleted orders, which have no row. Each strengthening was checked with TLC on the module's run before it was proved.

**Only model-checked.** All liveness (`CoveredCompletes`, `StartedEnds`, `JobSettles`, `SyncEnds`, `SaleReaches`, `AllComplete`,
`SettlementReaches`, `DriftHeals`, `IntentFollows`, `CapturedCounts`): fairness and ENABLED are out of the prover's reach.

## 5. What holds, in words

- Tenders that lock the order row never take more than the largest total the order ever had, whatever races them.
- The post-sale fan-out starts at most once per time an order becomes payable.
- A first completion reaches the outbox whatever crashes, as long as faults stop before the 24-hour window is over, and
  the reconciler never publishes a sale whose fan-out is still under way.
- A replayed sale is created once and announced at most once, whatever fails. Other keyed requests are executed once only
  if nobody dies, overruns or fails after committing.
- Where requests on one order do not overlap, no sale collects more than it is worth, the stored paid total is what was
  collected, only drafts are deleted, and an uncovered order reopens unless the process dies.
- A print job is printed at most `MaxAttempts` times, always settles, and is not reprinted while agents keep their leases.
- Document numbers are unique, grow, and have gaps only after a failed compare-and-set.
- A reversal reported completed has had every effect, whatever overlapped, died or was lost, and retried long enough each
  is completed. That nothing is voided, netted, posted or clawed back twice holds while one request runs at a time and the
  process and its database hold, also when the services it calls fail or answer late.
- A settlement at the till reaches treasury in the end, and a row marked synced is posted. A pass takes back only what a
  voided receipt had brought about. Tills never settle beyond a sale's worth, and while nobody dies, voids or overlaps nothing
  is settled without money received, whatever calls fail or come late, but for what was recorded over a failed recount, which
  may be settled once more. A drift beyond the audit's tolerance of one shilling comes down to within it.
- A digital payment counts only what treasury captured, and counts it in the end unless a statement fails, handlers race or
  payments share a reference. Every cash payment gets an intent; it is its own while earlier payments stay.

## 6. Where the code and its comments part

Two have a run whose counterexample is the shortest one:

- **Over-collection** (`NeverCollectsBeyondWorth`, `modules/payments/service.go:481`): the re-check under the row lock
  compares with the total read before the lock, so a discount committed in between is ignored.
- **Executed twice** (`ExecutedOnce`, `http/router/router.go:379`): the key is removed on any 5xx and taken over after two
  minutes, although the effect may be committed.

`SerialSpec` separates races from mistakes: where requests do not overlap, `NeverCollectsBeyondWorth`, `PaidTotalConsistent`,
`UncoveredReopens` and `DeletesOnlyDrafts` are theorems (section 4), so that their counterexamples need two requests at once.
`TransitionsFollowTable` is not among them: reopening a completed order and adding lines to one that awaits payment write statuses
outside the table even alone.

The models also state these, which no run checks; adding the definition to the module's configuration shows the
counterexample:

- `UncoveredReopens` (`modules/payments/manage.go:214`): a payment voided between the sum and the claim of completion leaves
  the order completed on money that is gone, against "a completed order that is no longer covered reopens".
- `FinalIsFinal` (`modules/printing/queue.go:345`): `Ack` checks the holder in one statement and stores the outcome by id in
  another, so a printed job is queued again.
- `FailureResolved` (`modules/payments/reconciler.go:95`): a FAILED row keeps the reconciler republishing for 24 hours after
  the republished event was delivered.
- `OneDispatchPerOrder` (`service.go:1158`): void a payment of a completed order and pay again; consumers are keyed on the
  order id.
- `PaidTotalConsistent` (`service.go:1060`): two recomputations overlap and the older sum is stored last.
- `TransitionsFollowTable`, `DeletesOnlyDrafts` (`modules/orders/service.go:1197`, `http/handlers/orders_bulk.go`): validated on a
  row read earlier, written by id.
- `CoveredCompletes` fails when `edit` joins the kinds of `settle_live`, and from `awaiting_acceptance`: two rechecks miss each
  other's change, and a held order paid in full is not rechecked when released.
- `LeaseHeld` without its reliability premise, and `ExhaustedIsFailed` (`queue.go:26-28`).
- `SyncedIsRouted`, `RefusedDidNothing` (`idempotency.go:158`): the order exists, but the reload after its commit failed or
  the retry was refused by a check that runs before the lookup.
- `NotesKept` (`service.go:1904`): reload-then-merge narrows the window in which a metadata key is lost but does not close it.
- `EveryCompletionPublished` (`reconciler.go:29`): the mark of the first completion hides the lost fan-out of the second.

Those found while modelling reversals, receivables and intents appear when the premise of a property is dropped (`Calm`,
`Steady`, or the kinds of failure a property excludes) or come from reading the code against its comments:

Reversals (`modules/reversals`):

- `NetsOnce` without `Calm`: a retry after a lost commit answer, or one that overlaps `Execute`, cuts the payments twice. The
  on-account row carries the stamp and is skipped, so the cash row is cut for the whole amount; the comment at
  `steps.go:269-279` claims protection.
- A second reversal overwrites `VoidedReason` and the stamps of the first; a retry of the first then voids again and routes
  its refund to the wrong account.
- The full reversal of a cash sale leaves no stamp and is posted entirely as a receivable write-off; the same happens when
  the totals transaction rolls back and the run goes on, after which the retry cuts the cash.
- `PointsOnce` without `Calm`: points are taken again, although `service.go:234-236` calls every step idempotent.
- `VoidsWhatWasSold` without `Calm`: two overlapping `Execute` void more than was sold.
- The loyalty step prorates by the order's total after the totals step has lowered it (`steps.go:626`).

Receivables (`modules/payments`):

- `VoidedIsReversed` with failures: nothing retries `VoidARReceipt`, though `manage.go:229-230` says the reconciler catches
  up. A replayed post answers without a receipt id, so a later void has none to reverse.
- A pass stamps every row it writes with the one event that started it; when several receipts made up the gap, voiding
  another one is never undone.
- `SettledWasReceived` without `missed`: nobody needs to die, void or overlap for money to be settled twice. The till drops the
  error of the recount after its settlement (`credit_settlement.go:208`) and posts the receipt, so the next pass finds a debt
  below the stale paid total and settles the same money again. In a pass, `applyReconcileSettlement` returns that error after its
  row is inserted (`ar_reconcile.go:258-260`), and the loop goes on without `remaining -= apply` (`ar_reconcile.go:213-216`), so
  the next order gets the same money; `ar_reconcile.go:215` speaks of a retry of the rest.
- A drift of up to `arDriftTolerance` (one shilling) is called agreement and stays; the comment (`ar_drift_audit.go:30`) speaks of
  float rounding noise.
- A crash between the settlement's commit and the stored total, followed by the sync, makes the next pass settle the same
  money again; so do two overlapping passes, and a pass that overlaps a void.
- A settlement that overlaps a pass overpays one order, and the gap is settled on another. Fetching the figure again
  (`treasury_balance_subscriber.go:173-189`) narrows these windows and does not close them.
- The audit never looks at a customer with nothing open in pos-api, contrary to `ar_drift_audit.go:54-63`.
- `close_on_account.go:45-47`: a crash between the posting (`service.go:651`) and the metadata write (`service.go:696`) lets a
  second click post again.

Intents (`modules/payments/service.go` and its workers):

- `OwnIntent` with a void or a decline: the reference is computed again at a retry, from the payments that stand by then, so
  the payment collapses into another one's intent (`service.go:1189-1196`; `docs/integrations.md:219` says a retry still
  dedups).
- `OwnIntent` with overlapping digital requests, a lost first attempt or a failed query: two rows share the base reference
  and one event confirms both. `service.go:431-434` says each retry creates a fresh intent.
- The intent's amount is fixed before the row lock and not lowered with the row's, so treasury may record more than the row.
- A keyed payment has its external reference from the start, so the reconciler never finds it when its create is lost,
  contrary to `service.go:443-445` and `intent_reconciler.go:16-22`.
- `FailKeepsConfirmed` with two handlers: a failure read before a confirmation overwrites it.
- `CapturedCounts` with a failing statement: the event is acknowledged and the payment stays pending for ever.
- A confirmation also completes failed and voided rows that share its reference.

## 7. Not modelled, and the plan

The components not in bold above, with reasons in `PROJECT.json`. In order:

1. `OrderTotals`: add, edit, partial void and discount recomputing one order; then composed with OrderSettlement, whose
   `Reprice` it refines. A composition of OrderSettlement with GatewayPayments belongs here: a confirmed digital row
   completes the order through the same claim.
2. `Returns`, then sale deletion and editing, which reuse the step ledger and can be shown to implement `ResumableSteps`.
3. `CreditSale`: the receivable posted before the row and the mark (`close_on_account.go:48-63`) and its retry.
4. `PromotionCaps`, `LoyaltyLedger`, `CashSession`, `ApprovalCode`, `WebhookDelivery`, `RoomBooking`, kitchen tickets.

Most of the repository's Go is the generated ORM under `internal/ent`; it is modelled only as the statements, conditions and
transactions the handlers use. Reports, layouts, media and mirrored records have little state to check.

Known hazards outside the modelled part, or without a property because the model shows that the code makes no such promise:
`paid_total` stored by several writers (`service.go:1060`, `handlers/loyalty.go:942`, `steps.go:329`, `increase.go:437`); a
draft deleted after a payment completed it (`handlers/orders_bulk.go:139`); a crash before the completion is claimed
(`service.go:526`); a held order paid in full and then released (`modules/orders/service.go:1154`); a reload that fails after
the order's commit (`modules/orders/service.go:1113`); checks that run before the lookup of a retried sale
(`handlers/orders.go:1346`); a mark that survives a reopening (`reconciler.go:123`); two fallback numbers in one millisecond
(`modules/orders/service.go:725`).

Abstract specifications to state and refine: an at-least-once channel for SaleFinalized, a till with a budget for
OrderSettlement.

Proofs to add: the step simulation of each of these refinements, and of the components above as they are modelled.

Runs stay few: safety and liveness of a module share one run, and the modes of an environment (calm or faulty, reliable
or not) are chosen in `Init`, so that each module needs one passing run and at most one counterexample.
