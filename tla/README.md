# Verification of PayTwin OS

PayTwin OS takes webhooks of payment providers, keeps a ledger of payments, orders and refunds,
detects degradations of payment success, and carries out bounded recovery actions under a policy,
with an audit trail of all of it. This directory holds TLA+ models of the parts where order,
concurrency and failure decide whether money is accounted for, the TLC configurations that check
the models on small instances, and proofs, checked by TLAPS, that hold for instances of any size.

Paths below are relative to `src/services/api/paytwin_api/`, where nothing else is said.
`PROJECT.json` lists the lines that each definition models.

| module | what it is |
| --- | --- |
| `PaymentLedger` | the payment state machine, `services/state_machine.py` |
| `CaptureLedger` | what the state machine promises about money (abstract) |
| `LedgerHistory` | the ledger with a history of the deliveries it has applied |
| `WebhookInbox` | from a webhook to its effect: `services/ingest.py`, `worker.py` |
| `EffectivelyOnce` | what the inbox promises a provider (abstract) |
| `WebhookInboxProofs` | proofs about `WebhookInbox` |
| `AuditChain` | the hash-chained audit trail, `services/audit.py` |
| `AppendOnlyLog` | what the trail promises (abstract) |
| `EvidenceProofs` | proofs about `AuditChain`, `ReliabilityLab` and `Shops` |
| `RecoveryAction` | actions and payment links: `services/executor.py`, `services/razorpay_local.py` |
| `RecoveryActionProofs` | proofs about `RecoveryAction` |
| `Checkout` | proof and fulfilment of an order, `services/checkout_verification.py`, `routers/checkout.py`; extends `PaymentLedger` |
| `CheckoutProofs` | proofs about `PaymentLedger`, `LedgerHistory` and `Checkout` |
| `SafetyWorld` | the reliability engine's shops, scenarios and verdicts: `reliability/engine.py`, `fixtures.py`, `invariants.py`, `packs.py` (operators only) |
| `Shops` | the shops of `SafetyWorld` side by side, each delivered the same events |
| `ReliabilityLab` | runs of the lab, its evidence file and its gate: `reliability/router.py`, `runtime.py`, `store.py`; composed with `SafetyWorld` and `PaymentLedger` |
| `PolicyEngine` | the rules in force and the verdict, `services/policy.py` (operators only) |
| `Incident` | detection sweeps, incidents and their actions: `services/incident_service.py`, `routers/incidents.py`, the drafts of `services/commander.py`; extends `PolicyEngine` |
| `AdminState` | policy versions, model stages and webhook secrets: `routers/policies.py`, `models.py`, `integrations.py`, `services/reconciliation.py`; extends `PolicyEngine` |
| `PolicyProofs` | proofs about `PolicyEngine`, `Incident` and `AdminState` |
| `RecoveryBatch` | a measured batch and those who pay beside it: `services/sim/paytwin_sim/demo.py`, `services/experiments.py`, `services/razorpay_local.py`, `connectors/razorpay.py` |
| `RecoveryBatchProofs` | proofs about `RecoveryBatch` |
| `EventStream` | the outbox and the live stream: `services/bus.py`, `routers/stream.py`, `routers/chaos.py` |
| `EventStreamProofs` | proofs about `EventStream` |
| `NatFacts` | facts about numbers and sums that the proofs share |
| `MC...` | small instances of the modules for TLC |

## 1. Inventory

All state lives in one SQL database (SQLite or PostgreSQL). The processes are the threads of the
API server, which serve requests of operators, of providers and of checkout pages, and one or more
worker processes, which repeat a tick for ever. They interact through the tables only; there are
no messages between them but the events a server publishes to its own live subscribers.

| component | state | operations | what is hard |
| --- | --- | --- | --- |
| Payment state machine | `payments`, `orders`, `refunds` | `apply_event`: 9 event types | providers deliver late, twice and in any order; refunds before captures; totals at their limit |
| Webhook ingestion and worker | `event_inbox`, `canonical_events`, `dead_letters` | `accept_webhook`, `ingest_webhook`, `materialize_inbox`, `process_pending_inbox` | repeated and concurrent deliveries, rows read before others change them, crashes between commits, transactions that lose a race |
| Audit trail | `audit_records`, `audit_heads` | `append_audit`, `verify_chain` | writers without a common lock, each inside its caller's transaction; bounded retries; two guards that must agree |
| Action executor and payment links | `action_executions`, `payment_links` | request, approve, monitor, halt, retry, roll back; issue, pay, expire and cancel links | no row is locked, so every handler acts on what it loaded; several commits per operation; stopping rules |
| Checkout and fulfilment | `checkout_verifications`, `fulfilments` | verify a callback, fulfil an order | unauthenticated callbacks in any order beside webhooks; one effect per order |
| Policy engine | `policies` | the rules in force, the verdict on an action, versions | rules of several policies in one verdict; versions edited at once |
| Incident detection | `incidents` | sweep, open, execute, approve, halt, resolve; drafts of the commander | look for a recent incident, then insert; the number of an incident is a count; halts beside the autopilot |
| Model registry | `model_versions` | register, validate, promote, retire | one champion, by requests that overlap |
| Reconciliation, secret rotation | `integrations` | connect, rotate, retire old secrets | a grace period in which two secrets are valid |
| Experiments and the batch | `experiments`, assignments, outcomes | assign, send, settle, measure, claim | a long operation that every webhook commits in the middle, and that goes by rows it loaded at its start while others pay, stop and close them |
| Outbox and live stream | `outbox`, subscriber queues | publish on commit, dispatch by the worker | hooks that fire for savepoints, too; bounded queues |
| Reliability engine | an evidence file, `reliability_runs` | run packs and sandbox checks, store, answer the gate | a file lock and an atomic replacement, beside the database |
| API shell | the rate limiter's table | count requests per identity | a bounded table with eviction |
| Connectors, optimizer, forecasts, ML, simulator, reports | none of their own | translate, rank, estimate, show | numeric or read-only |

Who calls whom. A webhook request stores an inbox row and answers. The worker's tick
(`worker.run_once`) materializes pending rows, which calls `apply_event`; looks for incidents and
may request actions of the executor; monitors open executions; and runs the reconciliation sweep.
Local tools (`services/razorpay_local.py`, `ingest_webhook`) do the same in one transaction, and the
executor pays and cancels links through them. Nearly every operation ends in `append_audit`.

What makes each correct:

* **State machine.** A capture is never lost and never taken back, whatever arrives around it; a
  payment is refunded at most up to its amount and only once captured; a refund that came too early
  is settled when the capture comes; a paid order was paid.
* **Inbox.** A delivery takes effect once; what was acknowledged is stored, and handled in the end.
* **Audit trail.** One chain, no fork, never shortened; the checkpoint agrees with it; a deletion is
  found, unless it overtakes an append; writers do not wait for each other for ever.
* **Executor.** The policy has the last word, only captured money is claimed, a link is issued once,
  and no action runs for ever. (A halt ought to be final, and is not: section 6.)
* **Checkout.** One effect per order, made for a captured payment that was proved to be of this
  order; proofs are final.
* **Policy and incidents.** What runs without a human keeps the rules in force; nobody promises more
  than the policy; a halt stops what the autopilot started, but for what an operator approved; an
  outage that lasts becomes an incident.
* **Administration.** Only the newest version of a policy speaks; the promoted model serves; the secret
  that was rotated last is accepted until its grace is over, whatever connections and sweeps come
  between, and retired secrets go. (Secrets rotated before it, or replaced by a connection, are not: section 6.)
* **Batch.** Stored outcomes are what the batch itself has captured, whoever pays beside it; no lift is
  claimed that was not measured; no link stays open that nobody has opened again.
* **Stream.** A commit forgets no event, nobody sees one twice, every row is dispatched in the end.
* **Reliability engine.** The lab sees the defects it is there to see and raises no false alarm;
  evidence is never lost, and a gate is read from the organization's own.

## 2. Plan

The order in which the modules were written is the order of what matters most to the system. Done:
the ledger, the inbox, the audit trail, actions and links, checkout, the reliability engine, the policy
engine with incidents, administration, the batch and the stream. All of them are proved about as well as
checked.

Left, with what would make it worth doing:

1. `RateLimiter`: the sliding window and the table of identities that is pruned when it is full.
   The question is whether an identity's window can be forgotten before it is over.
2. `RecoveryAction` composed with `PolicyEngine`, whose verdict is arbitrary there; `Incident` composes
   the two but leaves out what a dispatch commits on its way.

Modules are written to be proved about: parameters are constants with named assumptions, an
operation is an action, invariants are conjunctions of named parts, and no operator is declared
RECURSIVE (the loop over held refunds is a recursive function).

## 3. How the modules correspond to the code

**Transactions.** A database transaction commits in one step. What it read before is kept by its
process and used later, when others may have committed in between: this is how PostgreSQL behaves
at READ COMMITTED, and where the code loads rows without `FOR UPDATE` the models split an operation
into a step that looks and a step that writes. Where the code holds a row lock, or has inserted a
row that another transaction would collide with, the others wait.

**PaymentLedger.** `apply_event` locks the payment's row before it reads it, so an event is one step.
`ApplyEvent` has one disjunct for each way an event can end: late, progress, capture, and five ways
for refunds. The tables are functions from references to rows; `arrival` is the order in which refund
rows were created, by which held refunds are settled. `RunningTotal` is the loop over them. The
session flushes late (`autoflush=False`), which `NewlyRecovered` has to account for: the bulk update of
a retry group does not see a group that the same event has just changed. Left out: times, currencies,
failure classes and cohort fields, which no branch of a provider event depends on. `LedgerHistory` adds the set
of the events applied so far, for what must hold of the tables whatever has been delivered.

**WebhookInbox.** A request looks its delivery up (`Deliver`) and then answers a known one
(`AnswerKnown`), stores it (`Accept`), or loses the race for the unique key and answers as for a
duplicate (`LosesRace`). A direct delivery is stored and applied in one transaction (`BeginDirect`,
`CommitDirect`, `FailDirect`). A worker takes the oldest pending deliveries (`TakeBatch`), then locks
one row after another (`SkipDone`, `BeginItem`), applies it (`CommitItem`) or fails (`FailItem`) and in
a transaction of its own gives the delivery up (`MarkDead`). Processes crash between any two steps.
What applying does to the ledger is a counter here; `PaymentLedger` says the rest. A transaction fails
when it inserts a payment or an event that another has inserted since it looked (`Collides`).

**AuditChain.** Each query of `append_audit` is a step of the caller's transaction, because two
writers interleave between them: `ReadHead`, `ReadTail`, `CountTail`, `TakeNumber`, `Insert`, `Checkpoint`,
and the caller's `Commit` or `Abort`. The hash of a record is the sequence of payloads it covers, an
injective hash. `DeleteRecords` is the interference that `verify_chain` exists to find; it takes any
records at any time, also while appends are in flight. `overtaken` is a history variable: a deletion has taken the record
that stood in the place an append in flight goes by (`Awaits`), which that append can then take itself.

**RecoveryAction.** Clerks request, approve and halt; a worker monitors; customers pay links. A
process has loaded a row (`...Looks`) and writes it later, whole. Cancelling links is one commit for
each, and a link's capture commits before its status. A retry is dispatched anew without the fault of the first
dispatch, up to `RetryLimit` times. The policy's decision, the connector and the
fault that a provider shows are chosen when an execution is inserted. Left out: audit records, costs,
the resolution of incidents, the calls to real providers, which the configuration refuses.

**Checkout.** Extends `PaymentLedger`, whose `Next` is the action `ProviderEvent`, by proofs and
fulfilments. `VerifyLooks` and `Verify` are the queries and the write of
`verify_razorpay_checkout`. Its queries are one step, which loses nothing: once an order is
paid it stays paid, so what two queries see at two moments a single moment would have shown.
`VerifyCollides` is the second of two first callbacks. `FulfilLooks` reads the payment; `Fulfil`, or
`FulfilNothing`, does the rest under the lock on the order. A signature is modelled by the set of pairs
that the provider signs. The fulfilled order keeps its row; refunds of it do not take the fulfilment
back, in the code as in the model.

**SafetyWorld.** `Handle` is `SafetyWorld.handle`: a shop is the set of the controls it has, and `World` is
what a sequence of events makes of it. `Violates` has one case for each evaluator, `Scenarios` one record for
each scenario of the packs. `Shops` delivers the same events to all nine shops side by side (`run_scenario`, one
event at a time): those of a scenario, or any sequence of those in `Possible`. `ShopsAssumption` asks of these that they be
coherent, which the events of the packs are: deliveries of one id are all signed or none is, and a payment is captured for
one amount. Without the first, a genuine event would take the blame for a forged one that has its id; without the second, a
smaller second capture would leave an earlier refund uncovered.

**ReliabilityLab.** `Run` executes the packs; for a merchant, `Delivers` sends the fixed sequence of
sandbox webhooks to the modelled ingestion, event by event, and `CheckPasses` is the judgement on the
answers and rows. `Locks`, `Reads`, `WritesTemp`, `Replaces` and `SaveFails` are the steps of `save_run` on the shared
file, `Commits` is the database's, and `Dies` ends a process at any of them. `ReleaseGate` is what the routes answer.

**PolicyEngine.** Operators only: `ActiveRules` merges the live policies of a merchant in the order of
their human ids, `FailedRules` are the hard rules an action violates, `Ladder` is what the autonomy mode
still asks a human for, and `Evaluate` is the verdict.

**Incident.** The steps of a sweep are those between which another sweep may commit: `Detects` (after the
look for a recent incident), `Counts`, `Inserts` or `InsertFails`, and `Commits` with the autopilot's
requests. `FindsTwo` is the query that raises. An operator's approval loads the execution (`ApproveLooks`) and
writes it later, whatever it has become (`Approve`). A halt loads what is active (`HaltLooks`), commits in parts as the
links of running executions are cancelled (`HaltStops`) and commits the rest with the incident (`Halt`), whose state it
writes only if it loaded it as not halted. `desk` is what each operator has in hand; a request that dies is one that is
never continued. `Execute` and `Resolve` are one step each. What a dispatch commits on its way is in `RecoveryAction`.
`Draft`, `Shown` and `Preview` are what other parts of the program say of an action, to
compare with the verdict the executor gets. Statistics are abstracted to `failing` and to the option that
is ranked first.

**AdminState.** A request is a step that reads and one that commits, and `Flush` writes only what
the request has changed, as the unit of work does. `Latest` takes any of several newest versions, as the
query does. Human ids come from `NextPolicyId`, a count that starts again. `SecretsFor` is what the ingress accepts.
`promoted` and `owed` are history: the champion promoted last, and the secret rotated last with the end of its grace, as
long as nothing raced. A rotation that commits over another one or a connection it has not seen, and a sweep that
writes over a row that changed since it read it, clear `owed`.

**RecoveryBatch.** The controller's steps are the commits of its session and the reads before them: `Launch`, then per
group `LookAtOrder`, `CaptureOrder` and `MarkPaid`, or `ExpireLink`, or `SettleControl`, then `Measure`, `CancelGuard`
and `Claim`. It looks at a link by the copy it loaded at the launch, which is still open whatever the row has become,
and at an order as it is (`LookFails` is the refusal to pay a paid one). Beside it the worker (`Monitor`) and operators
(`Halt`) write the same rows, and `Payers` use the routes of `routers/razorpay.py`: each looks at a link or an order
(`LooksAtLink`, `LooksAtOrder`) and later pays it (`PaysOrder`, `Marks`), pays a part (`PaysPart`) or closes it
(`Closes`), by what it has read. `captured` says who has captured which order. The controller may crash anywhere, and a
request that dies is one that is never continued. `Incremental` is the rounded, scaled difference of the arms. Which
group pays is chosen freely, as is the arm.

**EventStream.** A session has rows that are not committed and events that wait for a hook. `Commits`
is a commit with its hook. `Inject` releases the savepoint of its inbox row, and SQLAlchemy calls the hook
for that, too. Queues are bounded, a full one drops.

## 4. The runs

| run | question | states |
| --- | --- | --- |
| `ledger` | do the invariants of the ledger hold whatever the order and repetition of events, and does it implement `CaptureLedger`? | 93,343 |
| `inbox` | is every delivery applied once, stored when acknowledged and handled in the end? does it implement `EffectivelyOnce`? | 198,478 |
| `inbox_lost_event` | is an acknowledged delivery ever lost? (It is, see the findings.) | violated |
| `audit` | is the trail one chain that agrees with its checkpoint, are deletions found that overtake no append, does every transaction end? does it implement `AppendOnlyLog`? | 678,082 |
| `recovery` | does the policy have the last word, is only captured revenue claimed, is every link issued once, does every action stop? | 259,658 |
| `checkout` | is what is fulfilled proved, and are proofs and fulfilments final? | 65,914 |
| `shops` | do the packs prove what they claim, is the correct shop never accused, is every defect that shows seen? | 271,482 |
| `lab` | is evidence kept though processes die, and is a gate the organization's own? | 5,245 |
| `incident` | does the autopilot keep the rules, does a halt stop of it all that no operator has approved, is no draft laxer than the policy, does an outage become an incident? | 309,625 |
| `admin` | does only the newest version of a policy speak, does the promoted model serve, is the secret rotated last accepted through its grace, do retired secrets go? | 265,052 |
| `batch` | are outcomes what the batch captured, claims backed, captures counted once, links closed, while others pay, halt and close? | 582,151 |
| `stream` | is an event seen once, published when committed, dispatched in the end? | 16,322 |

Every property of a passing run has a mutant in `PROJECT.json`: a plausible bug, written as an operator
beside the definition it replaces, under which the property is violated. The `Name_Bug` operators of the
modules are these.

**Bounds and why they are enough.**

* `MCPaymentLedger`: two payments of one order in two retry groups, three refunds and eleven events, each applied any
  number of times in any order. Payments are worth 3 and refunds 1 or 2, so that two refunds fit or do not, one can be
  repeated with another amount, and one can fail after it was processed. A refund that is heard of before its payment,
  with and without the payment's amount, is among them. Every branch of `apply_event` fires.
* `MCWebhookInbox`: three deliveries about one payment, one of them direct, because the interesting collisions are
  between transactions of one payment; two handlers and two workers, so that any two can race; four requests, so that
  one is repeated while another is processed; batches of two, so that two workers hold overlapping ones; one crash.
* `MCAuditChain`: two writers, three transactions of up to two records, two attempts, one record older than the
  checkpoint and one deletion, of any records and at any moment. Two writers are enough for a lost race and for an
  append that a deletion overtakes, and three transactions for a third one that builds on the outcome.
* `MCRecoveryAction`: one action, two operators, one worker and one customer, one link, one crash, and the code's own
  retry limit of two. Every pair of handlers can hold the same row. A transient fault leaves one retry behind it, so
  with this limit a due retry is dispatched, against halts, approvals and the sweep; as the retry is dispatched without
  the fault, none is given up. Giving up is reached with a limit of one, and is part of the proofs for every limit.
* `MCCheckout`: two orders and a payment of each; one payment is captured before its order is known, the other refunded
  in full; two handlers, two keys. Handlers and keys are symmetric, which is sound as no liveness is checked. An order
  has two proofs only when a wrong callback has claimed one.
* `MCSafetyWorld`, of `Shops`: every scenario of the packs, and any sequence of up to five of twelve events: two
  payments of one order and one of another, a forged and a foreign event, two purchases. An invariant of the lab relates
  two events at most, and five leave room for what comes between them.
* `MCReliabilityLab`: two processes, two organizations, three runs and a file that keeps two, so that a run is pushed
  out. Processes, organizations and run ids are symmetric.
* `MCIncident`: two organizations with one merchant each, a worker that sweeps both and the demo that sweeps one, so
  that two sweeps meet; an hour inside the quiet window and one outside; one incident of each merchant; two operators,
  who begin two requests on the first's, so that an approval and a halt, or two of either, are in flight together. The
  slice of one merchant needs an approval, the other's does not. With three requests (1,654,361 states) the invariants
  hold as well.
* `MCAdminState`: two merchants, two models, two secrets, two administrators and four requests, so that two edits of one
  version and a third one meet, and a rotation, a connection and another rotation; human ids start again after three;
  three days with a grace of one.
* `MCRecoveryBatch`: three groups in every split into arms, each with every outcome, and one payer with two requests, of
  which the second may begin where the first has ended. Three is enough for arms of different sizes, where the scaled
  lift and the raw one differ; an odd amount makes halves that round. Payments race with the controller, which is the
  other that reads first and pays later; two payers who race with each other (one request each, 2,507,620 states) break
  no invariant.
* `MCEventStream`: one request and one injection with batches of two webhooks out of three, four events and a queue of
  two, so that a batch ends in the middle and a slow client loses one; one row per tick.

**Deadlock.** `ledger` and `checkout` check it. The other models come to rest when the bounds on requests,
transactions, runs or time are used up or all work is done, so their runs do not; that work is not stuck
is what the liveness properties say.

**Fairness.**

* `WebhookInbox`: weak fairness of each handler's and worker's steps. A request thread runs on, and
  the loop of the worker (`worker.main`) catches every exception and begins the next tick. Deliveries
  and crashes are not fair. A crashed worker is started again, with a new tick.
* `AuditChain`: weak fairness of a begun transaction's steps. `Abort` is not fair. That a waiting
  insertion goes on once the other transaction has ended is the database's promise.
* `RecoveryAction`: weak fairness of an operation that has begun and of the passing of time, and strong
  fairness of the worker's look at each open execution, because `monitor_open_executions` lists all of
  them in each tick, even if one is not open at every moment. Nobody is assumed to pay, approve or halt.
* `Incident`: weak fairness of each sweeper's steps, because the worker's loop never ends, and of incidents
  growing older than the window in which another detection is taken for the same outage. Outages and
  operators are not fair.
* `AdminState`: weak fairness of the worker's sweep. Requests and the passing of days are not fair.
* `RecoveryBatch`: weak fairness of the worker's look at executions and of time. The controller may stop, and so
  may those who pay.
* `EventStream`: weak fairness of the worker's `dispatch_outbox` and of a client's generator.

**Properties that are worth a comment.** `NothingLeftHeld` says that the repair sweep for held refunds never has
anything to do; the inline settlement is complete. `DeletionDetected` is about verifications begun after the deletion;
one that was running may see the records before and the checkpoint after. It excepts deletions that overtake an append,
for which it is false (`EveryDeletionDetected`, section 6). `HaltStopsAutopilot` says what a halt does ensure though it
is overwritten by approvals in flight: nothing of the autopilot waits any more, and what runs was approved by an
operator. `IssuedOnce` holds although two approvals can both dispatch, because the reference of a link is looked up
first. `EvidenceIsFinal` is a property of steps: no callback, right or wrong, and no second attempt replaces a proof or
a fulfilment. `PromotedServes` speaks of promotions that nothing came between, since the code promises nothing of others
and keeps nothing (see the findings). `GraceKept` relates the row to an earlier rotation: connections that were read
before it or after it, sweeps, and days may have come since. The code promises more, of every secret that was rotated,
and breaks it (`RetriesStayAccepted`, section 6). `OutcomeWasCaptured` compares the experiment with the payments of the
ledger, which webhooks of links and of other payers change too; what it does not say, because it is false, is that an
order recorded as lost was paid by nobody (`LostIsUnpaid`). `DefectsAreSeen` leaves out the two defects that no
invariant of the lab can see, and asks that no refund is reported before the genuine capture of its own payment. With
one order only, it is enough that some capture comes first; the payment of a second order refutes that.
`OutageBecomesIncident` needs the fairness of ageing: two incidents of one outage make every sweep of the organization
fail until one of them is half an hour old.

The type invariants of `AuditChain`, `RecoveryAction`, `ReliabilityLab`, `Incident` and `AdminState` are stated and hold
but are not among the properties of the runs. Those of `AuditChain`, `RecoveryAction` and `Incident` are proved, as is
`CheckoutTypeOK` of `Checkout`.

## 5. The proofs

TLAPS checks every theorem for all values of the constants that satisfy the module's assumption.

**CheckoutProofs**, of the ledger, assumes `EventsAssumption`: events have the type of a canonical event, a refund
event names a refund, and a refund's reference belongs to one payment. It proves type correctness,
`RefundsWithinCapture`, `RefundedMeansInFull`, `NothingLeftHeld`, `AggregateCoversProcessed`, `CaptureNeverLost`,
`CaptureIsFinal`, and that `PaymentLedger`
implements `CaptureLedger`. None of the invariants is inductive alone: crediting a refund keeps the total
within the amount only if the row agreed with itself before, and settling what was held makes
`NothingLeftHeld` true only if every held refund is among `arrival` by the payment that its events name.
`IInv` therefore says that each payment row is a good row (total, amount and status agree, and a row
that is absent has no order), that absent orders have nothing paid, that refund rows name the payment
their events name, and `NothingLeftHeld`. The hard part is the settlement: `RunningTotal` is a recursive function, and its
lemmas (`RunExists`, `RunningTotalUnfolds`, `SettlingBounds`) establish that it is well defined, starts at
the row's total and stays between it and the amount. They are inductions over the loop, which rest on
the least number principle, derived from the well-foundedness of inclusion on finite sets. The step
is proved table by table: payments, orders, refunds. `PaidOrderWasCaptured` is proved under one more
assumption, `OneOrder`, that the events of a payment name no two orders: an event of another order would
mark that order paid by a payment that is linked elsewhere. Its invariant (`PaidInv`) adds that the order of a payment row was
named by one of its events, so that the order that a capture pays is the one its payment is linked to.
`AggregateCoversProcessed` compares a total with a sum over a set of refunds. Its proof adds that every refund row has
arrived (`Arrived`), which makes the set finite, and follows the loop once more (`SettlingCovers`): after each refund the running
total covers what was processed before together with what the loop has settled. `CaptureNeverLost` is an equivalence, and both
directions are proved of each event (`CaptureStep`): a capture event that comes late finds a payment that was
captured, and no other event captures.

**WebhookInboxProofs** assumes `InboxAssumption`, which types the constants and says that handlers are
not workers. It proves type correctness, `AppliedOnce`, `MarkedMeansApplied`, `AckedIsStored`, `WaitsOnce`,
`NeverWaitsAgain`, and that `WebhookInbox` implements `EffectivelyOnce`, for any number of deliveries,
requests, workers and crashes. A handler acts on a row that may be out of date. `IInv` adds why this is
harmless: what the handler concluded stays true (`ReadStaysTrue`: a row that was there is still there,
and what was processed then has been applied), rows are kept (`RowsKept`), and a worker that applies or
has failed has a delivery in hand (`WorkInHand`). The proof has one lemma for the steps of requests and
one for those of workers and shares what applying a delivery does to the ledger (`ApplyKeeps`).

**CheckoutProofs**, of checkout, assumes `EventsAssumption` and `AmountsAssumption`, that every event carries a positive
amount and every order of one, too. It proves type correctness, `FulfilledWasProved` and `EvidenceIsFinal` of
`Checkout`, and `CheckoutKeepsLedger`: every step of checkout is a step of the ledger or leaves it alone, so
that what is proved of the ledger holds of the composition. A request acts on rows it has read earlier.
`CheckoutInv` is the ledger's `IInv` together with: a present payment has an amount (`Positive`), what a
request has read of captured payments and paid orders is still so (`ReadsHold`), a verified proof is of a payment that is good
for its order (`ProofsHold`), the newest proof of an order is one of its proofs (`LatestHolds`), and every fulfilment was judged
(`FulfilmentsHold`). `LedgerKeeps` names what these need of a ledger step, which `CaptureIsFinal` provides.

**EvidenceProofs**, of `AuditChain`, assumes `AuditAssumption`, which types the bounds and says that there is at least
one attempt. It proves type correctness, `CheckpointAgrees`, `DeletionDetected` and that `AuditChain` implements
`AppendOnlyLog`, for any number of writers, attempts, transactions and deletions. What is inductive is `Trustworthy`:
the types, and `IInv` as long as no deletion has overtaken an append: an append in flight whose place has been taken
then still finds it taken. No lock orders the writers, so a writer may go by a checkpoint, or by the lack of one, that
is out of date. `IInv` says what becomes of it. Of a transaction that has appended (`Holds`): it holds the record that
continues what is committed, its checkpoint counts and extends just what it has added, and with its records the
committed ones are one chain. Of one that is about to (`Knows`): what it has read is the present checkpoint, or some
committed record has taken the place it wants; and if its reading is current, all that is committed was numbered before
its own record. Of two (`Apart`): they hold no place in common, and one at most has written the checkpoint. So the one
whose reading is out of date runs into the key, or finds the checkpoint it was about to insert. After a deletion the
checkpoint counts more records than there are, and no append makes that good. The lemmas about chains (`ChainGrows`,
`LegacyChain`) are inductions over the records; there is one lemma for each step of a writer.

**EvidenceProofs**, of `ReliabilityLab`, assumes `LabAssumption` (the file keeps at least one run) and proves
`EvidenceIsKept`, for any number of processes, organizations and runs, whatever the packs find. `LabInv` says that a
process is between the lock and the replacement exactly if it holds the lock, so that there is one at most, and that
what it has read is all that the file has, with its run in front (`With`). A process that dies gives the lock back and
has changed nothing.

**EvidenceProofs**, of `Shops`, assumes `ShopsAssumption` and proves `CorrectIsClean` for every sequence of events,
however long, and every scenario of the packs. `CorrectInv` says how the correct shop is backed by what it was
delivered: a payment has captured nothing, or what some event captures for it, and refunded no more (`PaymentsOK`);
every effect is of an event that was signed and seen, of the shop's own tenant, a fulfilment has a captured payment, and
no two effects are of one event, fulfil one order or use the mandate (`EffectsOK`); an order is expected only if it was
genuinely reported paid (`OrdersOK`); it goes by the signed ids it has seen and by no other (`SawSigned`), has accepted
nothing unsigned (`ProcessedOK`), and every order with a genuine capture is fulfilled. `CorrectStep` keeps this through
`Handle`, one kind of event at a time, and `CorrectClean` draws the eight invariants of the lab from it. That the
scenarios are coherent (`ScenarioPlays`) is checked scenario by scenario.

It also proves `DefectsAreSeen`, for shops that have at least the two controls of refunds (`Lacking`), whatever else
they lack; the presets of `Revealing` are such. `HandleMoves` says what an event does to the effects, the counts, the
orders and the mandate of any of them. By `ShopInv` a shop knows the captures it was delivered (`CapturesKnown`), what
it counts of orders and of the mandate has an effect (`EffectsBacked`), and an event it was delivered has had its
effect, or would have none if it came again (`NothingLeft`). As long as a shop has only effects that the correct one has
too, both look the same (`View`); the first event on which they part gives it an effect the correct one refuses, forged,
foreign, repeated or beyond the mandate, and such a shop is `Caught` (`DefectIsCaught`). It stays so whatever follows
(`CaughtStays`), and some invariant says so (`CaughtShows`). The premises hold of every earlier sequence if they hold of
a later one (`PremisesBefore`), so the induction (`DefectsInv`) may assume them.

**RecoveryActionProofs** assumes `RecoveryAssumption`: finitely many keys, at least one link for each, the
faults considered. It proves type correctness, `PolicyHasLastWord`, `ClaimedWasCaptured` and `IssuedOnce` of
`RecoveryAction`, for any number of keys, operators, workers, customers and crashes. Nothing is locked, so
what is written is a row that was loaded earlier and may undo what others wrote meanwhile; and yet
these properties hold. `IInv` says why. A good row (`GoodRow`) runs only if the policy allowed it or an
approval was given, waits only if it needs one, and claims no more than is captured; stored rows are good, and so are
loaded ones, whose verdict is that of the stored row (`Loaded`), because verdicts never change and approvals
and captures are never taken back (`Keeps`). Who has links is allowed to (`Stored`), and a process that is
about to record a payment has captured it (`InProgress`). There is one lemma for steps that load, dispatch, end an
action, list links and change links. `HaltIsFinal` is false, as the findings say: the invariant does not say
that a loaded row is still the stored one.

**EventStreamProofs** assumes `StreamAssumption` and proves `CommittedIsPublished` of `EventStream`: a row that
is not committed yet is of an event that waits for its session's next hook or that an earlier hook, of a
savepoint, has handed out. Each hook hands out all that waits, so a commit leaves no row of its session behind.
It also proves `SeenOnce`. `SeenInv` says that what waits in a session has been handed out by no hook and waits in no
other session or twice, and that clients have got and have waiting, without repetition, only what was handed out. A
session then hands out and keeps, disjointly, some of what waits in it and the new event (`SessionSees`). A batch
enters a queue by `FoldLeft`, which goes through it from the first event to the last: `FillsExist` gives the function
that the fold iterates, and by induction over the batch a queue has, after any number of its events, what it had
and some of those (`FoldTakes`), whatever it had no room for.

**PolicyProofs** assumes `IncidentAssumption`, `AdminAssumption`, which type the constants (and say that no model is called
"none" or "raced"), and `PolicyAssumption`: the policies are rows that saving leaves, with rules that
`validate_rules` lets pass, human ids between RP-7 and RP-996 and no two rows of one merchant, id and version.

Of `AdminState` it proves `OnlyNewestSpeaks`, `PromotedServes` and `GraceKept` (theorem `RetriesStayValid`), each by an
invariant of its own that says what an administrator may still hold when others have committed. `PolicyInv`: versions of
one id have no gap, all but the newest are archived, and a patch in hand is of a row that is there, so that it is the
newest, or its version is taken and the key refuses it. `ModelInv`: as long as nothing raced, the model promoted last is
the only champion, and some time bounds all promotions made or read so far (`PromotedBy`), so that the next one is the
newest. `SecretInv`: a rotation in hand keeps the secret it has read until the grace is over that began today.
`OwedInv`: until its grace is over, the secret rotated last is the previous one of the row, with the end of that grace;
a connection writes neither the previous secret nor its time (`ConnectionHolds`), a rotation that found the row as it
had read it makes its own the one that is owed (`RotationHolds`), and a sweep that wrote over nothing retires only what
is over.

Of `Incident` it proves type correctness, which includes that the ids of an organization's incidents have no gap,
`HaltStopsAutopilot` (theorem `HaltLeavesApproved`), `AutopilotWithinRules` and `DraftIsNotLaxer`, for any number of
organizations, sweeps, operators, incidents and policies. An id is a count that a sweep took earlier. `SweepInv` says
that this count is at most the next free number, is the next one if the sweep has opened incidents (`SweepOK`), and that
of two sweeps of one organization at most one has opened any (`OneOpens`), since the other waits for the key or fails on
it. `Calm` says what stays true while halts commit in parts what they loaded earlier: on a halted incident, and on one
that a halt has loaded but for what that halt is still to write, nothing of the autopilot waits, and nothing of it runs
without an approval (`CalmBut`). Only an approval makes a waiting action run, and nothing makes one wait, so every other
write keeps this (`Evolves`, `CalmKept`). The other two are about `PolicyEngine`. `RulesInForce`: the merged rules have
every key and a value validation admits, because the last policy in the order of the ids is complete (`LastSpeaks`,
`ActiveIsComplete`). The verdict is then monotone: an action that differs in nothing the rules look at but asks for less
is allowed where the larger one is (`Alike`, `LessIsAllowed`), and one whose last contact was longer ago, too
(`LongAgoKeeps`). A draft is compared with the executor's action in these two steps, and so are page and preview. They
do not know the 60 minutes that an action's evidence says have passed, and are laxer than the executor when the rules
ask for more: `DraftIsNotLaxer` speaks of them where the cooldown is at most 60 minutes (see the findings).

**RecoveryBatchProofs** assumes `BatchAssumption`: the number of groups, the amount and the cost are natural numbers;
and `PayersAssumption`: no payer is called as the batch or a link, and a part is less than the whole. It proves
`OutcomeWasCaptured`, `ClaimBacked` and `RevenueFromCaptures` of `RecoveryBatch`, for any number of groups, payers and
requests, and every split. `BatchInv` says what the controller has done by the place it is at: the arms are as launched
and no control has a link (`Designed`); what it found is what it has captured itself, but for the order it is at,
whatever others capture (`Finds`); all of it is recorded or nothing (`Records`); it claims last, and what it measured
(`Claims`); the successful payments are the captures, each worth the amount (`Books`); a request under way is on a link
that exists, and one that is to mark a link has captured its order (`Holds`). That a claim is backed is then arithmetic:
the scaled, rounded lift is at most the number of treated groups that recovered, however the half is rounded, and a sum
of equal amounts is their number times the amount (`SumOfEqual`).

**NatFacts** holds what the inductions rest on: the least number principle, derived from the
well-foundedness of inclusion on finite sets, induction over a loop, and the greatest element of a bounded set. Sums over a
finite set are folds: `SumsExist` gives a function that sums every subset, from which follow that an element adds its
value (`SumAdds`), equal values have equal sums (`SumSame`), a subset sums to no more (`SumGrows`), and `SumOfEqual`.

**Only model-checked.** Liveness (`AcceptedIsHandled`, `EveryTransactionEnds`, `EventuallyStopped`,
`OutageBecomesIncident`, `ExpiredIsRetired`, `LinksClose`, `OutboxDrains`), which is out of the prover's reach;
what the broken shops make of the packs' given sequences of events (`PacksProve`), a calculation rather
than an argument; and for the same reason
`GateIsOwnEvidence`, half of which is that the packs and sandbox checks find nothing.

## 6. Findings

`PROJECT.json` quotes the promise that each breaks, and the line. `inbox_lost_event` shows the first in TLC. The others have
no run of their own; where a formula states the promise it is named here, and adding it to the
configuration of its module shows the counterexample.

* An acknowledged delivery that loses a race on a unique key is marked dead and never taken up again (`AckedIsNotLost`,
  run `inbox_lost_event`).
* A refund that is processed, fails and is processed again is credited twice (`RefundAppliedOnce` of `PaymentLedger`),
  and one that is held until its capture and then hears a status that is not final loses its hold
  (`ProcessedRefundsSettled` of `LedgerHistory`, with `PendingRefundEvents` of `MCPaymentLedger`).
* A late refund without its payment's amount becomes the payment's amount; the recovery label depends on whether
  `order.paid` or `payment.success` comes first.
* A writer that loses the end of the chain reads its own cached head again, so that its retries lose, too, and the
  append fails (`LoserSucceeds` of `AuditChain`, with four attempts, no legacy records and one append). When records are
  deleted that had taken the place of an append in flight, that append takes it again and writes a checkpoint that fits:
  the deletion is never found (`EveryDeletionDetected`).
* An approval, or the worker, overwrites a halt that came after it loaded the action (`HaltIsFinal` of
  `RecoveryAction`), and so an action of the autopilot runs on a halted incident (`NoAutopilotAfterHalt` of `Incident`).
  Two actions that count at the same time share a human id, and the second adopts the links of the first
  (`LinksAttributed`, with two keys). A halt that loaded an action as waiting, while an approval dispatches it, leaves
  its links open for good. An approval can call the provider twice and does not ask the policy again; a link that is
  paid while it is cancelled is not counted.
* A rejected callback that names the wrong order claims the payment's proof; the right callback is answered "verified"
  but the order cannot be fulfilled (`ConfirmedIsProof` of `Checkout`). Two valid proofs of an order make the
  operational summary fail.
* The event of an injection is published at the next savepoint, and stays out when its transaction is rolled back
  (`NoPhantom` of `EventStream`, with injections only and batches of three). The outbox is marked dispatched without
  being delivered; dead inbox rows leave no dead letter.
* Two sweeps open two incidents of one outage, and every later tick fails for the organization; the evidence of a
  proposal is fixed, so contact budget and cooldown hardly bind; the commander reads "payment links" as a kind that no
  candidate has; a preview judges by evidence that nobody had.
* Counted policy ids collide between merchants and start again; overlapping promotions leave two champions or none; a
  promotion looks at no gate; a sweep takes back the grace of a rotation it has not seen; a second rotation within the
  grace drops the secret before, and a connection with a new secret gives the old one none, so that retries that are
  still to come are refused (`RetriesStayAccepted` of `AdminState`).
* The batch writes over a halt that came meanwhile, and one that crashes leaves its experiment running. It expires a
  link that an operator has paid and records the order as lost (`LostIsUnpaid` of `RecoveryBatch`). An order can be
  captured twice (`OrderPaidOnce`), and a partial payment opens a closed link again, which nobody then closes
  (`EveryLinkCloses`).
* A scenario of the packs repeats an event id by mistake and so tests something else; a gate may be read from a run that
  was never committed.

## 7. Not modelled

The rate limiter of the API shell and what is local to a request: authentication, configuration, validation of input.
Rejected webhooks (they write a dead letter and nothing else), other organizations where every query is scoped to one,
formatting and hashing. The statistics of detection, the bootstrap intervals, the forecasts, twins and the machine
learning are numeric and have no concurrency. The payloads that connectors keep beside the events. Of the local
Razorpay, orders that belong neither to a link nor to the batch, its refunds, and the switch for real providers. Of
those who pay beside a batch: payments that fail or are only authorized, links that operators create themselves, and the
time at which a link may no longer be paid. In `RecoveryBatch` a halt and the worker's monitor are one step each, whose
commits per link are in `RecoveryAction`; in `Incident` an approval's dispatch is one step for the same reason.
Deadlocks between two transactions that mark one retry group recovered, as `apply_event` is one step; on PostgreSQL they
end in an aborted transaction, which the inbox treats like any other failure.
