----------------------------- MODULE WebhookInbox -----------------------------
(***************************************************************************)
(* From a provider's webhook to its one effect on the ledger:              *)
(* services/ingest.py and the worker's use of it.                          *)
(*                                                                         *)
(* A request handler authenticates a delivery and stores it in event_inbox *)
(* before it answers; a worker later takes the stored deliveries in the    *)
(* order of their receipt and applies each in one transaction.  Local      *)
(* tools apply a delivery at once, in the transaction that stores it       *)
(* (ingest_webhook).  A provider sends a delivery again until it is        *)
(* answered, and now and then after that.                                  *)
(*                                                                         *)
(* Every database transaction commits in one step; what a transaction read *)
(* earlier is kept by its process.  A row that a transaction has locked or *)
(* inserted is held until it ends.  Rejected deliveries (unknown merchant  *)
(* or provider, bad signature, malformed body) never reach the inbox and   *)
(* are left out, and so is the check of the stored envelope, which was     *)
(* written from an event that had passed it.                               *)
(***************************************************************************)
EXTENDS Naturals, Sequences, FiniteSets, SequencesExt

CONSTANTS
    Deliveries,     \* provider event ids, each naming one event
    Direct,         \* those that arrive through ingest_webhook
    Payments,       \* payment references
    PaymentOf,      \* the payment an event is about
    Handlers,       \* request handler threads
    Workers,        \* worker processes
    None,           \* no delivery
    Limit,          \* the batch size of process_pending_inbox
    MaxSends,       \* bound on how many requests the provider sends
    MaxCrashes      \* bound on how many processes crash

ASSUME InboxAssumption ==
    /\ Direct \subseteq Deliveries
    /\ PaymentOf \in [Deliveries -> Payments]
    /\ None \notin Deliveries
    /\ Limit \in Nat \ {0}
    /\ MaxSends \in Nat /\ MaxCrashes \in Nat
    /\ Handlers \cap Workers = {}

VARIABLES
    inbox,      \* the status of a delivery's event_inbox row; "absent": no row
    received,   \* deliveries in the order of received_at
    canonical,  \* deliveries with a canonical_events row
    applied,    \* how often a delivery was applied to the ledger
    payments,   \* payments with a row
    acked,      \* deliveries the provider has a 2xx answer for
    sends,      \* how many requests were sent
    handler,    \* each request: its phase, delivery and what it has read
    worker,     \* each worker: its phase, remaining batch, item and what it has read
    crashes     \* how many processes have crashed

vars == <<inbox, received, canonical, applied, payments, acked, sends,
          handler, worker, crashes>>

Done == {"processed", "duplicate"}
InboxStatuses == Done \cup {"absent", "received", "dead"}

IdleHandler == [phase |-> "idle", item |-> None, seen |-> "absent", known |-> FALSE]
IdleWorker  == [phase |-> "idle", batch |-> {}, item |-> None, known |-> FALSE]

Init ==
    /\ inbox = [d \in Deliveries |-> "absent"]
    /\ received = <<>>
    /\ canonical = {}
    /\ applied = [d \in Deliveries |-> 0]
    /\ payments = {}
    /\ acked = {}
    /\ sends = 0
    /\ handler = [h \in Handlers |-> IdleHandler]
    /\ worker = [w \in Workers |-> IdleWorker]
    /\ crashes = 0

\* A plausible bug: a failed transaction is not rolled back, and keeps its lock.
Holders_KeptOnFailure(d) ==
    {w \in Workers : worker[w].phase \in {"applying", "failed"} /\ worker[w].item = d}
        \cup {h \in Handlers : handler[h].phase = "applying" /\ handler[h].item = d}

\* The transactions that hold the inbox row of a delivery.
Holders(d) ==
    {w \in Workers : worker[w].phase = "applying" /\ worker[w].item = d}
        \cup {h \in Handlers : handler[h].phase = "applying" /\ handler[h].item = d}

\* Applying an event fails when it would insert a row that another transaction
\* has inserted since: its payment (standing for its order as well), which it
\* did not find, or the event itself.  The handler that materialize_inbox has
\* for the last case is of no help: begin_nested flushes before it sets its
\* savepoint, so the violated key ends the whole transaction.
Collides(d, known) == d \in canonical \/ (~known /\ PaymentOf[d] \in payments)

Apply(d) ==
    /\ canonical' = canonical \cup {d}
    /\ applied' = [applied EXCEPT ![d] = @ + 1]
    /\ payments' = payments \cup {PaymentOf[d]}

KeepLedger == UNCHANGED <<canonical, applied, payments>>

------------------------------------------------------------------------------
(* A request: accept_webhook, and ingest_webhook for direct deliveries.    *)

\* The provider sends d and the handler looks it up in the inbox.
Deliver(h, d) ==
    /\ handler[h].phase = "idle"
    /\ sends < MaxSends
    /\ sends' = sends + 1
    /\ handler' = [handler EXCEPT ![h] =
            [IdleHandler EXCEPT !.phase = "looked", !.item = d, !.seen = inbox[d]]]
    /\ KeepLedger
    /\ UNCHANGED <<inbox, received, acked, worker, crashes>>

\* The request ends with a 2xx answer, which may be lost on its way.
Answer(h) ==
    /\ handler' = [handler EXCEPT ![h] = IdleHandler]
    /\ acked' \in {acked, acked \cup {handler[h].item}}

\* A plausible bug: a pending delivery is marked a duplicate as well.
KnownStatus_Always(d, seen) == "duplicate"

KnownStatus(d, seen) == IF seen = "processed" THEN "duplicate" ELSE inbox[d]

\* The handler had found the delivery: it marks it when it was processed.
AnswerKnown(h) ==
    LET d == handler[h].item IN
    /\ handler[h].phase = "looked"
    /\ handler[h].seen # "absent"
    /\ handler[h].seen = "processed" => Holders(d) = {}
    /\ inbox' = [inbox EXCEPT ![d] = KnownStatus(d, handler[h].seen)]
    /\ Answer(h)
    /\ KeepLedger
    /\ UNCHANGED <<received, sends, worker, crashes>>

\* The handler had not found the delivery: it inserts it.
Insert(h) ==
    LET d == handler[h].item IN
    /\ handler[h].phase = "looked"
    /\ handler[h].seen = "absent"
    /\ Holders(d) = {}
    /\ UNCHANGED <<sends, worker, crashes>>

\* A concurrent request has stored the delivery first: the unique key says so.
LosesRace(h) ==
    /\ Insert(h)
    /\ inbox[handler[h].item] # "absent"
    /\ Answer(h)
    /\ KeepLedger
    /\ UNCHANGED <<inbox, received>>

\* A plausible bug: the inbox has no unique key.
Accept_NoKey(h) ==
    LET d == handler[h].item IN
    /\ Insert(h)
    /\ d \notin Direct
    /\ inbox' = [inbox EXCEPT ![d] = "received"]
    /\ received' = Append(received, d)
    /\ Answer(h)
    /\ KeepLedger

\* The delivery is stored and the answer sent; a worker will apply it.
Accept(h) ==
    LET d == handler[h].item IN
    /\ Insert(h)
    /\ inbox[d] = "absent"
    /\ d \notin Direct
    /\ inbox' = [inbox EXCEPT ![d] = "received"]
    /\ received' = Append(received, d)
    /\ Answer(h)
    /\ KeepLedger

\* A direct delivery is stored and applied in one transaction, which begins by
\* looking up the payment.
BeginDirect(h) ==
    LET d == handler[h].item IN
    /\ Insert(h)
    /\ inbox[d] = "absent"
    /\ d \in Direct
    /\ handler' = [handler EXCEPT ![h].phase = "applying",
                                  ![h].known = PaymentOf[d] \in payments]
    /\ KeepLedger
    /\ UNCHANGED <<inbox, received, acked>>

CommitDirect(h) ==
    LET d == handler[h].item IN
    /\ handler[h].phase = "applying"
    /\ ~Collides(d, handler[h].known)
    /\ Apply(d)
    /\ inbox' = [inbox EXCEPT ![d] = "processed"]
    /\ Answer(h)
    /\ UNCHANGED <<received, sends, worker, crashes>>

\* A plausible bug: the failed request is answered as if it had been accepted.
FailDirect_Answers(h) ==
    /\ handler[h].phase = "applying"
    /\ Collides(handler[h].item, handler[h].known)
    /\ Answer(h)
    /\ KeepLedger
    /\ UNCHANGED <<inbox, received, sends, worker, crashes>>

\* The transaction fails and takes the stored delivery with it; the answer is a
\* server error.
FailDirect(h) ==
    /\ handler[h].phase = "applying"
    /\ Collides(handler[h].item, handler[h].known)
    /\ handler' = [handler EXCEPT ![h] = IdleHandler]
    /\ KeepLedger
    /\ UNCHANGED <<inbox, received, acked, sends, worker, crashes>>

------------------------------------------------------------------------------
(* A tick of the worker: process_pending_inbox.                            *)

Pending == {d \in Deliveries : inbox[d] = "received"}

ReceivedBefore(c, d) ==
    \E i, j \in DOMAIN received : i < j /\ received[i] = c /\ received[j] = d

\* The n oldest of a set of deliveries.
Oldest(S, n) == {d \in S : Cardinality({c \in S : ReceivedBefore(c, d)}) < n}

\* The worker takes the oldest pending deliveries, at most Limit of them.
TakeBatch(w) ==
    /\ worker[w].phase = "idle"
    /\ Pending # {}
    /\ worker' = [worker EXCEPT ![w] =
            [IdleWorker EXCEPT !.phase = "next", !.batch = Oldest(Pending, Limit)]]
    /\ KeepLedger
    /\ UNCHANGED <<inbox, received, acked, sends, handler, crashes>>

\* The worker is done with a delivery of its batch.
DoneWith(w, d) ==
    worker' = [worker EXCEPT ![w] =
                 IF @.batch = {d} THEN IdleWorker
                 ELSE [IdleWorker EXCEPT !.phase = "next", !.batch = worker[w].batch \ {d}]]

AlreadyDone(d) == inbox[d] \in Done

\* The worker locks the row of the next delivery, which turns out to be done.
SkipDone(w) ==
    /\ worker[w].phase = "next"
    /\ \E d \in Oldest(worker[w].batch, 1) :
          Holders(d) = {} /\ AlreadyDone(d) /\ DoneWith(w, d)
    /\ KeepLedger
    /\ UNCHANGED <<inbox, received, acked, sends, handler, crashes>>

\* The worker locks the row of the next delivery and looks up its payment.
BeginItem(w) ==
    /\ worker[w].phase = "next"
    /\ \E d \in Oldest(worker[w].batch, 1) :
          /\ Holders(d) = {}
          /\ ~AlreadyDone(d)
          /\ worker' = [worker EXCEPT ![w].phase = "applying", ![w].item = d,
                                      ![w].known = PaymentOf[d] \in payments]
    /\ KeepLedger
    /\ UNCHANGED <<inbox, received, acked, sends, handler, crashes>>

CommitItem(w) ==
    LET d == worker[w].item IN
    /\ worker[w].phase = "applying"
    /\ ~Collides(d, worker[w].known)
    /\ Apply(d)
    /\ inbox' = [inbox EXCEPT ![d] = "processed"]
    /\ DoneWith(w, d)
    /\ UNCHANGED <<received, acked, sends, handler, crashes>>

\* The transaction fails, whatever the reason, and its lock is released.
FailItem(w) ==
    /\ worker[w].phase = "applying"
    /\ Collides(worker[w].item, worker[w].known)
    /\ worker' = [worker EXCEPT ![w].phase = "failed"]
    /\ KeepLedger
    /\ UNCHANGED <<inbox, received, acked, sends, handler, crashes>>

\* The worker gives the delivery up, without a look at what became of it since.
MarkDead(w) ==
    LET d == worker[w].item IN
    /\ worker[w].phase = "failed"
    /\ Holders(d) = {}
    /\ inbox' = [inbox EXCEPT ![d] = "dead"]
    /\ DoneWith(w, d)
    /\ KeepLedger
    /\ UNCHANGED <<received, acked, sends, handler, crashes>>

\* A process ends; its transaction, if it has one, is rolled back.
CrashHandler(h) ==
    /\ handler[h].phase # "idle"
    /\ crashes < MaxCrashes
    /\ crashes' = crashes + 1
    /\ handler' = [handler EXCEPT ![h] = IdleHandler]
    /\ KeepLedger
    /\ UNCHANGED <<inbox, received, acked, sends, worker>>

CrashWorker(w) ==
    /\ worker[w].phase # "idle"
    /\ crashes < MaxCrashes
    /\ crashes' = crashes + 1
    /\ worker' = [worker EXCEPT ![w] = IdleWorker]
    /\ KeepLedger
    /\ UNCHANGED <<inbox, received, acked, sends, handler>>

HandlerStep(h) ==
    \/ AnswerKnown(h)
    \/ LosesRace(h)
    \/ Accept(h)
    \/ BeginDirect(h)
    \/ CommitDirect(h)
    \/ FailDirect(h)

WorkerStep(w) ==
    \/ TakeBatch(w)
    \/ SkipDone(w)
    \/ BeginItem(w)
    \/ CommitItem(w)
    \/ FailItem(w)
    \/ MarkDead(w)

Next ==
    \/ \E h \in Handlers, d \in Deliveries : Deliver(h, d)
    \/ \E h \in Handlers : HandlerStep(h) \/ CrashHandler(h)
    \/ \E w \in Workers : WorkerStep(w) \/ CrashWorker(w)

Spec == Init /\ [][Next]_vars

\* A request that has begun comes to an end, and the loop of a worker goes on.
Fairness ==
    /\ \A h \in Handlers : WF_vars(HandlerStep(h))
    /\ \A w \in Workers : WF_vars(WorkerStep(w))

FairSpec == Spec /\ Fairness

------------------------------------------------------------------------------
(* Properties.                                                             *)

\* Every variable holds values of its type.
TypeOK ==
    /\ inbox \in [Deliveries -> InboxStatuses]
    /\ received \in Seq(Deliveries)
    /\ canonical \subseteq Deliveries
    /\ applied \in [Deliveries -> Nat]
    /\ payments \subseteq Payments
    /\ acked \subseteq Deliveries
    /\ sends \in 0 .. MaxSends
    /\ handler \in [Handlers ->
          [phase : {"idle", "looked", "applying"}, item : Deliveries \cup {None},
           seen : InboxStatuses, known : BOOLEAN]]
    /\ worker \in [Workers ->
          [phase : {"idle", "next", "applying", "failed"}, batch : SUBSET Deliveries,
           item : Deliveries \cup {None}, known : BOOLEAN]]
    /\ crashes \in 0 .. MaxCrashes

\* However often a delivery is sent, and however its requests and the workers
\* interleave and crash, it is applied to the ledger at most once, and exactly
\* when it has its canonical event ("effectively-once", README.md).
AppliedOnce ==
    \A d \in Deliveries : applied[d] = IF d \in canonical THEN 1 ELSE 0

\* A delivery that is marked processed or duplicate has been applied: a repeated
\* request never discards the only work item (accept_webhook).
MarkedMeansApplied ==
    \A d \in Deliveries : inbox[d] \in Done => applied[d] > 0

\* What the provider was told is accepted is stored: no crash and no lost race
\* takes it away, and the provider may stop sending it.
AckedIsStored == \A d \in acked : inbox[d] # "absent"

\* A delivery waits in the inbox exactly once, and only those wait that are
\* still to be applied.
WaitsOnce ==
    /\ IsInjective(received)
    /\ \A d \in Deliveries : inbox[d] = "received" =>
          d \in Range(received) /\ applied[d] = 0

\* A stored delivery stays stored, and once it is applied it never waits again.
NeverWaitsAgain ==
    [][\A d \in Deliveries :
          /\ inbox[d] # "absent" => inbox'[d] # "absent"
          /\ inbox'[d] = "received" => inbox[d] \in {"absent", "received"}]_vars

\* Every accepted delivery is handled in the end: applied or given up.  Direct
\* ones never wait.
AcceptedIsHandled ==
    \A d \in Deliveries \ Direct : inbox[d] = "received" ~> inbox[d] \in Done \cup {"dead"}

\* The promise that providers rely on, see EffectivelyOnce.
Stage == [d \in Deliveries |-> IF applied[d] > 0 THEN "applied"
                               ELSE IF inbox[d] # "absent" THEN "accepted" ELSE "new"]

Promise == INSTANCE EffectivelyOnce WITH stage <- Stage, effects <- applied,
                                         answered <- acked

\* The inbox and its workers keep that promise at every step.
ImplementsEffectivelyOnce == Promise!Spec

\* "effectively-once processing via inbox unique key" (README.md): what the
\* provider was told is accepted has been applied, or still waits for a worker.
AckedIsNotLost ==
    \A d \in acked : applied[d] > 0 \/ inbox[d] = "received"

==============================================================================
