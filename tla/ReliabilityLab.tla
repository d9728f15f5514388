--------------------------- MODULE ReliabilityLab ---------------------------
(***************************************************************************)
(* Runs of the reliability lab: reliability/router.py, the sandbox checks  *)
(* of runtime.py and the evidence file of store.py.                        *)
(*                                                                         *)
(* A run executes the packs of SafetyWorld and, for a merchant, delivers a *)
(* fixed sequence of synthetic webhooks to the real ingestion, here the    *)
(* actions of PaymentLedger.  Its result goes to a JSON file shared by all *)
(* processes and organizations, by read, temporary file and replacement    *)
(* under a file lock, and then to the database; a process may die at any   *)
(* step.  The gate of an organization is read from its newest run.         *)
(***************************************************************************)
EXTENDS SafetyWorld

CONSTANTS
    None,           \* no process, no reference
    Workers,        \* processes that serve POST /run, one request each
    Orgs,
    RunIds,         \* bounds the number of runs
    Keep,           \* the runs the file keeps; 50 in the code
    IsProd

VARIABLES
    payment, order, refund, arrival,    \* see PaymentLedger
    received,       \* event ids the inbox has stored
    file,           \* data/reliability/runs.json, newest first; <<>>: missing
    lock,           \* the holder of the lock on .runs.lock, or None
    committed,      \* the rows of reliability_runs, newest first
    started,        \* run ids given out
    worker          \* the request each process serves

ledger  == <<payment, order, refund, arrival>>
labVars == <<ledger, received, file, lock, committed, started, worker>>

\* The synthetic payments of one run: an amount of 4 stands for 64 000 paise.
Payments == {"duplicate", "reordered", "late", "partial", "failed"}
Orders   == {"order"}
Groups   == {"group"}
Refunds  == {"processed", "failed"}
Provider == "razorpay"

Webhook(type, p) ==
    [type |-> type, payment |-> p, amount |-> 4, paymentAmount |-> 0,
     orderAmount |-> 0, order |-> "order", group |-> "group", link |-> FALSE,
     refund |-> None, refundStatus |-> None]

RefundWebhook(type, p, status) ==
    [Webhook(type, p) EXCEPT !.amount = 1, !.paymentAmount = 4,
                             !.refund = status, !.refundStatus = status]

Delivery(check, id, event) == [check |-> check, id |-> id, event |-> event, signed |-> TRUE]

\* The deliveries of run_razorpay_runtime_checks, each with the check it is for.
RuntimeSteps ==
    <<Delivery("DUPLICATE", 1, Webhook("payment.success", "duplicate")),
      Delivery("DUPLICATE", 1, Webhook("payment.success", "duplicate")),
      [Delivery("FORGED-SIGNATURE", 2, Webhook("payment.failed", "duplicate"))
        EXCEPT !.signed = FALSE],
      Delivery("OUT-OF-ORDER", 3, Webhook("payment.success", "reordered")),
      Delivery("OUT-OF-ORDER", 4, Webhook("payment.authorized", "reordered")),
      Delivery("LATE-AUTH", 5, Webhook("payment.failed", "late")),
      Delivery("LATE-AUTH", 6, Webhook("payment.authorized", "late")),
      Delivery("PARTIAL-REFUND", 7, Webhook("payment.success", "partial")),
      Delivery("PARTIAL-REFUND", 8, RefundWebhook("refund.created", "partial", "processed")),
      Delivery("FAILED-REFUND", 9, Webhook("payment.success", "failed")),
      Delivery("FAILED-REFUND", 10, RefundWebhook("refund.failed", "failed", "failed"))>>

Events == {RuntimeSteps[i].event : i \in DOMAIN RuntimeSteps}

Ledger == INSTANCE PaymentLedger

ASSUME LabAssumption == Keep \in Nat \ {0} /\ IsProd \in BOOLEAN /\ None \notin Workers

Idle == [phase |-> "idle", org |-> None, findings |-> {}, answers |-> <<>>,
         run |-> None, runs |-> <<>>]

LabInit ==
    /\ Ledger!Init
    /\ received = {}
    /\ file = [readable |-> TRUE, runs |-> <<>>]
    /\ lock = None
    /\ committed = <<>>
    /\ started = {}
    /\ worker = [w \in Workers |-> Idle]

At(w, phase) == worker[w].phase = phase

Goto(w, phase) == worker' = [worker EXCEPT ![w].phase = phase]

------------------------------------------------------------------------------
(* run_razorpay_runtime_checks.                                            *)

\* What the ingestion answers to a delivery: forged ones are refused before
\* anything else, known event ids are duplicates.
Answer(d) == IF ~d.signed THEN "401"
             ELSE IF d.id \in received THEN "duplicate" ELSE "200"

Delivers(w) ==
    LET d == RuntimeSteps[Len(worker[w].answers) + 1]
    IN  /\ At(w, "runtime")
        /\ Len(worker[w].answers) < Len(RuntimeSteps)
        /\ IF Answer(d) = "200"
           THEN Ledger!ApplyEvent(d.event) /\ received' = received \cup {d.id}
           ELSE UNCHANGED <<ledger, received>>
        /\ worker' = [worker EXCEPT ![w].answers = Append(@, Answer(d))]
        /\ UNCHANGED <<file, lock, committed, started>>

\* The answers to the deliveries of a check.
Answers(w, check) ==
    {worker[w].answers[i] : i \in {j \in DOMAIN RuntimeSteps : RuntimeSteps[j].check = check}}

\* The last delivery of a check, whose payment and refund are looked up.
EventOf(check) ==
    LET steps == {j \in DOMAIN RuntimeSteps : RuntimeSteps[j].check = check}
    IN  RuntimeSteps[CHOOSE j \in steps : \A k \in steps : k <= j].event

PaymentOf(check) == payment[EventOf(check).payment]

RefundOf(check) == refund[EventOf(check).refund]

CheckPasses(w, check) ==
    CASE check = "DUPLICATE" ->
            Answers(w, check) = {"200", "duplicate"}
      [] check = "FORGED-SIGNATURE" ->
            Answers(w, check) = {"401"}
      [] check = "OUT-OF-ORDER" -> PaymentOf(check).status = "success"
      [] check = "LATE-AUTH" -> PaymentOf(check).status = "authorized"
      [] check = "PARTIAL-REFUND" ->
            /\ PaymentOf(check).status = "success"
            /\ PaymentOf(check).refunded = 1
            /\ RefundOf(check).status = "processed"
      [] check = "FAILED-REFUND" ->
            /\ PaymentOf(check).status = "success"
            /\ PaymentOf(check).refunded = 0
            /\ RefundOf(check).status = "failed"

RuntimeFindings(w) ==
    {[scenario |-> c, fixture |-> "paytwin_runtime_sandbox", severity |-> "critical"] :
        c \in {d \in {RuntimeSteps[i].check : i \in DOMAIN RuntimeSteps} : ~CheckPasses(w, d)}}

------------------------------------------------------------------------------
(* POST /api/reliability/run.                                              *)

\* The packs asked for are executed at once; with a merchant the runtime checks
\* follow, of one run in this instance and never in production.
Run(w, o, packs, merchant) ==
    /\ At(w, "idle")
    /\ merchant => ~IsProd /\ received = {} /\ \A v \in Workers : ~At(v, "runtime")
    /\ \E id \in RunIds \ started :
        /\ started' = started \cup {id}
        /\ worker' = [worker EXCEPT ![w] =
                [Idle EXCEPT !.phase = IF merchant THEN "runtime"
                                       ELSE IF IsProd THEN "commit" ELSE "save",
                             !.org = o, !.run = id,
                             !.findings = UNION {ExecuteSuite(s) : s \in packs}]]
    /\ UNCHANGED <<ledger, received, file, lock, committed>>

Checks(w) ==
    /\ At(w, "runtime")
    /\ Len(worker[w].answers) = Len(RuntimeSteps)
    /\ worker' = [worker EXCEPT ![w].phase = "save", ![w].answers = <<>>,
                                ![w].findings = @ \cup RuntimeFindings(w)]
    /\ UNCHANGED <<ledger, received, file, lock, committed, started>>

Result(w) == [id |-> worker[w].run, org |-> worker[w].org,
              gate |-> Gate(worker[w].findings)]

\* A plausible bug: the file lock is forgotten.
Locks_Never(w) ==
    /\ At(w, "save")
    /\ Goto(w, "locked")
    /\ UNCHANGED <<ledger, received, file, lock, committed, started>>

\* save_run: the lock is held from the reading of the file to its replacement.
Locks(w) ==
    /\ At(w, "save")
    /\ lock = None
    /\ lock' = w
    /\ Goto(w, "locked")
    /\ UNCHANGED <<ledger, received, file, committed, started>>

Reads(w) ==
    /\ At(w, "locked")
    /\ file.readable
    /\ worker' = [worker EXCEPT ![w].phase = "read",
            ![w].runs = LET all == <<Result(w)>> \o file.runs
                        IN  SubSeq(all, 1, IF Len(all) < Keep THEN Len(all) ELSE Keep)]
    /\ UNCHANGED <<ledger, received, file, lock, committed, started>>

\* A plausible bug: the file is written in place.
WritesTemp_InPlace(w) ==
    /\ At(w, "read")
    /\ Goto(w, "written")
    /\ file' = [readable |-> FALSE, runs |-> <<>>]
    /\ UNCHANGED <<ledger, received, lock, committed, started>>

\* The temporary file is seen by nobody.
WritesTemp(w) ==
    /\ At(w, "read")
    /\ Goto(w, "written")
    /\ UNCHANGED <<ledger, received, file, lock, committed, started>>

Replaces(w) ==
    /\ At(w, "written")
    /\ file' = [readable |-> TRUE, runs |-> worker[w].runs]
    /\ lock' = None
    /\ Goto(w, "commit")
    /\ UNCHANGED <<ledger, received, committed, started>>

\* The file cannot be read or written: the run goes on without it.
SaveFails(w) ==
    /\ worker[w].phase \in {"locked", "read", "written"}
    /\ lock' = None
    /\ Goto(w, "commit")
    /\ UNCHANGED <<ledger, received, file, committed, started>>

\* The row, stamped when it is flushed, and the audit record are committed.
Commits(w) ==
    /\ At(w, "commit")
    /\ committed' = <<Result(w)>> \o committed
    /\ worker' = [worker EXCEPT ![w] = Idle]
    /\ UNCHANGED <<ledger, received, file, lock, started>>

\* The request fails or its process dies: the transaction is rolled back and the
\* operating system releases the lock.
Dies(w) ==
    /\ ~At(w, "idle")
    /\ lock' = IF lock = w THEN None ELSE lock
    /\ worker' = [worker EXCEPT ![w] = Idle]
    /\ UNCHANGED <<ledger, received, file, committed, started>>

------------------------------------------------------------------------------
(* What GET /release-gate, /overview, /runs and /findings are answered from. *)

\* A plausible bug: the file is read without regard to the organization.
Legacy_AnyOrg(o) == file.runs

Legacy(o) == SelectSeq(file.runs, LAMBDA r : r.org = o)

RunsForOrg(o) ==
    LET rows == SelectSeq(committed, LAMBDA r : r.org = o)
    IN  IF rows # <<>> \/ IsProd THEN rows
        ELSE IF file.readable THEN Legacy(o) ELSE <<>>

\* It fails closed: without evidence, or with a file it cannot read, UNKNOWN.
ReleaseGate(o) == IF RunsForOrg(o) = <<>> THEN "UNKNOWN" ELSE RunsForOrg(o)[1].gate

------------------------------------------------------------------------------

LabNext ==
    \E w \in Workers :
        \/ \E o \in Orgs, packs \in SUBSET Suites, m \in BOOLEAN :
              Run(w, o, packs, m)
        \/ Delivers(w)
        \/ Checks(w)
        \/ Locks(w)
        \/ Reads(w)
        \/ WritesTemp(w)
        \/ Replaces(w)
        \/ SaveFails(w)
        \/ Commits(w)
        \/ Dies(w)

LabSpec == LabInit /\ [][LabNext]_labVars

------------------------------------------------------------------------------
(* Properties.                                                             *)

Verdicts == {"READY", "WARNING", "BLOCKED"}
RunRow   == [id : RunIds, org : Orgs, gate : Verdicts]

\* Rows and requests have their types, and no process writes the file without
\* the lock.
LabTypeOK ==
    /\ Ledger!TypeOK
    /\ received \subseteq {RuntimeSteps[i].id : i \in DOMAIN RuntimeSteps}
    /\ file.runs \in Seq(RunRow) /\ Len(file.runs) <= Keep
    /\ committed \in Seq(RunRow)
    /\ started \subseteq RunIds
    /\ \A w \in Workers :
        /\ worker[w].phase \in {"idle", "runtime", "save", "locked", "read", "written", "commit"}
        /\ worker[w].phase \in {"locked", "read", "written"} <=> lock = w

\* "Atomically append one run without discarding historical evidence": whatever
\* requests run side by side or die halfway, the file changes only by one run
\* in front of those it had, up to its capacity (save_run, _atomic_write).
EvidenceIsKept ==
    [][file' = file \/
       \E r \in RunRow :
          /\ file'.readable
          /\ file'.runs = SubSeq(<<r>> \o file.runs, 1, Len(file'.runs))
          /\ Len(file'.runs) \in {Len(file.runs) + 1, Keep}]_labVars

\* The code passes its own lab: the modelled ingestion leaves nothing to find
\* for the runtime checks, so that the gate of an organization with a completed
\* run is READY; and an organization without a run of its own is not shown one.
GateIsOwnEvidence ==
    \A o \in Orgs :
        /\ (\E i \in DOMAIN committed : committed[i].org = o) => ReleaseGate(o) = "READY"
        /\ ReleaseGate(o) # "UNKNOWN" => RunsForOrg(o)[1].org = o

==============================================================================
