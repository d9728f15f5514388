---------------------------- MODULE RecoveryAction ----------------------------
(***************************************************************************)
(* Recovery actions and the payment links they issue: services/executor.py *)
(* and services/razorpay_local.py, driven by operators (routers/           *)
(* incidents.py), the worker and the customers who pay the links.          *)
(*                                                                         *)
(* No row is locked: a handler loads the execution, decides by what it     *)
(* loaded and writes in the end, when another may have written meanwhile.  *)
(* So an operation has a step that looks and steps that write, each a      *)
(* commit of its own.  Calls of the simulator compute their outcome from   *)
(* the idempotency key and keep nothing, so they are not counted.          *)
(*                                                                         *)
(* The states EXECUTING and CREATED are never committed and SCHEDULED and  *)
(* APPROVED never set.  Actions of the simulator are answered at once;     *)
(* those of the local Razorpay issue links and wait for their outcome.     *)
(* Audit records, costs and texts are left out; links have equal amounts.  *)
(* A request that loses a race for a unique key fails as a crash does.     *)
(***************************************************************************)
EXTENDS Naturals, FiniteSets, Sequences, SequencesExt

CONSTANTS
    Keys,           \* idempotency keys: merchant, kind, parameters, incident
    Clerks,         \* request handlers: operators and the autopilot
    Workers,        \* worker processes
    Customers,      \* request handlers of link outcomes and payments
    LinksPer,       \* the treatment groups of an action
    RetryLimit,     \* max_provider_retries
    Faults,         \* the failure modes considered
    MaxCrashes      \* bound on how many processes crash

ASSUME RecoveryAssumption ==
    /\ IsFiniteSet(Keys)
    /\ LinksPer \in Nat \ {0} /\ RetryLimit \in Nat /\ MaxCrashes \in Nat
    /\ Faults \subseteq {"none", "transient", "partial", "refused"}

VARIABLES
    exec,       \* the action_executions row of each key
    links,      \* the payment_links rows, by reference_id
    captured,   \* references of links whose order was captured
    late,       \* keys whose execution is older than max_duration_min
    approved,   \* keys whose action was dispatched on an approval
    proc,       \* each process: its operation and what it has loaded
    crashes     \* how many processes have crashed

vars == <<exec, links, captured, late, approved, proc, crashes>>

Processes == Clerks \cup Workers \cup Customers

Decisions == {"block", "require_approval", "allow"}
Stopped   == {"SUCCEEDED", "FAILED_FINAL", "REJECTED_BY_POLICY", "ROLLED_BACK", "HALTED"}
Monitored == {"MONITORING", "FAILED_RETRYABLE"}
States    == Stopped \cup Monitored \cup {"absent", "VALIDATED"}

OpenLink     == {"issued", "partially_paid"}
Connectors   == {"simulator", "razorpay"}
LinkStatuses == OpenLink \cup {"none", "paid", "cancelled", "expired"}

\* reference_id is the execution's human id and the number of the link.
References == (1 .. Cardinality(Keys)) \X (1 .. LinksPer)

\* An execution; human is its number in human_id, fault its failure_mode.
Execution == [state : States, decision : Decisions \cup {"none"},
              connector : Connectors \cup {"none"},
              human : 0 .. Cardinality(Keys), fault : Faults \cup {"none"},
              retries : Nat, partial : BOOLEAN, recovered : Nat]

NoExecution == [state |-> "absent", decision |-> "none", connector |-> "none", human |-> 0,
                fault |-> "none", retries |-> 0, partial |-> FALSE, recovered |-> 0]

Link   == [status : LinkStatuses, owner : SUBSET Keys]
NoLink == [status |-> "none", owner |-> {}]

\* An operation in progress: the row it has loaded, the links it still has to
\* cancel and the state to stop in, or the link and its outcome.
Idle == [op |-> "idle", keys |-> {}, row |-> NoExecution, todo |-> {},
         target |-> "none", seen |-> "none"]

Init ==
    /\ exec = [k \in Keys |-> NoExecution]
    /\ links = [r \in References |-> NoLink]
    /\ captured = {}
    /\ late = {}
    /\ approved = {}
    /\ proc = [p \in Processes |-> Idle]
    /\ crashes = 0

Start(p, k, op, row) ==
    /\ proc[p] = Idle
    /\ proc' = [proc EXCEPT ![p] = [Idle EXCEPT !.op = op, !.keys = {k}, !.row = row]]

Finish(p) == proc' = [proc EXCEPT ![p] = Idle]

Write(k, row) == exec' = [exec EXCEPT ![k] = row]

UnchangedLedger == UNCHANGED <<exec, links, captured, approved>>

------------------------------------------------------------------------------
(* Dispatch: _dispatch and _dispatch_local_payment_links.                  *)

\* A plausible bug: a link is created without a look at its reference.
IssueLinks_Anew(k, row) ==
    links' = [r \in References |->
                IF r[1] = row.human THEN [status |-> "issued", owner |-> {k}] ELSE links[r]]

\* A link whose reference exists already is returned as it is.
IssueLinks(k, row) ==
    links' = [r \in References |->
                IF r[1] = row.human /\ links[r].status = "none"
                THEN [status |-> "issued", owner |-> {k}] ELSE links[r]]

\* execute_action raises for a transient fault and for a kind that the connector
\* lacks the capability for.
Raises(row) == row.fault \in {"transient", "refused"}

\* The provider fails before it acts: the action is to be retried, or given up.
DispatchFails(k, row) ==
    /\ Raises(row)
    /\ Write(k, [row EXCEPT
            !.state   = IF row.fault = "transient" THEN "FAILED_RETRYABLE" ELSE "FAILED_FINAL",
            !.retries = IF row.fault = "transient" THEN @ + 1 ELSE 0])
    /\ UNCHANGED links

DispatchLocal(k, row) ==
    /\ row.connector = "razorpay"
    /\ row.fault \in {"none", "partial"}
    /\ IssueLinks(k, row)
    /\ Write(k, [row EXCEPT !.state = "MONITORING", !.partial = row.fault = "partial",
                            !.recovered = 0, !.retries = 0])

DispatchSimulator(k, row) ==
    /\ row.connector = "simulator"
    /\ row.fault \in {"none", "partial"}
    /\ Write(k, [row EXCEPT !.partial = row.fault = "partial", !.retries = 0,
                            !.state = IF row.fault = "partial" THEN "MONITORING"
                                      ELSE "SUCCEEDED"])
    /\ UNCHANGED links

Dispatch(k, row) ==
    DispatchFails(k, row) \/ DispatchLocal(k, row) \/ DispatchSimulator(k, row)

------------------------------------------------------------------------------
(* request_execution.                                                      *)

Present == {k \in Keys : exec[k].state # "absent"}

NextHumanId == Cardinality(Present) + 1

\* The key is looked up and the executions are counted for the human id.
RequestLooks(p, k) ==
    /\ p \in Clerks
    /\ exec[k].state = "absent"
    /\ Start(p, k, "request", [NoExecution EXCEPT !.human = NextHumanId])
    /\ UnchangedLedger
    /\ UNCHANGED <<late, crashes>>

Requesting(p, k) == proc[p].op = "request" /\ proc[p].keys = {k}

\* A concurrent request has inserted the key first; or the key is known.
RequestIsDuplicate(p, k) ==
    /\ Requesting(p, k)
    /\ exec[k].state # "absent"
    /\ Finish(p)
    /\ UnchangedLedger
    /\ UNCHANGED <<late, crashes>>

\* A plausible bug: an action that needs an approval is not held for it.
Decide_SkipsApproval(k, row) ==
    \/ /\ row.decision = "block"
       /\ Write(k, [row EXCEPT !.state = "REJECTED_BY_POLICY"])
       /\ UNCHANGED links
    \/ /\ row.decision # "block"
       /\ Dispatch(k, row)

\* What the policy decides is done: refuse, wait for an approval, or dispatch.
Decide(k, row) ==
    \/ /\ row.decision = "block"
       /\ Write(k, [row EXCEPT !.state = "REJECTED_BY_POLICY"])
       /\ UNCHANGED links
    \/ /\ row.decision = "require_approval"
       /\ Write(k, [row EXCEPT !.state = "VALIDATED"])
       /\ UNCHANGED links
    \/ /\ row.decision = "allow"
       /\ Dispatch(k, row)

\* The first execution of the key: inserted, decided on and committed.
RequestInserts(p, k) ==
    /\ Requesting(p, k)
    /\ exec[k].state = "absent"
    /\ \E decision \in Decisions, connector \in Connectors, fault \in Faults :
          Decide(k, [proc[p].row EXCEPT !.decision = decision, !.connector = connector,
                                        !.fault = fault])
    /\ Finish(p)
    /\ UNCHANGED <<captured, late, approved, crashes>>

------------------------------------------------------------------------------
(* approve_and_execute, and the halt of an incident.                       *)

\* A plausible bug: whatever is not running yet can be approved.
ApproveLooks_AnyState(p, k) ==
    /\ p \in Clerks
    /\ exec[k].state \in {"VALIDATED", "REJECTED_BY_POLICY"}
    /\ Start(p, k, "approve", exec[k])
    /\ UnchangedLedger
    /\ UNCHANGED <<late, crashes>>

ApproveLooks(p, k) ==
    /\ p \in Clerks
    /\ exec[k].state = "VALIDATED"
    /\ Start(p, k, "approve", exec[k])
    /\ UnchangedLedger
    /\ UNCHANGED <<late, crashes>>

\* The action is dispatched by what was loaded, whatever it has become since.
Approve(p, k) ==
    /\ proc[p].op = "approve" /\ proc[p].keys = {k}
    /\ approved' = approved \cup {k}
    /\ Dispatch(k, proc[p].row)
    /\ Finish(p)
    /\ UNCHANGED <<captured, late, crashes>>

HaltLooks(p, k) ==
    /\ p \in Clerks
    /\ exec[k].state \in {"VALIDATED"} \cup Monitored
    /\ Start(p, k, "halt", exec[k])
    /\ UnchangedLedger
    /\ UNCHANGED <<late, crashes>>

\* An action that is not running is halted by its state alone.
HaltValidated(p, k) ==
    /\ proc[p].op = "halt" /\ proc[p].keys = {k}
    /\ proc[p].row.state = "VALIDATED"
    /\ Write(k, [proc[p].row EXCEPT !.state = "HALTED"])
    /\ Finish(p)
    /\ UNCHANGED <<links, captured, late, approved, crashes>>

OwnLinks(k) == {r \in References : links[r].owner = {k}}

\* halt_execution begins: it lists the links that are open.
ListOpenLinks(p, k, target) ==
    /\ proc' = [proc EXCEPT ![p].op = "cancel", ![p].target = target,
                            ![p].todo = {r \in OwnLinks(k) : links[r].status \in OpenLink}]
    /\ UnchangedLedger
    /\ UNCHANGED <<late, crashes>>

HaltRunning(p, k) ==
    /\ proc[p].op = "halt" /\ proc[p].keys = {k}
    /\ proc[p].row.state # "VALIDATED"
    /\ ListOpenLinks(p, k, "HALTED")

\* One link is cancelled and its webhook sent, which commits.
CancelLink(p) ==
    /\ proc[p].op = "cancel"
    /\ \E r \in proc[p].todo :
          /\ links' = [links EXCEPT ![r].status = "cancelled"]
          /\ proc' = [proc EXCEPT ![p].todo = @ \ {r}]
    /\ UNCHANGED <<exec, captured, late, approved, crashes>>

\* A plausible bug: the execution is left as it was for the next sweep.
Stop_LeavesState(p, k) ==
    /\ proc[p].op = "cancel" /\ proc[p].keys = {k} /\ proc[p].todo = {}
    /\ Finish(p)
    /\ UnchangedLedger
    /\ UNCHANGED <<late, crashes>>

Stop(p, k) ==
    /\ proc[p].op = "cancel" /\ proc[p].keys = {k} /\ proc[p].todo = {}
    /\ Write(k, [proc[p].row EXCEPT !.state = proc[p].target])
    /\ Finish(p)
    /\ UNCHANGED <<links, captured, late, approved, crashes>>

------------------------------------------------------------------------------
(* monitor_execution, by the worker.                                       *)

MonitorLooks(p, k) ==
    /\ p \in Workers
    /\ exec[k].state \in Monitored
    /\ Start(p, k, "monitor", exec[k])
    /\ UnchangedLedger
    /\ UNCHANGED <<late, crashes>>

\* A plausible bug: the age of an action is not looked at.
TooLate_Never(k) == FALSE

\* The stopping rules come in this order; the first that applies is followed.
Monitoring(p, k) == proc[p].op = "monitor" /\ proc[p].keys = {k}
TooLate(k)       == k \in late
Retryable(p)     == proc[p].row.state = "FAILED_RETRYABLE"

StopsLate(p, k) ==
    /\ Monitoring(p, k)
    /\ TooLate(k)
    /\ ListOpenLinks(p, k, "HALTED")

\* The retry is due: it is made without the fault, or given up.
Retry(p, k) ==
    /\ Monitoring(p, k)
    /\ ~TooLate(k) /\ Retryable(p)
    /\ IF proc[p].row.retries >= RetryLimit
       THEN /\ Write(k, [proc[p].row EXCEPT !.state = "FAILED_FINAL"])
            /\ UNCHANGED links
       ELSE Dispatch(k, [proc[p].row EXCEPT !.fault = "none"])
    /\ Finish(p)
    /\ UNCHANGED <<captured, late, approved, crashes>>

RollsBack(p, k) ==
    /\ Monitoring(p, k)
    /\ ~TooLate(k) /\ ~Retryable(p)
    /\ proc[p].row.partial
    /\ ListOpenLinks(p, k, "ROLLED_BACK")

\* A plausible bug: whatever is not open any more counts as recovered.
Recovered_AllClosed(k) == {r \in OwnLinks(k) : links[r].status \notin OpenLink}

Recovered(k) == {r \in OwnLinks(k) : links[r].status = "paid"}

Ended(p, k) ==
    /\ proc[p].row.connector = "razorpay"
    /\ OwnLinks(k) # {} /\ \A r \in OwnLinks(k) : links[r].status \notin OpenLink

\* Every link has come to an end: the action has succeeded.
Settles(p, k) ==
    /\ Monitoring(p, k)
    /\ ~TooLate(k) /\ ~Retryable(p) /\ ~proc[p].row.partial
    /\ Ended(p, k)
    /\ Write(k, [proc[p].row EXCEPT !.state = "SUCCEEDED",
                                    !.recovered = Cardinality(Recovered(k))])
    /\ Finish(p)
    /\ UNCHANGED <<links, captured, late, approved, crashes>>

\* No rule applies, or a retry is not due: the next sweep looks again.
Waits(p, k) ==
    /\ Monitoring(p, k)
    /\ ~TooLate(k)
    /\ Retryable(p) \/ ~(proc[p].row.partial \/ Ended(p, k))
    /\ Finish(p)
    /\ UnchangedLedger
    /\ UNCHANGED <<late, crashes>>

------------------------------------------------------------------------------
(* simulate_payment_link_outcome: a link comes to an end, or half way.     *)

OutcomeLooks(p, r, target) ==
    /\ p \in Customers
    /\ proc[p] = Idle
    /\ links[r].status \in OpenLink
    /\ target = "paid" => r \notin captured
    /\ proc' = [proc EXCEPT ![p] =
            [Idle EXCEPT !.op = IF target = "paid" THEN "capture" ELSE "record",
                         !.todo = {r}, !.target = target, !.seen = links[r].status]]
    /\ UnchangedLedger
    /\ UNCHANGED <<late, crashes>>

\* A plausible bug: the link is marked paid and its payment left to a webhook.
Capture_LeftToWebhook(p) ==
    /\ proc[p].op = "capture"
    /\ proc' = [proc EXCEPT ![p].op = "record"]
    /\ UnchangedLedger
    /\ UNCHANGED <<late, crashes>>

\* The payment of a paid link is captured first, by a webhook that commits.
Capture(p) ==
    /\ proc[p].op = "capture"
    /\ captured' = captured \cup proc[p].todo
    /\ proc' = [proc EXCEPT ![p].op = "record"]
    /\ UNCHANGED <<exec, links, late, approved, crashes>>

\* A payment of the order of a link, made past the link, which keeps its status.
PaysOrder(p) ==
    /\ proc[p].op = "order"
    /\ captured' = captured \cup proc[p].todo
    /\ Finish(p)
    /\ UNCHANGED <<exec, links, late, approved, crashes>>

\* Its order exists as soon as the link does; one that is paid is refused.
PaysOrderLooks(p, r) ==
    /\ p \in Customers
    /\ proc[p] = Idle
    /\ links[r].status # "none" /\ r \notin captured
    /\ proc' = [proc EXCEPT ![p] = [Idle EXCEPT !.op = "order", !.todo = {r}]]
    /\ UnchangedLedger
    /\ UNCHANGED <<late, crashes>>

\* A plausible bug: the row is written back whole.
RecordOutcome_Reissues(p) ==
    /\ proc[p].op = "record"
    /\ \E r \in proc[p].todo : links' = [links EXCEPT ![r].status = proc[p].seen]
    /\ Finish(p)
    /\ UNCHANGED <<exec, captured, late, approved, crashes>>

\* The status is written if it differs from the one that was loaded.
RecordOutcome(p) ==
    /\ proc[p].op = "record"
    /\ \E r \in proc[p].todo :
          links' = [links EXCEPT ![r].status =
                      IF proc[p].target # proc[p].seen THEN proc[p].target ELSE @]
    /\ Finish(p)
    /\ UNCHANGED <<exec, captured, late, approved, crashes>>

------------------------------------------------------------------------------

\* Time passes.
Elapse(k) ==
    /\ exec[k].state # "absent"
    /\ k \notin late
    /\ late' = late \cup {k}
    /\ UnchangedLedger
    /\ UNCHANGED <<proc, crashes>>

\* A process ends before it commits.
Crash(p) ==
    /\ proc[p] # Idle
    /\ crashes < MaxCrashes
    /\ crashes' = crashes + 1
    /\ Finish(p)
    /\ UNCHANGED <<exec, links, captured, late, approved>>

Begins(p) ==
    \/ \E k \in Keys : RequestLooks(p, k) \/ ApproveLooks(p, k) \/ HaltLooks(p, k)
    \/ \E k \in Keys : MonitorLooks(p, k)
    \/ \E r \in References, target \in {"paid", "partially_paid", "expired", "cancelled"} :
          OutcomeLooks(p, r, target)
    \/ \E r \in References : PaysOrderLooks(p, r)

GoesOn(p) ==
    \/ \E k \in Keys :
          \/ RequestIsDuplicate(p, k) \/ RequestInserts(p, k)
          \/ Approve(p, k)
          \/ HaltValidated(p, k) \/ HaltRunning(p, k) \/ Stop(p, k)
          \/ StopsLate(p, k) \/ Retry(p, k) \/ RollsBack(p, k) \/ Settles(p, k) \/ Waits(p, k)
    \/ CancelLink(p) \/ Capture(p) \/ RecordOutcome(p) \/ PaysOrder(p)

Next ==
    \/ \E p \in Processes : Begins(p) \/ GoesOn(p) \/ Crash(p)
    \/ \E k \in Keys : Elapse(k)

Spec == Init /\ [][Next]_vars

\* An operation that has begun goes on, time passes, and the worker looks at
\* every open execution again and again.
Fairness ==
    /\ \A p \in Processes : WF_vars(GoesOn(p))
    /\ \A k \in Keys : WF_vars(Elapse(k))
    /\ \A p \in Workers, k \in Keys : SF_vars(MonitorLooks(p, k))

FairSpec == Spec /\ Fairness

------------------------------------------------------------------------------
(* Properties.                                                             *)

\* Every variable holds values of its type.
TypeOK ==
    /\ exec \in [Keys -> Execution]
    /\ links \in [References -> Link]
    /\ captured \subseteq References
    /\ late \subseteq Keys
    /\ approved \subseteq Keys
    /\ proc \in [Processes ->
          [op : {"idle", "request", "approve", "halt", "cancel", "monitor", "capture", "record",
                 "order"},
           keys : SUBSET Keys, row : Execution, todo : SUBSET References,
           target : LinkStatuses \cup Stopped, seen : LinkStatuses]]
    /\ crashes \in 0 .. MaxCrashes

\* The policy has the last word: however requests, approvals, retries and halts
\* interleave on stale rows, a link is issued and the state left that the policy
\* set only if it allowed the action, or required an approval that was given.
PolicyHasLastWord ==
    \A k \in Keys :
        (OwnLinks(k) # {} \/ exec[k].state \in Monitored \cup {"SUCCEEDED", "ROLLED_BACK"}) =>
            \/ exec[k].decision = "allow"
            \/ exec[k].decision = "require_approval" /\ k \in approved

\* No revenue is claimed that was not captured: a link is paid only after its
\* payment is captured, and an execution counts such links only.
ClaimedWasCaptured ==
    /\ \A r \in References : links[r].status = "paid" => r \in captured
    /\ \A k \in Keys : exec[k].recovered <= Cardinality(captured)

\* A link is issued once: no second dispatch, retry or late outcome makes a link
\* of the same reference payable in full again.
IssuedOnce ==
    [][\A r \in References :
          links[r].status # "none" /\ links'[r].status = "issued"
              => links[r].status = "issued"]_vars

\* Every action is at rest for good in the end, if only because it is too old.  The
\* stopping rules leave none running for ever, and an approval or a retry that had
\* loaded the action before it was halted sets it going again for a while only.
EventuallyStopped == \A k \in Keys : <>[](exec[k].state \notin Monitored)

\* "A halt must stop active work, not merely repaint the incident state"
\* (routers/incidents.py): an action that an operator has halted stays stopped.
HaltIsFinal ==
    [][\A k \in Keys : exec[k].state = "HALTED" => exec'[k].state \in Stopped]_vars

\* Every execution that waits for payment links has links of its own to wait for
\* ("attribute a captured payment to the bounded treatment that issued the link",
\* models/pipeline.py).
LinksAttributed ==
    \A k \in Keys : exec[k].state = "MONITORING" /\ exec[k].connector = "razorpay"
                        => OwnLinks(k) # {}

==============================================================================
