------------------------------ MODULE Incident -------------------------------
(***************************************************************************)
(* Detection sweeps, incidents and the actions proposed on them:           *)
(* services/incident_service.py, worker.py, routers/incidents.py and the   *)
(* drafts of services/commander.py, judged by the policy engine.           *)
(*                                                                         *)
(* A sweep of an organization is one transaction, rolled back when it fails: *)
(* it looks at each merchant, opens incidents and lets the autopilot act.   *)
(* Several sweeps may run at once (workers, the demo).  An approval and a   *)
(* halt act on rows loaded without a lock and commit later; what a dispatch *)
(* commits on its way is in RecoveryAction.                                 *)
(*                                                                         *)
(* The statistics are abstracted: failing says that a family of cohorts    *)
(* of the merchant passes every gate of the detection and of the causes.   *)
(* The twin's estimates are abstracted to which option is ranked first.    *)
(* Evidence rows, audit records, scores and texts are left out.            *)
(***************************************************************************)
EXTENDS PolicyEngine

CONSTANTS
    Orgs,
    OrgOf,          \* the organization of each merchant
    Mode,           \* the autonomy mode of each merchant
    Total,          \* the value of the failed payments of a merchant's outage
    Best,           \* the options that may be ranked first for a merchant
    Asked,          \* the kinds operators ask to be executed
    Policies,       \* the policy rows
    Hours,          \* the hours of the day (IST) considered
    Outcomes,       \* the states a dispatch may end in
    Sweepers,       \* processes that sweep
    Scope,          \* the organizations each of them sweeps, in order
    Operators,      \* processes that serve operators' approvals and halts
    MaxPerMerchant, \* bound on the incidents of a merchant
    MaxOperations   \* bound on what operators do on a merchant's incidents

Kinds == ActionKinds \cup {"do_nothing"}

ASSUME IncidentAssumption ==
    /\ OrgOf \in [Merchants -> Orgs] /\ Scope \in [Sweepers -> Seq(Orgs)]
    /\ Mode \in [Merchants -> Modes] /\ Total \in [Merchants -> Nat]
    /\ Best \in [Merchants -> SUBSET Kinds] /\ Asked \subseteq ActionKinds
    /\ Hours \subseteq 0 .. 23
    /\ MaxPerMerchant \in Nat /\ MaxOperations \in [Merchants -> Nat]

\* Where a dispatch ends, and the rows that saving policies leaves: what
\* validate_rules lets pass, under ids RP-7 to RP-996, with the unique constraint
\* uq_policy_merchant_ver.
ASSUME PolicyAssumption ==
    /\ Outcomes \subseteq {"MONITORING", "FAILED_RETRYABLE", "SUCCEEDED", "FAILED_FINAL"}
    /\ \A r \in Policies : r.human \in 7 .. 996 /\ r.version \in Nat /\ ValidRules(r.rules)
    /\ \A q, r \in Policies :
          /\ q.merchant = r.merchant /\ q.human = r.human /\ q.version = r.version
          => q = r

VARIABLES
    incidents,  \* the committed incidents, in the order of their commits
    failing,    \* the merchants that have an outage the sweeps can see
    proc,       \* each sweeper: its organizations and what it has found
    operations, \* how often operators have acted for a merchant
    desk        \* the approval or halt that each operator has in hand

vars == <<incidents, failing, proc, operations, desk>>

Running == {"MONITORING", "FAILED_RETRYABLE"}
Waiting == {"VALIDATED"}
Active  == Running \cup Waiting
Stopped == {"SUCCEEDED", "FAILED_FINAL", "REJECTED_BY_POLICY", "HALTED"}

\* An execution: by says who has requested it; hour: when a customer was to be
\* contacted (0 when none was); approved: dispatched by an operator's approval.
Execution == [kind : Kinds, by : {"autopilot", "human"}, hour : 0 .. 23,
              state : Active \cup Stopped, approved : BOOLEAN]

\* An incident; recent: detected less than 30 minutes ago.
IncidentRow == [merchant : Merchants, number : Nat, best : Kinds,
                state : {"ACTION_PROPOSED", "HALTED", "RESOLVED"}, recent : BOOLEAN,
                execs : Seq(Execution)]

\* A sweep: the organizations to sweep, the merchants of the first still to
\* visit, the one it opens an incident for with the number, and what it opened.
SweepState == [orgs : Seq(Orgs), todo : SUBSET Merchants, at : Merchants \cup {"none"},
               number : Nat, new : Seq(IncidentRow)]

Visit(orgs) == [orgs |-> orgs, todo |-> {m \in Merchants : orgs # <<>> /\ OrgOf[m] = Head(orgs)},
                at |-> "none", number |-> 0, new |-> <<>>]

Idle == Visit(<<>>)

\* What an approval or a halt has loaded, which may die with it: the executions of incident on that it is
\* to write, which of them were running, and whether the incident was not halted.
Request == [does : {"nothing", "approve", "halt"}, on : Nat, execs : SUBSET Nat,
            running : SUBSET Nat, open : BOOLEAN]

NoRequest == [does |-> "nothing", on |-> 0, execs |-> {}, running |-> {}, open |-> FALSE]

Init ==
    /\ incidents = <<>>
    /\ failing = {}
    /\ proc = [s \in Sweepers |-> Idle]
    /\ operations = [m \in Merchants |-> 0]
    /\ desk = [o \in Operators |-> NoRequest]

UnchangedWorld == UNCHANGED <<failing, operations, desk>>

------------------------------------------------------------------------------
(* What the policy engine is asked.                                        *)

\* The canary slice: 25 percent of the value of the failed payments.
SliceValue(m) == Total[m] \div 4

\* The evidence of a proposal is fixed; the null action has none.
Context(m, kind, amount, hour) ==
    LET proven == kind # "do_nothing"
    IN  [mode |-> Mode[m], kind |-> kind, amount |-> amount, attempts |-> 1, contacts |-> 0,
         minutes |-> IF proven THEN 60 ELSE 0, healthy |-> proven, consent |-> proven,
         mandate |-> proven, authority |-> proven, hour |-> hour]

RulesOf == [m \in Merchants |-> ActiveRules({r \in Policies : r.merchant = m}, <<>>)]

Exposure(m, kind) == IF kind = "do_nothing" THEN 0 ELSE SliceValue(m)

Verdict == [m \in Merchants |-> [kind \in Kinds |-> [hour \in Hours |->
              Evaluate(RulesOf[m], Context(m, kind, Exposure(m, kind), hour))]]]

\* request_execution: what the policy decides is done.
Requested(m, kind, by, hour) ==
    LET verdict == Verdict[m][kind][hour]
        at      == IF kind \in ContactActions THEN hour ELSE 0
    IN  {[kind |-> kind, by |-> by, hour |-> at, state |-> s, approved |-> FALSE] :
           s \in CASE verdict = "block"            -> {"REJECTED_BY_POLICY"}
                   [] verdict = "require_approval" -> Waiting
                   [] verdict = "allow"            -> Outcomes}

------------------------------------------------------------------------------
(* A sweep: run_detection_cycle and _detection_pass_for_org.               *)

SweepStarts(s) ==
    /\ proc[s] = Idle
    /\ proc' = [proc EXCEPT ![s] = Visit(Scope[s])]
    /\ UNCHANGED incidents /\ UnchangedWorld

Sweeping(s, m) == proc[s].at = "none" /\ m \in proc[s].todo

\* A plausible bug: an incident counts as the same outage however old it is.
SameOutage_AnyAge(m) ==
    {i \in DOMAIN incidents : incidents[i].merchant = m /\ incidents[i].state # "RESOLVED"}

\* The open incidents of the last 30 minutes; a halted one is open.
SameOutage(m) ==
    {i \in DOMAIN incidents :
        incidents[i].merchant = m /\ incidents[i].state # "RESOLVED" /\ incidents[i].recent}

\* The bound: sweeps look away from a merchant with that many incidents.
Full(m) == Cardinality({i \in DOMAIN incidents : incidents[i].merchant = m}) >= MaxPerMerchant

\* Nothing is detected, or its incident is open already.
Passes(s, m) ==
    /\ Sweeping(s, m)
    /\ \/ m \notin failing
       \/ Cardinality(SameOutage(m)) = 1
       \/ SameOutage(m) = {} /\ Full(m)
    /\ proc' = [proc EXCEPT ![s].todo = @ \ {m}]
    /\ UNCHANGED incidents /\ UnchangedWorld

\* one_or_none finds two incidents and raises: the tick fails.
FindsTwo(s, m) ==
    /\ Sweeping(s, m)
    /\ m \in failing /\ Cardinality(SameOutage(m)) > 1
    /\ proc' = [proc EXCEPT ![s] = Idle]
    /\ UNCHANGED incidents /\ UnchangedWorld

Detects(s, m) ==
    /\ Sweeping(s, m)
    /\ m \in failing /\ SameOutage(m) = {} /\ ~Full(m)
    /\ proc' = [proc EXCEPT ![s].at = m]
    /\ UNCHANGED incidents /\ UnchangedWorld

InOrg(org) == {i \in DOMAIN incidents : OrgOf[incidents[i].merchant] = org}

OrgAt(s) == Head(proc[s].orgs)

NextHumanId(s) == Cardinality(InOrg(OrgAt(s))) + Len(proc[s].new) + 1

Counts(s) ==
    /\ proc[s].at # "none" /\ proc[s].number = 0
    /\ proc' = [proc EXCEPT ![s].number = NextHumanId(s)]
    /\ UNCHANGED incidents /\ UnchangedWorld

Committed(s) == \E i \in InOrg(OrgAt(s)) : incidents[i].number = proc[s].number

\* Another sweep has inserted the number and not committed: this one waits.
Contended(s) == \E t \in Sweepers \ {s} : /\ proc[t] # Idle /\ OrgAt(t) = OrgAt(s)
                                          /\ \E i \in DOMAIN proc[t].new :
                                                proc[t].new[i].number = proc[s].number

\* The number is free: the incident and its candidates are inserted.
Inserts(s) ==
    /\ proc[s].number # 0
    /\ ~Committed(s) /\ ~Contended(s)
    /\ LET p == proc[s]
       IN  \E best \in Best[p.at] :
              proc' = [proc EXCEPT ![s] =
                  [p EXCEPT !.todo = @ \ {p.at}, !.at = "none", !.number = 0,
                            !.new = Append(@, [merchant |-> p.at, number |-> p.number,
                                               best |-> best, state |-> "ACTION_PROPOSED",
                                               recent |-> TRUE, execs |-> <<>>])]]
    /\ UNCHANGED incidents /\ UnchangedWorld

\* The number was taken: the tick fails, with every incident it has opened.
InsertFails(s) ==
    /\ proc[s].number # 0
    /\ Committed(s) /\ ~Contended(s)
    /\ proc' = [proc EXCEPT ![s] = Idle]
    /\ UNCHANGED incidents /\ UnchangedWorld

\* The autopilot requests the first candidate of what was opened; commit.
Commits(s) ==
    /\ proc[s] # Idle /\ proc[s].at = "none" /\ proc[s].todo = {}
    /\ \E hour \in Hours :
       LET new     == proc[s].new
           acts(i) == Requested(new[i].merchant, new[i].best, "autopilot", hour)
       IN  \E act \in [DOMAIN new -> UNION {acts(i) : i \in DOMAIN new}] :
              /\ \A i \in DOMAIN new : act[i] \in acts(i)
              /\ incidents' = incidents \o
                                [i \in DOMAIN new |-> [new[i] EXCEPT !.execs = <<act[i]>>]]
    /\ proc' = [proc EXCEPT ![s] = Visit(Tail(@.orgs))]
    /\ UnchangedWorld

------------------------------------------------------------------------------
(* The routes of an incident.                                              *)

Write(i, inc) ==
    /\ incidents' = [incidents EXCEPT ![i] = inc]
    /\ UNCHANGED <<failing, proc>>

\* The bound: another request on incident i.
Asks(i) ==
    LET m == incidents[i].merchant
    IN  /\ operations[m] < MaxOperations[m]
        /\ operations' = [operations EXCEPT ![m] = @ + 1]

KindsOf(i) == {incidents[i].execs[e].kind : e \in DOMAIN incidents[i].execs}

\* A candidate is executed, whatever the state of the incident; the key of a
\* kind that was executed gives the same execution again.
Execute(i, kind) ==
    /\ kind \notin KindsOf(i)
    /\ \E hour \in Hours : \E ex \in Requested(incidents[i].merchant, kind, "human", hour) :
          Write(i, [incidents[i] EXCEPT !.execs = Append(@, ex)])
    /\ Asks(i) /\ UNCHANGED desk

InState(i, states) == {e \in DOMAIN incidents[i].execs : incidents[i].execs[e].state \in states}

Loads(o, i, request) ==
    /\ desk[o] = NoRequest
    /\ desk' = [desk EXCEPT ![o] = request]
    /\ Asks(i) /\ UNCHANGED <<incidents, failing, proc>>

\* The latest execution that waits is loaded.
ApproveLooks(o, i) ==
    /\ InState(i, Waiting) # {}
    /\ Loads(o, i, [does |-> "approve", on |-> i, execs |-> {Max(InState(i, Waiting))},
                    running |-> {}, open |-> FALSE])

Approving(i, E, s) ==
    [e \in DOMAIN incidents[i].execs |->
        IF e \in E THEN [incidents[i].execs[e] EXCEPT !.state = s, !.approved = TRUE]
                   ELSE incidents[i].execs[e]]

\* It is dispatched, without another verdict and whatever it has become.
Approve(o, i) ==
    /\ desk[o].does = "approve" /\ desk[o].on = i
    /\ \E s \in Outcomes :
          Write(i, [incidents[i] EXCEPT !.execs = Approving(i, desk[o].execs, s)])
    /\ desk' = [desk EXCEPT ![o] = NoRequest]
    /\ UNCHANGED operations

\* A plausible bug: what waits for an approval is not stopped.
ToHalt_OnlyRunning(i) == InState(i, Running)

ToHalt(i) == InState(i, Active)

\* What is active is loaded.
HaltLooks(o, i) ==
    /\ incidents[i].state # "RESOLVED"
    /\ Loads(o, i, [does |-> "halt", on |-> i, execs |-> ToHalt(i),
                    running |-> InState(i, Running), open |-> incidents[i].state # "HALTED"])

Stopping(i, E) ==
    [e \in DOMAIN incidents[i].execs |->
        IF e \in E THEN [incidents[i].execs[e] EXCEPT !.state = "HALTED"]
                   ELSE incidents[i].execs[e]]

\* The links of a running execution are cancelled, which commits what the halt has
\* written so far: the executions of E.
HaltStops(o, i) ==
    /\ desk[o].does = "halt" /\ desk[o].on = i
    /\ \E E \in SUBSET desk[o].execs :
          /\ E # {} /\ desk[o].running \ E # {}
          /\ Write(i, [incidents[i] EXCEPT !.execs = Stopping(i, E)])
          /\ desk' = [desk EXCEPT ![o].execs = @ \ E, ![o].running = @ \ E]
    /\ UNCHANGED operations

\* The last commit: the rest, and the incident unless it was halted when loaded.
Halt(o, i) ==
    /\ desk[o].does = "halt" /\ desk[o].on = i
    /\ Write(i, [incidents[i] EXCEPT !.execs = Stopping(i, desk[o].execs),
                                     !.state = IF desk[o].open THEN "HALTED" ELSE @])
    /\ desk' = [desk EXCEPT ![o] = NoRequest]
    /\ UNCHANGED operations

Resolve(i) ==
    /\ Write(i, [incidents[i] EXCEPT !.state = "RESOLVED"])
    /\ Asks(i) /\ UNCHANGED desk

------------------------------------------------------------------------------
(* The drafts of the commander, which change nothing.                      *)

\* The words for links give a kind that no candidate has.
Requests == {"retry_burst", "reroute_psp", "payment_links", "notify_customer"}

Proposed(i) == {"retry_burst", "reroute_psp", "payment_link", "notify_customer", incidents[i].best}

\* A kind that no candidate has is replaced by the first candidate.
DraftKind(i, request) == IF request \in Proposed(i) THEN request ELSE incidents[i].best

\* A plausible bug: the draft is judged by the default rules.
DraftRules_Default(m) == MergeRules(<<>>)

DraftRules(m) == RulesOf[m]

\* The verdict on a draft of this kind; all: for every payment, not for the slice.
DraftVerdict == [m \in Merchants |-> [kind \in Kinds |-> [all \in BOOLEAN |-> [hour \in Hours |->
    LET amount == IF all /\ kind # "do_nothing" THEN Total[m] ELSE Exposure(m, kind)
    IN  Evaluate(DraftRules(m), Context(m, kind, amount, hour))]]]]

Draft(i, request, all, hour) ==
    DraftVerdict[incidents[i].merchant][DraftKind(i, request)][all][hour]

\* The verdict the detail of an incident shows: its evidence is the default.
Shown == [m \in Merchants |-> [kind \in Kinds |-> [hour \in Hours |->
    Evaluate(RulesOf[m], [Context(m, "retry_burst", Exposure(m, kind), hour) EXCEPT
                             !.kind = kind, !.minutes = 9999])]]]

\* A preview replays draft rules on what was done, with a context that has every
\* evidence, whatever was recorded, and the present hour.
Preview(m, kind, draft, hour) ==
    Evaluate(MergeRules(draft),
             [mode |-> Mode[m], kind |-> kind, amount |-> Exposure(m, kind), attempts |-> 1,
              contacts |-> 0, minutes |-> 9999, healthy |-> TRUE, consent |-> TRUE,
              mandate |-> TRUE, authority |-> TRUE, hour |-> hour])

\* The preview of the rules in force.
Previewed == [m \in Merchants |-> [kind \in Kinds |-> [hour \in Hours |->
    Preview(m, kind, RulesOf[m], hour)]]]

------------------------------------------------------------------------------

\* More than 30 minutes pass.
Ages(i) == /\ incidents[i].recent
           /\ Write(i, [incidents[i] EXCEPT !.recent = FALSE])
           /\ UNCHANGED <<operations, desk>>

\* An outage begins, which lasts: one that ends only leaves less to do.
Fails(m) ==
    /\ m \notin failing
    /\ failing' = failing \cup {m}
    /\ UNCHANGED <<incidents, proc, operations, desk>>

SweepStep(s) ==
    \/ SweepStarts(s)
    \/ \E m \in Merchants : Passes(s, m) \/ FindsTwo(s, m) \/ Detects(s, m)
    \/ Counts(s) \/ Inserts(s) \/ InsertFails(s) \/ Commits(s)

Operates(i) ==
    \/ \E kind \in Asked : Execute(i, kind)
    \/ \E o \in Operators : \/ ApproveLooks(o, i) \/ Approve(o, i)
                            \/ HaltLooks(o, i) \/ HaltStops(o, i) \/ Halt(o, i)
    \/ Resolve(i)

Next ==
    \/ \E s \in Sweepers : SweepStep(s)
    \/ \E i \in DOMAIN incidents : Operates(i) \/ Ages(i)
    \/ \E m \in Merchants : Fails(m)

\* A worker's loop keeps sweeping, tick after tick, and time passes.
Spec ==
    /\ Init /\ [][Next]_vars
    /\ \A s \in Sweepers : WF_vars(SweepStep(s))
    /\ WF_vars(\E i \in DOMAIN incidents : Ages(i))

------------------------------------------------------------------------------
(* Properties.                                                             *)

\* Every variable holds values of its type, and human ids of an organization
\* are numbered in the order of the commits without a gap.
TypeOK ==
    /\ incidents \in Seq(IncidentRow)
    /\ failing \subseteq Merchants
    /\ proc \in [Sweepers -> SweepState]
    /\ operations \in [Merchants -> Nat]
    /\ \A m \in Merchants : operations[m] <= MaxOperations[m]
    /\ desk \in [Operators -> Request]
    /\ \A org \in Orgs : \A i \in InOrg(org) :
          incidents[i].number = Cardinality({j \in InOrg(org) : j <= i})

\* What runs without a human's approval keeps the rules in force when it starts
\* (the docstring of services/policy.py): its exposure is within the cap, a
\* customer is not reached in quiet hours, and money moves by itself only in the
\* autonomous mode, or bounded, up to half the cap.
AutopilotWithinRules ==
    [][\A i \in DOMAIN incidents' : \A e \in DOMAIN incidents'[i].execs :
          LET ex    == incidents'[i].execs[e]
              m     == incidents'[i].merchant
              begun == ~(i \in DOMAIN incidents /\ e \in DOMAIN incidents[i].execs)
              cap   == RulesOf[m].amount_cap
          IN  begun /\ ex.state \in Outcomes =>
                /\ Exposure(m, ex.kind) <= cap
                /\ ex.kind \in ContactActions => ~Quiet(RulesOf[m].dnd_window_ok, ex.hour)
                /\ ex.kind \in MoneyActions =>
                      \/ Mode[m] = Autonomous
                      \/ Mode[m] = BoundedAutopilot /\ 2 * SliceValue(m) <= cap]_vars

\* "A halt must stop active work, not merely repaint the incident state": on a
\* halted incident nothing of the autopilot waits, and nothing runs or is to be
\* retried but what an operator has approved, though the halt commits in parts
\* what it has loaded earlier, over approvals, resolutions and other halts.
HaltStopsAutopilot ==
    \A i \in DOMAIN incidents : incidents[i].state = "HALTED" =>
        \A e \in DOMAIN incidents[i].execs :
            LET ex == incidents[i].execs[e]
            IN  ex.by = "autopilot" /\ ex.state \notin Stopped => ex.state \in Running /\ ex.approved

\* What the words say without that exception does not hold: an approval in flight
\* writes over the halt.
NoAutopilotAfterHalt ==
    \A i \in DOMAIN incidents : incidents[i].state = "HALTED" =>
        \A e \in DOMAIN incidents[i].execs :
            incidents[i].execs[e].by = "autopilot" => incidents[i].execs[e].state \in Stopped

\* An outage that lasts becomes an incident, though sweeps collide on a number
\* or find two incidents of one outage and fail for all organizations.
OutageBecomesIncident ==
    []<>(\A m \in failing : \/ Full(m)
                            \/ \E i \in DOMAIN incidents : incidents[i].merchant = m
                                                           /\ incidents[i].state # "RESOLVED")

\* What the commander says policy would allow, for a part or for every payment,
\* and what the incident's page and a preview of the rules in force say of a
\* proposed action, the executor would do: none is laxer than the verdict on the
\* action itself.  The page and the preview do not know the 60 minutes that an
\* action's evidence says have passed: they are right where no longer cooldown
\* is asked for.
DraftIsNotLaxer ==
    \A i \in {j \in DOMAIN incidents : incidents[j].state # "RESOLVED"}, hour \in Hours :
        LET m == incidents[i].merchant
        IN  /\ \A request \in Requests, all \in BOOLEAN :
                  Draft(i, request, all, hour) = "allow"
                      => Verdict[m][DraftKind(i, request)][hour] = "allow"
            /\ RulesOf[m].cooldown_ok <= 60 => \A kind \in Proposed(i) \ {"do_nothing"} :
                  "allow" \in {Shown[m][kind][hour], Previewed[m][kind][hour]}
                      => Verdict[m][kind][hour] = "allow"

==============================================================================
