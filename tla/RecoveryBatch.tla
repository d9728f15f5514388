---------------------------- MODULE RecoveryBatch ----------------------------
(***************************************************************************)
(* A measured recovery batch: run_flagship of paytwin_sim/demo.py with the *)
(* experiments of services/experiments.py, the local rails of              *)
(* services/razorpay_local.py and the events that connectors/razorpay.py   *)
(* makes of their webhooks.                                                *)
(*                                                                         *)
(* The controller assigns payment groups to two arms, sends links to the   *)
(* treated ones, lets links and control orders have their outcomes,        *)
(* measures the lift and claims what it is worth.  It works in one session *)
(* that every delivered webhook commits, so what it does is visible and    *)
(* lasting in pieces; it goes by the rows it has loaded, while the worker  *)
(* and operators write them too (RecoveryAction takes those apart), and    *)
(* while others pay, expire or cancel its links and pay its orders by the  *)
(* routes of routers/razorpay.py: they too read first and write later.     *)
(*                                                                         *)
(* The outcomes, which follow a pattern in the code, are chosen freely and *)
(* the hash that assigns the arms is arbitrary.  Amounts are equal.  The   *)
(* blocked action, confidence intervals and audit records are left out.    *)
(***************************************************************************)
EXTENDS Integers, FiniteSets, Functions

CONSTANTS
    N,          \* the number of payment groups, in order
    Amount,     \* what each owes
    Cost,       \* the outreach cost of a link
    Payers,     \* who else pays: clients of the routes of the rails
    Parts,      \* what is paid of a link in part
    MaxRequests \* bound: how many requests the payers make

ASSUME BatchAssumption == N \in Nat /\ Amount \in Nat /\ Cost \in Nat
ASSUME PayersAssumption == Payers \cap {"batch", "link"} = {} /\ Parts \subseteq 1 .. Amount - 1

Groups == 1 .. N

\* The links of the batch have the numbers of their groups, and the guard that
\* is rolled back has two more.  An order has the number of its link or its group.
GuardLinks == {N + 1, N + 2}
LinkIds    == Groups \cup GuardLinks

VARIABLES
    arms,       \* the experiment_assignments: the arm of each group
    bound,      \* the groups whose assignment refers to the execution
    links,      \* the payment_links rows
    captured,   \* who has captured which order
    execs,      \* the states of the batch's execution and the guard's
    outcomes,   \* the outcomes rows
    stopped,    \* the experiment is stopped
    claimed,    \* protected_mtd_paise of the merchant
    ctl,        \* the controller: where it is, and who it found recovered
    committed,  \* the controller's session has been committed
    late,       \* max_duration_min is over
    payments,   \* the payments rows
    gmv,        \* gmv_mtd_paise of the merchant
    hand,       \* what the request of each payer has in hand
    requests,   \* how many requests were begun
    reopened    \* history: the closed links that a partial payment has opened again

vars == <<arms, bound, links, captured, execs, outcomes, stopped, claimed, ctl, committed, late,
          payments, gmv, hand, requests, reopened>>

Arms        == {"none", "treatment", "control"}
OpenLink    == {"issued", "partially_paid"}
LinkStates  == OpenLink \cup {"none", "paid", "expired", "cancelled"}
ExecStates  == {"absent", "MONITORING", "SUCCEEDED", "HALTED", "ROLLED_BACK"}
Executions  == {"batch", "guard"}

\* A capture or failure has a payment of its own; what else a link tells of has one
\* that is named after the link.
Captures    == (Payers \cup {"batch"}) \X LinkIds
PaymentRefs == Captures \cup ({"link"} \X LinkIds)
NoPayment   == [status |-> "none", amount |-> 0]

\* A request: what it is to do on which link or order, and how it has found the link.
Request   == [does : {"none", "paid", "order", "mark", "partially_paid", "expired", "cancelled"},
              on : {0} \cup LinkIds, was : {"none"} \cup OpenLink]
NoRequest == [does |-> "none", on |-> 0, was |-> "none"]

\* at: what the controller does next; group: the one whose outcome it settles.
Places == {"launch", "settle", "capture", "mark", "cancel", "claim", "done", "failed", "crashed"}

Init ==
    /\ arms = [g \in Groups |-> "none"]
    /\ bound = {}
    /\ links = [l \in LinkIds |-> "none"]
    /\ captured = {}
    /\ execs = [e \in Executions |-> "absent"]
    /\ outcomes = [g \in Groups |-> "none"]
    /\ stopped = FALSE
    /\ claimed = 0
    /\ ctl = [at |-> "launch", group |-> 0, found |-> {}]
    /\ committed = FALSE
    /\ late = FALSE
    /\ payments = [r \in PaymentRefs |-> NoPayment]
    /\ gmv = 0
    /\ hand = [p \in Payers |-> NoRequest]
    /\ requests = 0
    /\ reopened = {}

Arm(arm) == {g \in Groups : arms[g] = arm}

Goes(at, group, found) == ctl' = [at |-> at, group |-> group, found |-> found]

\* Where the controller goes after a group: treated ones come first.
Order     == [g \in Groups |-> IF arms[g] = "treatment" THEN g ELSE N + g]
Remaining == {g \in Groups : ctl.group = 0 \/ Order[g] > Order[ctl.group]}
NextGroup == CHOOSE g \in Remaining : \A h \in Remaining : Order[g] <= Order[h]

LinksOf(e) == IF e = "batch" THEN {g \in Groups : links[g] # "none"} ELSE GuardLinks

\* The status of an order: whoever captured it.
Paid(o) == \E c \in captured : c[2] = o

------------------------------------------------------------------------------
(* The rails: the webhooks of captures and links, and what is made of them. *)

\* A webhook: its name, and its payment's id and amount.
Webhook(event, ref, amount) == [event |-> event, id |-> ref, amount |-> amount]

PaymentOf(who, o, event) == Webhook(event, <<who, o>>, Amount)

\* A plausible bug: a paid link tells of a payment of its own.
LinkPaid_Anew(who, l) == Webhook("payment_link.paid", <<"link", l>>, Amount)

\* A paid link tells of the payment that was captured for it.
LinkPaid(who, l) == Webhook("payment_link.paid", <<who, l>>, Amount)

\* A part tells of a payment that is only authorized.
LinkPart(l, part) == Webhook("payment_link.partially_paid", <<"link", l>>, part)

\* Links that end unpaid tell of a marker worth nothing.
LinkOver(l, event) == Webhook(event, <<"link", l>>, 0)

\* normalize: links go through the same canonical payments.
Normalize(w) ==
    [ref    |-> w.id,
     status |-> CASE w.event \in {"payment.captured", "payment_link.paid"} -> "success"
                  [] w.event = "payment_link.partially_paid" -> "authorized"
                  [] OTHER -> "failed",
     amount |-> w.amount]

\* What the state machine makes of the events of these webhooks, of which no two
\* tell of the same payment: a success is not taken back by a later event, and the
\* amount is that of the first.
Ingested(webhooks) ==
    [r \in PaymentRefs |->
        LET events == {Normalize(w) : w \in {x \in webhooks : x.id = r}}
        IN  IF events = {} \/ payments[r].status = "success" THEN payments[r]
            ELSE LET e == CHOOSE x \in events : TRUE
                 IN  [status |-> e.status,
                      amount |-> IF payments[r].status = "none" THEN e.amount ELSE payments[r].amount]]

\* A delivery commits the session of its sender.
Deliver(webhooks) ==
    /\ payments' = Ingested(webhooks)
    /\ committed' = TRUE

Successful == {r \in PaymentRefs : payments[r].status = "success"}
Booked     == SumFunctionOnSet([r \in PaymentRefs |-> payments[r].amount], Successful)

------------------------------------------------------------------------------
(* The launch: assignment, then the dispatch to the treated groups.        *)

\* Controls carry no execution reference.
Bound(assigned) == {g \in Groups : assigned[g] = "treatment"}

Launch ==
    /\ ctl.at = "launch"
    /\ \E assigned \in [Groups -> {"treatment", "control"}] :
          /\ {"treatment", "control"} = {assigned[g] : g \in Groups}
          /\ arms' = assigned
          /\ bound' = Bound(assigned)
          /\ links' = [l \in LinkIds |-> IF l \in Groups /\ assigned[l] = "treatment"
                                         THEN "issued" ELSE "none"]
    /\ execs' = [execs EXCEPT !["batch"] = "MONITORING"]
    /\ Goes("settle", 0, {})
    /\ UNCHANGED <<captured, outcomes, stopped, claimed, committed, late, payments, gmv,
                   hand, requests, reopened>>

\* Too few groups, or an arm without any: nothing is kept.
LaunchFails ==
    /\ ctl.at = "launch"
    /\ Goes("failed", 0, {})
    /\ UNCHANGED <<arms, bound, links, captured, execs, outcomes, stopped, claimed, committed, late,
                   payments, gmv, hand, requests, reopened>>

------------------------------------------------------------------------------
(* The outcomes, each delivered as a webhook that commits.                 *)

UnchangedDesign == UNCHANGED <<arms, bound, outcomes, stopped, claimed, late, gmv>>
UnchangedOthers == UNCHANGED <<hand, requests, reopened>>

\* A link is to be paid: its order is read, and must not be paid yet.
LookAtOrder ==
    /\ ctl.at = "settle"
    /\ Remaining # {} /\ arms[NextGroup] = "treatment"
    /\ ~Paid(NextGroup)
    /\ Goes("capture", NextGroup, ctl.found)
    /\ UNCHANGED <<links, captured, execs, payments, committed>> /\ UnchangedDesign /\ UnchangedOthers

\* "order is already paid" ends the batch.
LookFails ==
    /\ ctl.at = "settle"
    /\ Remaining # {} /\ arms[NextGroup] = "treatment"
    /\ Paid(NextGroup)
    /\ Goes("failed", 0, ctl.found)
    /\ UNCHANGED <<links, captured, execs, payments, committed>> /\ UnchangedDesign /\ UnchangedOthers

\* It is captured, whoever has paid it since: committed before the link is marked.
CaptureOrder ==
    /\ ctl.at = "capture"
    /\ captured' = captured \cup {<<"batch", ctl.group>>}
    /\ Goes("mark", ctl.group, ctl.found)
    /\ Deliver({PaymentOf("batch", ctl.group, "payment.captured")})
    /\ UNCHANGED <<links, execs>> /\ UnchangedDesign /\ UnchangedOthers

\* The controller's copy of the link is still open, whatever the row is now.
MarkPaid ==
    /\ ctl.at = "mark"
    /\ links' = [links EXCEPT ![ctl.group] = "paid"]
    /\ Goes("settle", ctl.group, ctl.found \cup {ctl.group})
    /\ Deliver({LinkPaid("batch", ctl.group)})
    /\ UNCHANGED <<captured, execs>> /\ UnchangedDesign /\ UnchangedOthers

\* A plausible bug: a link that is settled is taken for one that is paid.
FoundAfterExpiry_Settled(found, g) == found \cup {g}

FoundAfterExpiry(found, g) == found

\* By the same copy a link is expired that others may have paid.
ExpireLink ==
    /\ ctl.at = "settle"
    /\ Remaining # {} /\ arms[NextGroup] = "treatment"
    /\ links' = [links EXCEPT ![NextGroup] = "expired"]
    /\ Goes("settle", NextGroup, FoundAfterExpiry(ctl.found, NextGroup))
    /\ Deliver({LinkOver(NextGroup, "payment_link.expired")})
    /\ UNCHANGED <<captured, execs>> /\ UnchangedDesign /\ UnchangedOthers

\* A control's new order is captured or fails by itself.
SettleControl ==
    /\ ctl.at = "settle"
    /\ Remaining # {} /\ arms[NextGroup] = "control"
    /\ \E natural \in SUBSET {NextGroup} :
          /\ captured' = captured \cup ({"batch"} \X natural)
          /\ Goes("settle", NextGroup, ctl.found \cup natural)
          /\ Deliver({PaymentOf("batch", NextGroup, IF natural = {} THEN "payment.failed"
                                                   ELSE "payment.captured")})
    /\ UNCHANGED <<links, execs>> /\ UnchangedDesign /\ UnchangedOthers

------------------------------------------------------------------------------
(* The measurement.                                                        *)

\* Python's round of a / b: half goes to the even neighbour.
Round(a, b) ==
    LET q == a \div b
        r == 2 * (a % b)
    IN  IF r > b \/ (r = b /\ q % 2 = 1) THEN q + 1 ELSE q

Rewards(arm, of) == Amount * Cardinality({g \in Arm(arm) : of[g] = "recovered"})

\* A plausible bug: the totals of the arms are compared.
Incremental_Raw(of) == Rewards("treatment", of) - Rewards("control", of)

\* The difference of the means, scaled to the treated groups.
Incremental(of) ==
    LET t == Cardinality(Arm("treatment"))
        c == Cardinality(Arm("control"))
    IN  Round(Rewards("treatment", of) * c - Rewards("control", of) * t, c)

Results(of) == Incremental(of) - Cost * Cardinality(bound)

Recorded(found) == [g \in Groups |-> IF g \in found THEN "recovered" ELSE "lost"]

\* The controller sees all its links settled and no other state of its execution
\* than the one it has left: it completes it, records the outcomes, and starts
\* the guard, whose first cancelled link commits all this.
Measure ==
    /\ ctl.at = "settle"
    /\ Remaining = {}
    /\ ~late
    /\ outcomes' = Recorded(ctl.found)
    /\ stopped' = TRUE
    /\ execs' = [batch |-> "SUCCEEDED", guard |-> "MONITORING"]
    /\ links' = [links EXCEPT ![N + 1] = "cancelled", ![N + 2] = "issued"]
    /\ Goes("cancel", 0, ctl.found)
    /\ Deliver({LinkOver(N + 1, "payment_link.cancelled")})
    /\ UNCHANGED <<arms, bound, captured, claimed, late, gmv, hand, requests, reopened>>

\* The batch has lasted too long: it stops itself, which nothing commits.
MeasureFails ==
    /\ ctl.at = "settle"
    /\ Remaining = {}
    /\ late
    /\ Goes("failed", 0, ctl.found)
    /\ UNCHANGED <<arms, bound, links, captured, execs, outcomes, stopped, claimed, committed, late,
                   payments, gmv, hand, requests, reopened>>

\* It has listed both links of the guard before the first was cancelled.
CancelGuard ==
    /\ ctl.at = "cancel"
    /\ links' = [links EXCEPT ![N + 2] = "cancelled"]
    /\ Goes("claim", 0, ctl.found)
    /\ Deliver({LinkOver(N + 2, "payment_link.cancelled")})
    /\ UNCHANGED <<captured, execs>> /\ UnchangedDesign /\ UnchangedOthers

\* A loss is not shown.
Claimed(net) == IF net > 0 THEN net ELSE 0

Claim ==
    /\ ctl.at = "claim"
    /\ execs' = [execs EXCEPT !["guard"] = "ROLLED_BACK"]
    /\ claimed' = Claimed(Results(outcomes))
    /\ gmv' = Booked
    /\ Goes("done", 0, ctl.found)
    /\ UNCHANGED <<arms, bound, links, captured, outcomes, stopped, committed, late, payments,
                   hand, requests, reopened>>

\* The controller's process ends: what it has not committed is gone.
Crash ==
    /\ ctl.at \in {"settle", "capture", "mark", "cancel", "claim"}
    /\ Goes("crashed", 0, {})
    /\ IF committed
       THEN UNCHANGED <<arms, bound, links, execs>>
       ELSE /\ arms' = [g \in Groups |-> "none"]
            /\ bound' = {}
            /\ links' = [l \in LinkIds |-> "none"]
            /\ execs' = [e \in Executions |-> "absent"]
    /\ UNCHANGED <<captured, outcomes, stopped, claimed, committed, late, payments, gmv,
                   hand, requests, reopened>>

------------------------------------------------------------------------------
(* The others.                                                             *)

\* cancel_open_payment_links.
Open(e)      == {l \in LinksOf(e) : links[l] \in OpenLink}
Cancelled(e) == [l \in LinkIds |-> IF l \in Open(e) THEN "cancelled" ELSE links[l]]

Stop(e, state) ==
    /\ execs' = [execs EXCEPT ![e] = state]
    /\ links' = Cancelled(e)
    /\ Deliver({LinkOver(l, "payment_link.cancelled") : l \in Open(e)})
    /\ UNCHANGED <<captured, ctl>> /\ UnchangedDesign /\ UnchangedOthers

\* A plausible bug: the duration is not looked at.
Overdue_Never(e) == FALSE

Overdue(e) == late

\* A tick of the worker that looks at an execution.  The guard starts later than
\* the batch and may still be within its time when that one is not.
Monitor(e) ==
    /\ committed
    /\ execs[e] = "MONITORING"
    /\ \/ Overdue(e) /\ Stop(e, "HALTED")
       \/ e = "guard" /\ Stop(e, "ROLLED_BACK")
       \/ /\ ~Overdue(e) /\ e = "batch"
          /\ Open(e) = {}
          /\ Stop(e, "SUCCEEDED")

\* An operator halts the incident's actions.
Halt(e) ==
    /\ committed
    /\ execs[e] = "MONITORING"
    /\ Stop(e, "HALTED")

TimePasses ==
    /\ ~late
    /\ execs["batch"] # "absent"
    /\ late' = TRUE
    /\ UNCHANGED <<arms, bound, links, captured, execs, outcomes, stopped, claimed, ctl, committed,
                   payments, gmv, hand, requests, reopened>>

------------------------------------------------------------------------------
(* Who else pays.  A request that dies is one that is never continued.     *)

UnchangedBatch == UNCHANGED <<execs, ctl>> /\ UnchangedDesign

Begins(p, does, on, was) ==
    /\ requests < MaxRequests /\ requests' = requests + 1
    /\ hand[p] = NoRequest
    /\ hand' = [hand EXCEPT ![p] = [does |-> does, on |-> on, was |-> was]]
    /\ UNCHANGED <<links, captured, payments, committed, reopened>> /\ UnchangedBatch

Ends(p) == hand' = [hand EXCEPT ![p] = NoRequest]

\* simulate_payment_link_outcome begins: the link must be open, and for a payment in
\* full its order not paid.
LooksAtLink(p, l, outcome) ==
    /\ committed /\ links[l] \in OpenLink
    /\ outcome = "paid" => ~Paid(l)
    /\ Begins(p, outcome, l, links[l])

\* An order can be paid without its link, once its link or a payment is committed.
Placed(o) == links[o] # "none" \/ payments[<<"batch", o>>] # NoPayment

LooksAtOrder(p, o) ==
    /\ committed /\ Placed(o)
    /\ ~Paid(o)
    /\ Begins(p, "order", o, "none")

\* The order is captured, and the link, if that is what is paid, still to be marked.
PaysOrder(p) ==
    /\ hand[p].does \in {"paid", "order"}
    /\ captured' = captured \cup {<<p, hand[p].on>>}
    /\ Deliver({PaymentOf(p, hand[p].on, "payment.captured")})
    /\ IF hand[p].does = "paid" THEN hand' = [hand EXCEPT ![p].does = "mark"] ELSE Ends(p)
    /\ UNCHANGED <<links, requests, reopened>> /\ UnchangedBatch

Marks(p) ==
    /\ hand[p].does = "mark"
    /\ links' = [links EXCEPT ![hand[p].on] = "paid"]
    /\ Deliver({LinkPaid(p, hand[p].on)})
    /\ Ends(p)
    /\ UNCHANGED <<captured, requests, reopened>> /\ UnchangedBatch

\* A part is paid.  A status that does not change is not written.
PaysPart(p) ==
    LET l == hand[p].on
        writes == hand[p].was # "partially_paid"
    IN  /\ hand[p].does = "partially_paid"
        /\ links' = IF writes THEN [links EXCEPT ![l] = "partially_paid"] ELSE links
        /\ reopened' = IF writes /\ links[l] \notin OpenLink THEN reopened \cup {l} ELSE reopened
        /\ \E part \in Parts : Deliver({LinkPart(l, part)})
        /\ Ends(p)
        /\ UNCHANGED <<captured, requests>> /\ UnchangedBatch

\* A link is closed unpaid.
Closes(p) ==
    /\ hand[p].does \in {"expired", "cancelled"}
    /\ links' = [links EXCEPT ![hand[p].on] = hand[p].does]
    /\ Deliver({LinkOver(hand[p].on, IF hand[p].does = "expired" THEN "payment_link.expired"
                                     ELSE "payment_link.cancelled")})
    /\ Ends(p)
    /\ UNCHANGED <<captured, requests, reopened>> /\ UnchangedBatch

Pay(p) ==
    \/ \E l \in LinkIds, outcome \in {"paid", "partially_paid", "expired", "cancelled"} :
          LooksAtLink(p, l, outcome)
    \/ \E o \in LinkIds : LooksAtOrder(p, o)
    \/ PaysOrder(p) \/ Marks(p) \/ PaysPart(p) \/ Closes(p)

------------------------------------------------------------------------------
Next ==
    \/ Launch \/ LaunchFails
    \/ LookAtOrder \/ LookFails \/ CaptureOrder \/ MarkPaid \/ ExpireLink \/ SettleControl
    \/ Measure \/ MeasureFails \/ CancelGuard \/ Claim
    \/ Crash
    \/ \E e \in Executions : Monitor(e) \/ Halt(e)
    \/ \E p \in Payers : Pay(p)
    \/ TimePasses

\* The worker ticks and time passes; nobody waits for the controller, for an
\* operator or for a request.
Fairness == WF_vars(\E e \in Executions : Monitor(e)) /\ WF_vars(TimePasses)

Spec == Init /\ [][Next]_vars /\ Fairness

------------------------------------------------------------------------------
\* Of which groups the batch itself has captured the order.
OwnOf(S) == {g \in S : <<"batch", g>> \in captured}

\* What the experiment has stored is in the books: an outcome is recovered exactly when
\* the payment with which the batch itself captured the group's order is successful,
\* whoever pays, halts, expires or cancels meanwhile and whatever is told of it later.
OutcomeWasCaptured ==
    \A g \in Groups : outcomes[g] # "none" =>
        (outcomes[g] = "recovered" <=> payments[<<"batch", g>>].status = "success")

\* Not true: an outcome is recorded as lost only when nobody has paid the order by then.
\* The batch expires its own copy of a link that others have paid, and records what it did.
LostIsUnpaid == [][outcomes' # outcomes => \A g \in Groups : outcomes'[g] = "lost" => ~Paid(g)]_vars

\* The merchant's protected revenue is what a finished experiment bears out: no
\* control was acted on - its assignment refers to no execution and no link was
\* sent to it -, the treated groups did better than the controls, every group has
\* an outcome, and it is no more than what the treated groups paid to the batch.
ClaimBacked ==
    claimed > 0 =>
        LET t == Arm("treatment")
            c == Arm("control")
        IN  /\ \A g \in c : g \notin bound /\ links[g] = "none"
            /\ stopped /\ \A g \in Groups : outcomes[g] # "none"
            /\ Cardinality(OwnOf(t)) * Cardinality(c) > Cardinality(OwnOf(c)) * Cardinality(t)
            /\ claimed <= Amount * Cardinality(OwnOf(t))

\* The portfolio counts each capture once, though a paid link tells of it a second
\* time, and counts no link that ended unpaid or was paid in part; when the batch is
\* done its claim is part of what the merchant has turned over, to which others may
\* have added since.
RevenueFromCaptures ==
    /\ Booked = Amount * Cardinality(captured)
    /\ ctl.at = "done" => claimed <= gmv /\ gmv <= Booked

\* Not true: an order is captured once.  Two who have both read it as unpaid both
\* capture it, and both captures are turnover.
OrderPaidOnce == \A c, d \in captured : c[2] = d[2] => c = d

\* No customer is left with a link that stays open: of a batch that has crashed or
\* failed the worker closes what the controller did not.  Excepted are links that were
\* closed and that a partial payment, which had read them before, has opened again.
LinksClose == <>[](committed => \A l \in LinkIds : links[l] \in OpenLink => l \in reopened)

\* Not true: the same without the exception.
EveryLinkCloses == <>[](committed => \A l \in LinkIds : links[l] \notin OpenLink)

==============================================================================
