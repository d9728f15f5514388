-------------------------------- MODULE Shops --------------------------------
(***************************************************************************)
(* The shops of SafetyWorld side by side: each is delivered the same       *)
(* events, those of a scenario of the packs in its order, or any sequence  *)
(* of the given events.                                                    *)
(***************************************************************************)
EXTENDS SafetyWorld

CONSTANTS
    Possible,       \* what may be delivered besides the events of a scenario
    MaxLength       \* bounds the sequences that are not of a scenario

\* What the lab presupposes of the events it plays: a delivery of one id is signed
\* always or never, and a payment is captured for one amount.
Coherent(es) ==
    /\ \A e \in es : e.type \in EventTypes /\ e.amount \in Nat /\ e.signed \in BOOLEAN
    /\ \A d, e \in es :
        /\ d.id = e.id => d.signed = e.signed
        /\ d.type = "payment.captured" /\ e.type = "payment.captured" /\ d.payment = e.payment
              => d.amount = e.amount

ASSUME ShopsAssumption == Coherent(Possible)

VARIABLES
    scenario,       \* the scenario that is played, or "any"
    delivered,      \* the events delivered so far
    shop            \* the world of each preset

shopsVars == <<scenario, delivered, shop>>

Presets == DOMAIN Lacks

SingleUse(id) == id = "any" \/ Scenarios[id].singleUse

ShopsInit ==
    /\ scenario \in ScenarioIds \cup {"any"}
    /\ delivered = <<>>
    /\ shop = [p \in Presets |-> NewWorld(SingleUse(scenario))]

Deliver(e) ==
    /\ delivered' = Append(delivered, e)
    /\ shop' = [p \in Presets |-> Handle(Preset(p), shop[p], e)]
    /\ UNCHANGED scenario

Finished == scenario # "any" /\ delivered = Scenarios[scenario].events

ShopsNext ==
    \/ /\ scenario # "any" /\ ~Finished
       /\ Deliver(Scenarios[scenario].events[Len(delivered) + 1])
    \/ /\ scenario = "any" /\ Len(delivered) < MaxLength
       /\ \E e \in Possible : Deliver(e)

ShopsSpec == ShopsInit /\ [][ShopsNext]_shopsVars

------------------------------------------------------------------------------
(* Properties.                                                             *)

\* The event at place i is one a shop goes by: signed, its own, the first of its id.
Genuine(i, s) ==
    /\ s[i].signed /\ s[i].tenant = "t1"
    /\ \A j \in 1 .. (i-1) : s[j].signed => s[j].id # s[i].id

\* There is a genuine event of this type for the order.
Told(type, o, s) ==
    \E i \in DOMAIN s : Genuine(i, s) /\ s[i].type = type /\ s[i].order = o

\* The packs "test the tester" (packs.py): at the end of a scenario the correct
\* shop is clean and each broken shop violates exactly the invariants listed;
\* the faults of the webhook lab have at most one effect, and both stages of the
\* guided proof return instead of raising.
PacksProve ==
    Finished =>
        /\ Evaluate(shop["correct"]) = {}
        /\ \A m \in Scenarios[scenario].mutations : Evaluate(shop[m.preset]) = m.expect
        /\ scenario \in WebhookFaults => Len(shop["correct"].effects) <= 1
        /\ scenario = "RZP-ONE-FULFILMENT" =>
              ProofFlowReturns(shop["duplicate_fulfilment"], shop["correct"])

\* The correct shop is clean after every sequence of events, in any order and
\* with any repetition, and not only after those of the packs ("Out-of-order
\* arrival converges"): the lab raises no false alarm.  An order that is
\* genuinely reported paid must have its genuine capture by then.
CorrectIsClean ==
    (\A i \in DOMAIN delivered :
        LET o == delivered[i].order
        IN  Told("order.paid", o, delivered) => Told("payment.captured", o, delivered))
        => Evaluate(shop["correct"]) = {}

\* Deliveries that have one id are of one event.
OneEventPerId ==
    \A i, j \in DOMAIN delivered :
        delivered[i].id = delivered[j].id => delivered[i] = delivered[j]

\* No refund is reported before the genuine capture of its payment.  (The correct
\* shop rejects such a refund for good: its redelivery is ignored as seen, and a
\* shop that forgets what it has seen does better.)
RefundsFollow ==
    \A i \in DOMAIN delivered : delivered[i].type = "refund.processed" =>
        \E j \in 1 .. (i-1) :
            /\ Genuine(j, delivered) /\ delivered[j].type = "payment.captured"
            /\ delivered[j].payment = delivered[i].payment

\* The shops whose defect shows; the limit on mandates only matters for one use.
Revealing ==
    {"no_verify", "no_dedupe", "cross_tenant_blind", "duplicate_fulfilment"}
    \cup (IF SingleUse(scenario) THEN {"mandate_limits_off"} ELSE {})

\* The defects the lab must see whenever they show ("used to prove the
\* Reliability Lab actually detects real defect classes", fixtures.py): if a
\* shop without the control has other effects than the correct one, some
\* invariant says so.  This is not true of the two defects left out: a refund
\* accepted before its capture, and a capture that is not followed by a
\* fulfilment, leave a world no invariant objects to.  Nor where two events
\* have one id, as in RZP-LATE-AUTH: the correct shop ignores the second.
DefectsAreSeen ==
    OneEventPerId /\ RefundsFollow =>
        \A p \in Revealing :
            shop[p].effects # shop["correct"].effects => Evaluate(shop[p]) # {}

==============================================================================
