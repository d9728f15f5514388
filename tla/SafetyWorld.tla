----------------------------- MODULE SafetyWorld -----------------------------
(***************************************************************************)
(* The reference shop of the reliability lab (reliability/engine.py), the  *)
(* broken shops it is compared with (fixtures.py), the invariants they are *)
(* judged by (invariants.py), the scenarios of the packs (packs.py) and    *)
(* the verdict on a suite (router.py): pure functions of a sequence of     *)
(* provider events.                                                        *)
(*                                                                         *)
(* A shop is the set of the controls it has.  Amounts are in units of      *)
(* 10 000 paise; the notes and titles are left out.                        *)
(***************************************************************************)
EXTENDS Naturals, Sequences, SequencesExt, FiniteSets

Controls == {"verify_signature", "dedupe", "require_captured", "idempotent_refunds",
             "tenant_scope", "mandate_limits", "single_fulfilment"}

\* PRESETS: the correct shop and the controls each broken one lacks.
Lacks ==
    [correct              |-> {},
     no_verify            |-> {"verify_signature"},
     no_dedupe            |-> {"dedupe", "single_fulfilment"},
     fulfil_on_authorized |-> {"require_captured"},
     refund_over_capture  |-> {"idempotent_refunds"},
     cross_tenant_blind   |-> {"tenant_scope"},
     mandate_limits_off   |-> {"mandate_limits"},
     forged_callback      |-> {"verify_signature", "require_captured"},
     duplicate_fulfilment |-> {"single_fulfilment"}]

Preset(name) == Controls \ Lacks[name]

NewWorld(singleUse) ==
    [payments |-> <<>>, orders |-> <<>>,    \* by reference, empty at first
     effects |-> <<>>, processed |-> {}, seen |-> {},
     home |-> "t1", singleUse |-> singleUse, mandateUsed |-> FALSE]

EventTypes == {"payment.authorized", "payment.captured", "payment.failed", "order.paid",
               "refund.processed", "agent.purchase"}

\* dict.setdefault.
SetDefault(f, k, v) == [x \in DOMAIN f \cup {k} |-> IF x \in DOMAIN f THEN f[x] ELSE v]

Effect(kind, e) == [kind |-> kind, payment |-> e.payment, order |-> e.order,
                    tenant |-> e.tenant, src |-> e.id]

Fulfil(c, w, e) ==
    LET orders == SetDefault(w.orders, e.order, [count |-> 0, expected |-> FALSE])
    IN  IF "single_fulfilment" \in c /\ orders[e.order].count > 0
        THEN [w EXCEPT !.orders = orders]
        ELSE [w EXCEPT !.orders = [orders EXCEPT ![e.order].count = @ + 1],
                       !.effects = Append(@, Effect("fulfilment", e))]

Processed(w, e, accepted) ==
    [w EXCEPT !.processed = @ \cup {[id |-> e.id, signed |-> e.signed,
                                     accepted |-> accepted]}]

SetStatus(w, e, status) == [w EXCEPT !.payments[e.payment].status = status]

\* A plausible bug: a late authorization downgrades a captured payment.
Authorized_Downgrades(c, w, e) ==
    LET v == SetStatus(w, e, "authorized")
    IN  IF "require_captured" \in c THEN v ELSE Fulfil(c, v, e)

Authorized(c, w, e) ==
    LET v == IF w.payments[e.payment].status = "captured" THEN w
             ELSE SetStatus(w, e, "authorized")
    IN  IF "require_captured" \in c THEN v ELSE Fulfil(c, v, e)

Captured(c, w, e) ==
    LET v == [w EXCEPT !.payments[e.payment].status = "captured",
                       !.payments[e.payment].captured = e.amount]
    IN  IF "require_captured" \in c THEN Fulfil(c, v, e) ELSE v

Failed(w, e) ==
    IF w.payments[e.payment].status \in {"captured", "authorized"} THEN w
    ELSE SetStatus(w, e, "failed")

OrderPaid(c, w, e) ==
    LET orders == SetDefault(w.orders, e.order, [count |-> 0, expected |-> TRUE])
        v == [w EXCEPT !.orders = [orders EXCEPT ![e.order].expected = TRUE]]
    IN  IF "require_captured" \in c THEN v ELSE Fulfil(c, v, e)

Overdrawn(w, e) == LET pay == w.payments[e.payment]
                   IN  pay.refunded + e.amount > pay.captured

\* The event of an accepted kind changes the shop, or is rejected after all.
Process(c, w, e) ==
    CASE e.type = "payment.authorized" -> Processed(Authorized(c, w, e), e, TRUE)
      [] e.type = "payment.captured"   -> Processed(Captured(c, w, e), e, TRUE)
      [] e.type = "payment.failed"     -> Processed(Failed(w, e), e, TRUE)
      [] e.type = "order.paid"         -> Processed(OrderPaid(c, w, e), e, TRUE)
      [] e.type = "refund.processed" ->
            IF "idempotent_refunds" \in c /\ Overdrawn(w, e)
            THEN Processed(w, e, FALSE)
            ELSE Processed([w EXCEPT !.payments[e.payment].refunded = @ + e.amount,
                                     !.effects = Append(@, Effect("refund", e))], e, TRUE)
      [] e.type = "agent.purchase" ->
            IF "mandate_limits" \in c /\ w.mandateUsed THEN Processed(w, e, FALSE)
            ELSE Processed([w EXCEPT !.mandateUsed = TRUE,
                                     !.effects = Append(@, Effect("agent_purchase", e))], e, TRUE)

NewPayment(e) == [status |-> "created", captured |-> 0, refunded |-> 0, tenant |-> e.tenant]

\* One delivered event, past the controls of the shop.
Handle(c, w, e) ==
    LET seen == [w EXCEPT !.seen = @ \cup {e.id}]
    IN  IF \/ "verify_signature" \in c /\ ~e.signed
           \/ "dedupe" \in c /\ e.id \in w.seen
        THEN Processed(w, e, FALSE)
        ELSE IF "tenant_scope" \in c /\ e.tenant # w.home
             THEN Processed(seen, e, FALSE)
             ELSE Process(c, [seen EXCEPT !.payments =
                                SetDefault(@, e.payment, NewPayment(e))], e)

World(c, singleUse, events) ==
    FoldLeft(LAMBDA w, e : Handle(c, w, e), NewWorld(singleUse), events)

------------------------------------------------------------------------------
(* EVALUATORS: the invariants that a finished world violates.              *)

Fulfilments(w) == {i \in DOMAIN w.effects : w.effects[i].kind = "fulfilment"}

Twice(w, S, field) == \E i, j \in S : i # j /\ w.effects[i][field] = w.effects[j][field]

\* A plausible bug: only fulfilments are looked at.
TenantLeak_FulfilmentsOnly(w) == \E i \in Fulfilments(w) : w.effects[i].tenant # w.home

TenantLeak(w) == \E i \in DOMAIN w.effects : w.effects[i].tenant # w.home

\* A plausible bug: two is within the limit.
MandateReplayed_OffByOne(w) ==
    w.singleUse /\ Cardinality({i \in DOMAIN w.effects :
                        w.effects[i].kind = "agent_purchase"}) > 2

MandateReplayed(w) ==
    w.singleUse /\ Cardinality({i \in DOMAIN w.effects :
                        w.effects[i].kind = "agent_purchase"}) > 1

Violates(w, inv) ==
    CASE inv = "PTWIN-INV-001" -> \E i \in Fulfilments(w) :
            LET p == w.effects[i].payment
            IN  p \notin DOMAIN w.payments \/ w.payments[p].status # "captured"
      [] inv = "PTWIN-INV-002" -> Twice(w, DOMAIN w.effects, "src")
      [] inv = "PTWIN-INV-003" -> \E r \in w.processed : ~r.signed /\
            (r.accepted \/ \E i \in DOMAIN w.effects : w.effects[i].src = r.id)
      [] inv = "PTWIN-INV-004" -> \E p \in DOMAIN w.payments :
            w.payments[p].refunded > w.payments[p].captured
      [] inv = "PTWIN-INV-005" -> TenantLeak(w)
      [] inv = "PTWIN-INV-006" -> \E o \in DOMAIN w.orders :
            w.orders[o].expected /\ w.orders[o].count < 1
      [] inv = "PTWIN-INV-007" -> MandateReplayed(w)
      [] inv = "PTWIN-INV-008" -> Twice(w, Fulfilments(w), "order")

InvariantIds == {"PTWIN-INV-001", "PTWIN-INV-002", "PTWIN-INV-003", "PTWIN-INV-004",
                 "PTWIN-INV-005", "PTWIN-INV-006", "PTWIN-INV-007", "PTWIN-INV-008"}

Evaluate(w) == {inv \in InvariantIds : Violates(w, inv)}

------------------------------------------------------------------------------
(* The packs.                                                              *)

Pay(id, type, amount) ==
    [id |-> id, type |-> type, payment |-> "pay_1", order |-> "order_1",
     tenant |-> "t1", amount |-> amount, signed |-> TRUE]

Forged(e) == [e EXCEPT !.signed = FALSE]

Scenario(suite, events, mutations) ==
    [suite |-> suite, singleUse |-> FALSE, events |-> events, mutations |-> mutations]

Mutation(preset, expect) == [preset |-> preset, expect |-> expect]

ScenarioIds ==
    {"GEN-WH-DUP", "GEN-WH-BADSIG", "RZP-WH-DUP-DELIVERY", "RZP-WH-FORGED", "RZP-LATE-AUTH",
     "RZP-REFUND-CAP", "RZP-WH-REORDER", "RZP-ONE-FULFILMENT", "ISO-TENANT-B", "AGT-REPLAY"}

\* Every scenario expects no violation of the correct shop.
ScenarioOf(id) ==
    CASE id = "GEN-WH-DUP" -> Scenario("generic/webhooks",
            <<Pay("e1", "payment.captured", 5), Pay("e1", "payment.captured", 5)>>,
            {Mutation("no_dedupe", {"PTWIN-INV-002", "PTWIN-INV-008"})})
      [] id = "GEN-WH-BADSIG" -> Scenario("generic/webhooks",
            <<Forged(Pay("e2", "order.paid", 5))>>,
            {Mutation("forged_callback", {"PTWIN-INV-003", "PTWIN-INV-001"})})
      [] id = "RZP-WH-DUP-DELIVERY" -> Scenario("razorpay/core",
            <<Pay("rz1", "payment.captured", 6), Pay("rz1", "payment.captured", 6)>>,
            {Mutation("no_dedupe", {"PTWIN-INV-002", "PTWIN-INV-008"})})
      [] id = "RZP-WH-FORGED" -> Scenario("razorpay/core",
            <<Forged(Pay("rz2", "payment.captured", 6))>>,
            {Mutation("no_verify", {"PTWIN-INV-003"})})
      \* the capture has the event id of the authorization before it
      [] id = "RZP-LATE-AUTH" -> Scenario("razorpay/core",
            <<Pay("rz3", "payment.failed", 8), Pay("rz4", "payment.authorized", 8),
              Pay("rz4", "payment.captured", 8)>>,
            {Mutation("fulfil_on_authorized", {"PTWIN-INV-001"})})
      [] id = "RZP-REFUND-CAP" -> Scenario("razorpay/core",
            <<Pay("rz5", "payment.captured", 5), Pay("rz6", "refund.processed", 12)>>,
            {Mutation("refund_over_capture", {"PTWIN-INV-004"})})
      [] id = "RZP-WH-REORDER" -> Scenario("razorpay/core",
            <<Pay("rz8", "payment.captured", 4), Pay("rz7", "payment.authorized", 4),
              Pay("rz9", "order.paid", 4)>>, {})
      [] id = "RZP-ONE-FULFILMENT" -> Scenario("razorpay/core",
            <<Pay("rz10", "payment.captured", 4),
              [Pay("rz11", "payment.captured", 4) EXCEPT !.payment = "pay_2"]>>,
            {Mutation("duplicate_fulfilment", {"PTWIN-INV-008"})})
      [] id = "ISO-TENANT-B" -> Scenario("paytwin/isolation",
            <<[Pay("t9", "payment.captured", 1) EXCEPT !.tenant = "tB"]>>,
            {Mutation("cross_tenant_blind", {"PTWIN-INV-005"})})
      [] id = "AGT-REPLAY" -> [Scenario("paytwin/agentic",
            <<Pay("a1", "agent.purchase", 2), Pay("a2", "agent.purchase", 2)>>,
            {Mutation("mandate_limits_off", {"PTWIN-INV-007"})}) EXCEPT !.singleUse = TRUE]

Scenarios == [id \in ScenarioIds |-> ScenarioOf(id)]

Suites == {Scenarios[id].suite : id \in DOMAIN Scenarios}

RunScenario(sc, preset) == Evaluate(World(Preset(preset), sc.singleUse, sc.events))

------------------------------------------------------------------------------
(* The verdict on a suite and the release gate.                            *)

\* _finding: a violation by the correct shop is critical, a defect that goes
\* unnoticed is high, and one that is noticed as another is medium.
Finding(id, preset, violations) ==
    [scenario |-> id, fixture |-> preset,
     severity |-> IF preset = "correct" THEN "critical"
                  ELSE IF violations = {} THEN "high" ELSE "medium"]

ExecuteSuite(suite) ==
    UNION {LET sc == Scenarios[id] IN
           {Finding(id, "correct", v) : v \in {RunScenario(sc, "correct")} \ {{}}}
           \cup {Finding(id, m.preset, RunScenario(sc, m.preset)) :
                    m \in {n \in sc.mutations : RunScenario(sc, n.preset) # n.expect}} :
           id \in {i \in DOMAIN Scenarios : Scenarios[i].suite = suite}}

Gate(findings) ==
    LET severities == {f.severity : f \in findings}
    IN  IF "critical" \in severities THEN "BLOCKED"
        ELSE IF severities # {} THEN "WARNING" ELSE "READY"

\* _proof_flow: both stages of the guided proof return instead of raising, given
\* the worlds of the broken and the correct shop.
ProofFlowReturns(broken, correct) ==
    /\ "PTWIN-INV-008" \in Evaluate(broken)
    /\ Evaluate(correct) = {}
    /\ Len(correct.effects) = 1

\* The scenarios of the webhook lab.
WebhookFaults == {"GEN-WH-DUP", "GEN-WH-BADSIG", "RZP-WH-REORDER"}

==============================================================================
