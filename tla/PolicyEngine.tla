---------------------------- MODULE PolicyEngine -----------------------------
(***************************************************************************)
(* The deterministic policy engine: services/policy.py.  Pure operators:   *)
(* the effective rules of a merchant, the validation of saved rules and    *)
(* the verdict on an action.                                               *)
(*                                                                         *)
(* A rule set is a record over some of the rule ids; amounts are counted   *)
(* in units of 1000 rupees and the other numbers as in the code.  Texts of *)
(* reasons and the label's suffix are left out, and so are values of a     *)
(* wrong type, which validate_rules refuses like values out of range.      *)
(***************************************************************************)
EXTENDS Integers, FiniteSets, Sequences, SequencesExt, TLC

CONSTANT Merchants      \* those the policies are kept for

\* The kinds of action that are proposed or modelled (contracts' ActionKind).
ContactActions == {"payment_link", "notify_customer", "calendar_shift"}
MoneyActions   == {"retry_burst", "reroute_psp", "payment_link", "calendar_shift"}
ActionKinds    == ContactActions \cup MoneyActions

\* AutonomyMode.
ApproveFirst     == 2
BoundedAutopilot == 3
Autonomous       == 4
Modes            == 0 .. Autonomous

DefaultRules ==
    [max_attempts |-> 3, amount_cap |-> 5, contact_budget_ok |-> 2, cooldown_ok |-> 30,
     provider_healthy |-> TRUE, consent_on_file |-> TRUE, within_mandate_window |-> TRUE,
     agent_authority_verified |-> TRUE, dnd_window_ok |-> [start_hour |-> 21, end_hour |-> 9]]

\* The first rules, and the others where the first say nothing.
Overriding(rules, others) ==
    [id \in DOMAIN rules \cup DOMAIN others |-> IF id \in DOMAIN rules THEN rules[id] ELSE others[id]]

MergeRules(rules) == Overriding(rules, DefaultRules)

------------------------------------------------------------------------------
(* The rules in force.                                                     *)

\* A policies row: [human, version, status, rules].  Human ids are compared as
\* strings, so RP-10 comes before RP-7.
HumanBefore(m, n) ==
    LET scaled(k) == IF k < 10 THEN 100 * k ELSE IF k < 100 THEN 10 * k ELSE k
    IN  \/ scaled(m) < scaled(n)
        \/ scaled(m) = scaled(n) /\ m < n

\* The latest of the live versions of each policy.
LiveRows(rows) ==
    LET live == {r \in rows : r.status = "live"}
    IN  {r \in live : \A s \in live : s.human = r.human => s.version <= r.version}

\* Later policies override earlier ones; rules of the merchant's own config
\* are used where no policy speaks.
ActiveRules(rows, legacy) ==
    LET live    == LiveRows(rows)
        says(id) == {r \in live : id \in DOMAIN r.rules}
        last(id) == CHOOSE r \in says(id) : \A q \in says(id) \ {r} : HumanBefore(q.human, r.human)
        merged  == [id \in UNION {DOMAIN r.rules : r \in live} |-> last(id).rules[id]]
    IN  MergeRules(Overriding(merged, legacy))

\* The versions that have contributed: the label of a decision.
ActiveLabel(rows) == {<<r.human, r.version>> : r \in LiveRows(rows)}

Bounds ==
    [max_attempts |-> 1 .. 10, amount_cap |-> 1 .. 100, contact_budget_ok |-> 0 .. 10,
     cooldown_ok |-> 0 .. 1440]

Windows == [start_hour : 0 .. 23, end_hour : 0 .. 23]

\* validate_rules: known rules with values in range.
ValidRules(rules) ==
    \A id \in DOMAIN rules :
        /\ id \in DOMAIN DefaultRules
        /\ id \in DOMAIN Bounds => rules[id] \in Bounds[id]
        /\ id = "dnd_window_ok" => /\ rules[id] \in Windows
                                   /\ rules[id].start_hour # rules[id].end_hour

------------------------------------------------------------------------------
(* The verdict.  A context is a record [mode, kind, amount, attempts,      *)
(* contacts, minutes, healthy, consent, mandate, authority, hour].         *)

Quiet(window, hour) ==
    IF window.start_hour > window.end_hour
    THEN hour >= window.start_hour \/ hour < window.end_hour
    ELSE window.start_hour <= hour /\ hour < window.end_hour

\* The rules about reaching a customer that are violated.
Contacts(rules, ctx) ==
    {id \in {"contact_budget_ok", "dnd_window_ok"} :
        IF id = "contact_budget_ok" THEN ctx.contacts >= rules.contact_budget_ok
                                    ELSE Quiet(rules.dnd_window_ok, ctx.hour)}

\* The rules that ask for evidence of a fact and do not have it.
Unproven(rules, ctx) ==
    {id \in {"provider_healthy", "consent_on_file", "within_mandate_window",
             "agent_authority_verified"} :
        /\ rules[id]
        /\ CASE id = "provider_healthy"         -> ~ctx.healthy
             [] id = "consent_on_file"          -> ctx.kind \in ContactActions /\ ~ctx.consent
             [] id = "within_mandate_window"    -> ctx.kind = "calendar_shift" /\ ~ctx.mandate
             [] id = "agent_authority_verified" -> ctx.kind \in MoneyActions /\ ~ctx.authority}

FailedRules(rules, ctx) ==
    {id \in {"max_attempts"} : ctx.attempts >= rules.max_attempts}
    \cup {id \in {"amount_cap"} : ctx.amount > rules.amount_cap}
    \cup {id \in {"cooldown_ok"} : ctx.minutes < rules.cooldown_ok}
    \cup Unproven(rules, ctx)
    \cup (IF ctx.kind \in ContactActions THEN Contacts(rules, ctx) ELSE {})

\* A plausible bug: the whole cap is left to the bounded autopilot.
Ladder_WholeCap(rules, ctx) ==
    IF ctx.kind \notin MoneyActions \/ ctx.mode >= BoundedAutopilot
    THEN "allow" ELSE "require_approval"

\* What may be done without a human, once no rule is violated.
Ladder(rules, ctx) ==
    IF \/ ctx.kind \notin MoneyActions
       \/ ctx.mode >= Autonomous
       \/ ctx.mode = BoundedAutopilot /\ 2 * ctx.amount <= rules.amount_cap
    THEN "allow" ELSE "require_approval"

Evaluate(rules, ctx) ==
    IF FailedRules(rules, ctx) # {} THEN "block" ELSE Ladder(rules, ctx)

==============================================================================
