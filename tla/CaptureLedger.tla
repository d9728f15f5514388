---------------------------- MODULE CaptureLedger ----------------------------
(***************************************************************************)
(* What the ledger promises about money, whatever the provider delivers: a *)
(* payment becomes known with an amount, which never changes; it is        *)
(* captured once and for good; and a captured payment is refunded, in      *)
(* steps, up to its amount.  PaymentLedger implements this module.         *)
(***************************************************************************)
EXTENDS Naturals

CONSTANT Payments

VARIABLE money      \* phase, amount and refunded total of every payment

Phases == {"unknown", "open", "captured"}

Init == money = [p \in Payments |->
                   [phase |-> "unknown", amount |-> 0, refunded |-> 0]]

OnlyChanges(p) ==
    \E row \in {money'[p]} : money' = [money EXCEPT ![p] = row]

\* A payment becomes known, with its amount, and nothing of it is refunded.
Learn(p) ==
    /\ money[p].phase = "unknown"
    /\ OnlyChanges(p)
    /\ money'[p].phase = "open"
    /\ money'[p].amount \in Nat
    /\ money'[p].refunded = 0

\* A payment is captured, known before or not; refunds that the provider
\* reported earlier may be credited with it.
Capture(p) ==
    /\ money[p].phase # "captured"
    /\ OnlyChanges(p)
    /\ money'[p].phase = "captured"
    /\ money'[p].amount \in Nat
    /\ money[p].phase = "open" => money'[p].amount = money[p].amount
    /\ money'[p].refunded \in 0 .. money'[p].amount

\* More of a captured payment is refunded, never beyond its amount.
Credit(p) ==
    /\ money[p].phase = "captured"
    /\ OnlyChanges(p)
    /\ money'[p].phase = "captured"
    /\ money'[p].amount = money[p].amount
    /\ money'[p].refunded \in money[p].refunded .. money[p].amount

Next == \E p \in Payments : Learn(p) \/ Capture(p) \/ Credit(p)

Spec == Init /\ [][Next]_money

==============================================================================
