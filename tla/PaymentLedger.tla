---------------------------- MODULE PaymentLedger ----------------------------
(***************************************************************************)
(* The payment state machine of services/state_machine.py: how one         *)
(* canonical event changes the payments, orders and refunds tables.        *)
(*                                                                         *)
(* apply_event runs in one database transaction and takes the payment row  *)
(* FOR UPDATE before it reads it, so the application of one event is one   *)
(* step here.  Nothing constrains the order in which events are applied:   *)
(* providers deliver late and out of order, and that is what the           *)
(* properties are about.                                                   *)
(*                                                                         *)
(* Times, cohort dimensions, failure classes and currencies are left out:  *)
(* no branch that a provider event can reach depends on them.              *)
(***************************************************************************)
EXTENDS Naturals, Sequences, FiniteSetsExt

CONSTANTS
    Payments,       \* payment references of one merchant and provider
    Orders,         \* order references
    Groups,         \* retry groups (group_id)
    Refunds,        \* refund references
    Provider,       \* the provider's name: "razorpay", "simulator", ...
    None,           \* an absent reference or status
    Events          \* the canonical events that may be applied

PaymentTypes == {"payment.created", "payment.authorized", "payment.timeout",
                 "payment.failed", "payment.success", "order.paid"}
CaptureTypes == {"payment.success", "order.paid"}
RefundTypes  == {"refund.created", "refund.failed", "refund.updated"}

PaymentStatuses == {"absent", "created", "authorized", "timeout", "failed",
                    "success", "refunded"}
CapturedStatuses == {"success", "refunded"}

\* The refund_status values a provider sends; "unknown" stands for any other.
ProviderRefundStatuses == {"created", "pending", "updated", "processed",
                           "failed", "unknown"}
RefundStatuses == ProviderRefundStatuses
                    \cup {"absent", "pending_reconciliation", "rejected"}

(***************************************************************************)
(* A canonical event: its type, the payment it names, amount_paise (the    *)
(* payment's amount, or the refund's for a refund event), and the payload  *)
(* fields the state machine reads.  A zero amount or None is a missing     *)
(* field; link says that the payload names a payment link.                 *)
(***************************************************************************)
CanonicalEvent ==
    [type : PaymentTypes \cup RefundTypes, payment : Payments, amount : Nat,
     paymentAmount : Nat, orderAmount : Nat, order : Orders \cup {None},
     group : Groups, link : BOOLEAN, refund : Refunds \cup {None},
     refundStatus : ProviderRefundStatuses \cup {None}]

ASSUME EventsAssumption ==
    /\ None \notin Orders \cup Groups \cup Refunds \cup Payments
    /\ None \notin ProviderRefundStatuses
    /\ Events \subseteq CanonicalEvent
    /\ \A e \in Events : e.type \in RefundTypes => e.refund \in Refunds
    \* a provider's refund id names one refund of one payment
    /\ \A e, f \in Events :
          e.refund # None /\ e.refund = f.refund => e.payment = f.payment

VARIABLES
    payment,    \* the payments table, by reference; "absent": no row
    order,      \* the orders table, by reference
    refund,     \* the refunds table, by reference
    arrival     \* refund references in the order their rows were created

vars == <<payment, order, refund, arrival>>

PaymentRow == [status : PaymentStatuses, amount : Nat,
               order : Orders \cup {None}, group : Groups \cup {None},
               refunded : Nat, recovered : BOOLEAN]
OrderRow   == [status : {"absent", "created", "paid"}, amount : Nat, paid : Nat]
RefundRow  == [status : RefundStatuses, payment : Payments \cup {None},
               amount : Nat]

NoPayment == [status |-> "absent", amount |-> 0, order |-> None,
              group |-> None, refunded |-> 0, recovered |-> FALSE]
NoOrder   == [status |-> "absent", amount |-> 0, paid |-> 0]
NoRefund  == [status |-> "absent", payment |-> None, amount |-> 0]

Init ==
    /\ payment = [p \in Payments |-> NoPayment]
    /\ order   = [o \in Orders |-> NoOrder]
    /\ refund  = [r \in Refunds |-> NoRefund]
    /\ arrival = <<>>

------------------------------------------------------------------------------
(* The lifecycle of a payment.                                             *)

Target(type) ==
    CASE type = "payment.created"    -> "created"
      [] type = "payment.authorized" -> "authorized"
      [] type = "payment.timeout"    -> "timeout"
      [] type = "payment.failed"     -> "failed"
      [] type \in CaptureTypes       -> "success"

Allowed(status) ==
    CASE status = "created"    -> {"authorized", "timeout", "failed", "success"}
      [] status = "authorized" -> {"timeout", "failed", "success"}
      [] status = "timeout"    -> {"authorized", "failed", "success"}
      [] status = "failed"     -> {"authorized", "success"}
      [] OTHER                 -> {}

\* A plausible bug: success treated as the failures are, open to regression.
CanTransition_Regress(status, target) ==
    \/ target = status
    \/ target \in Allowed(status)
    \/ status = "success" /\ target = "failed"

CanTransition(status, target) ==
    \/ target = status
    \/ target \in Allowed(status)

\* A plausible bug: a missing amount is stored as missing.
Or_Missing(x, y) == IF x # 0 THEN x ELSE None

Or(x, y) == IF x # 0 THEN x ELSE y

\* A plausible bug: the last event decides the order of a known payment.
Ensured_Relinks(e) ==
    LET old == payment[e.payment]
    IN  IF old.status = "absent"
        THEN [status |-> "created", amount |-> Or(e.paymentAmount, e.amount),
              order |-> e.order, group |-> e.group, refunded |-> 0,
              recovered |-> FALSE]
        ELSE [old EXCEPT !.order = e.order, !.group = IF e.link THEN e.group ELSE @]

\* The payment row an event works on, created or completed by the event.
Ensured(e) ==
    LET old  == payment[e.payment]
        base == IF old.status = "absent"
                THEN [status |-> "created", amount |-> Or(e.paymentAmount, e.amount),
                      order |-> e.order, group |-> e.group, refunded |-> 0,
                      recovered |-> FALSE]
                ELSE IF old.order = None THEN [old EXCEPT !.order = e.order]
                     ELSE old
    IN  IF e.link THEN [base EXCEPT !.group = e.group] ELSE base

\* The order an event is about: its own, or the one its payment is linked to.
OrderOf(e) == IF e.order # None THEN e.order ELSE Ensured(e).order

EnsuredOrder(e, o) ==
    LET amount == Ensured(e).amount
    IN  IF order[o].status = "absent"
        THEN [NoOrder EXCEPT !.status = "created",
                             !.amount = Or(e.orderAmount, amount)]
        ELSE [order[o] EXCEPT !.amount = Or(@, amount)]

EnsureOrder(e) ==
    order' = [o \in Orders |-> IF o = OrderOf(e) THEN EnsuredOrder(e, o)
                                                 ELSE order[o]]

------------------------------------------------------------------------------
(* Refunds.                                                                *)

Fits(total, amount, cap) == total + amount <= cap

\* A provider refund held until its payment is captured.
Held(r, p) == /\ refund[r].status = "pending_reconciliation"
              /\ refund[r].payment = p

\* The refunded total of a payment row after each held refund, oldest first,
\* has been settled or rejected.
RunningTotal(p, row) ==
    LET total[i \in 0 .. Len(arrival)] ==
            IF i = 0 THEN row.refunded
            ELSE IF /\ Held(arrival[i], p)
                    /\ Fits(total[i-1], refund[arrival[i]].amount, row.amount)
                 THEN total[i-1] + refund[arrival[i]].amount
                 ELSE total[i-1]
    IN  total

\* The held refunds that settling the payment credits; it rejects the others.
Settleable(p, row) ==
    {arrival[i] : i \in {j \in 1 .. Len(arrival) :
        /\ Held(arrival[j], p)
        /\ Fits(RunningTotal(p, row)[j-1], refund[arrival[j]].amount, row.amount)}}

\* A plausible bug: the totals are settled and the rows stay held.
SettleHeld_KeepsRows(p, row) == UNCHANGED refund

SettleHeld(p, row) ==
    refund' = [r \in Refunds |->
                 IF ~Held(r, p) THEN refund[r]
                 ELSE [refund[r] EXCEPT !.status =
                        IF r \in Settleable(p, row) THEN "processed" ELSE "rejected"]]

\* A plausible bug: refunds are settled and the payment's total is not written.
AfterSettling_StaleTotal(p, row) == row

\* The payment row once its held refunds are settled.
AfterSettling(p, row) ==
    LET total == RunningTotal(p, row)[Len(arrival)]
    IN  [row EXCEPT !.refunded = total,
                    !.status = IF Settleable(p, row) # {} /\ total = row.amount
                               THEN "refunded" ELSE @]

\* Whether the repair sweep of the worker would find something to settle.
SweepHasWork(p) ==
    /\ payment[p].status \in CapturedStatuses
    /\ \E r \in Refunds : Held(r, p)

RefundStatusOf(e) ==
    CASE e.type = "refund.failed"  -> "failed"
      [] e.type = "refund.updated" -> "updated"
      [] e.type = "refund.created" ->
            IF e.refundStatus # None THEN e.refundStatus
            ELSE IF Provider = "razorpay" THEN "created" ELSE "processed"

\* The refund row an event works on, created by the event when it is new.
EnsuredRefund(e) ==
    IF refund[e.refund].status # "absent" THEN refund[e.refund]
    ELSE [status |-> "created", payment |-> e.payment, amount |-> e.amount]

------------------------------------------------------------------------------
(* apply_event: one action per way an event can end.                       *)

\* The event may not change this payment's state: only the row it names is
\* completed, and the order and the refunds are not looked at.
LateEvent(e) ==
    /\ e.type \in PaymentTypes
    /\ ~CanTransition(Ensured(e).status, Target(e.type))
    /\ payment' = [payment EXCEPT ![e.payment] = Ensured(e)]
    /\ UNCHANGED <<order, refund, arrival>>

\* The payment moves along its lifecycle, short of capture.
ProgressEvent(e) ==
    /\ e.type \in PaymentTypes \ CaptureTypes
    /\ CanTransition(Ensured(e).status, Target(e.type))
    /\ payment' = [payment EXCEPT ![e.payment] =
                     [Ensured(e) EXCEPT !.status = Target(e.type)]]
    /\ EnsureOrder(e)
    /\ UNCHANGED <<refund, arrival>>

\* The payments that payment.success marks recovered: those stored under the
\* event's group when the status changes.  The session does not flush before
\* the bulk update, so a group changed by this very event is not seen.
NewlyRecovered(e) ==
    IF e.type # "payment.success" \/ Ensured(e).status = "success" THEN {}
    ELSE {p \in Payments :
            LET stored == IF payment[p].status = "absent" /\ p = e.payment
                          THEN e.group ELSE payment[p].group
            IN  stored = Ensured(e).group}

\* The payment is captured: held refunds are settled and the order is paid.
CaptureEvent(e) ==
    LET p    == e.payment
        row  == [Ensured(e) EXCEPT !.status = "success"]
        done == AfterSettling(p, row)
    IN  /\ e.type \in CaptureTypes
        /\ CanTransition(Ensured(e).status, Target(e.type))
        /\ payment' = [q \in Payments |->
                [(IF q = p THEN done ELSE payment[q]) EXCEPT
                    !.recovered = @ \/ q \in NewlyRecovered(e)]]
        /\ order' = [o \in Orders |->
                IF o # OrderOf(e) THEN order[o]
                ELSE [EnsuredOrder(e, o) EXCEPT
                        !.status = "paid",
                        !.paid = IF @ < row.amount THEN row.amount ELSE @]]
        /\ SettleHeld(p, row)
        /\ UNCHANGED arrival

\* What every refund event does before its status is looked at.
RefundArrives(e) ==
    /\ e.type \in RefundTypes
    /\ EnsureOrder(e)
    /\ arrival' = IF refund[e.refund].status = "absent"
                  THEN Append(arrival, e.refund) ELSE arrival

SetRefund(e, status) ==
    refund' = [refund EXCEPT ![e.refund] = [EnsuredRefund(e) EXCEPT !.status = status]]

\* The amount of a known refund may not change.
RefundAmountChanged(e) ==
    /\ RefundArrives(e)
    /\ EnsuredRefund(e).amount # e.amount
    /\ payment' = [payment EXCEPT ![e.payment] = Ensured(e)]
    /\ SetRefund(e, "rejected")

\* A status that credits nothing.  A failure or an unknown status replaces
\* whatever the row says, the others do not replace "processed".
RefundNoted(e) ==
    LET status == RefundStatusOf(e)
    IN  /\ RefundArrives(e)
        /\ EnsuredRefund(e).amount = e.amount
        /\ status # "processed"
        /\ payment' = [payment EXCEPT ![e.payment] = Ensured(e)]
        /\ SetRefund(e, IF /\ status \in {"created", "pending", "updated"}
                           /\ EnsuredRefund(e).status = "processed"
                        THEN "processed" ELSE status)

ProcessedRefund(e) ==
    /\ RefundArrives(e)
    /\ EnsuredRefund(e).amount = e.amount
    /\ RefundStatusOf(e) = "processed"

\* A redelivery of a processed refund: no second credit.
RefundRepeated(e) ==
    /\ ProcessedRefund(e)
    /\ EnsuredRefund(e).status = "processed"
    /\ payment' = [payment EXCEPT ![e.payment] = Ensured(e)]
    /\ UNCHANGED refund

\* A processed refund of a payment that is not captured yet is held.
RefundHeld(e) ==
    /\ ProcessedRefund(e)
    /\ EnsuredRefund(e).status # "processed"
    /\ Ensured(e).status \notin CapturedStatuses
    /\ payment' = [payment EXCEPT ![e.payment] = Ensured(e)]
    /\ SetRefund(e, "pending_reconciliation")

Credited(row, amount) ==
    [row EXCEPT !.refunded = @ + amount,
                !.status = IF row.refunded + amount = row.amount
                           THEN "refunded" ELSE @]

\* A processed refund of a captured payment is credited, if it fits.
RefundSettled(e) ==
    LET row  == Ensured(e)
        fits == Fits(row.refunded, EnsuredRefund(e).amount, row.amount)
    IN  /\ ProcessedRefund(e)
        /\ EnsuredRefund(e).status # "processed"
        /\ row.status \in CapturedStatuses
        /\ payment' = [payment EXCEPT ![e.payment] =
                IF fits THEN Credited(row, EnsuredRefund(e).amount) ELSE row]
        /\ SetRefund(e, IF fits THEN "processed" ELSE "rejected")

ApplyEvent(e) ==
    \/ LateEvent(e)
    \/ ProgressEvent(e)
    \/ CaptureEvent(e)
    \/ RefundAmountChanged(e)
    \/ RefundNoted(e)
    \/ RefundRepeated(e)
    \/ RefundHeld(e)
    \/ RefundSettled(e)

Next == \E e \in Events : ApplyEvent(e)

Spec == Init /\ [][Next]_vars

------------------------------------------------------------------------------
(* Properties.                                                             *)

\* Every table holds rows of its type, and arrival lists the refund rows.
TypeOK ==
    /\ payment \in [Payments -> PaymentRow]
    /\ order \in [Orders -> OrderRow]
    /\ refund \in [Refunds -> RefundRow]
    /\ arrival \in Seq(Refunds)

Captured(p) == payment[p].status \in CapturedStatuses

\* Whatever events arrive, in whatever order and however often, a payment is
\* never refunded beyond its amount, and nothing is refunded on a payment that
\* was not captured (_settle_refund; PTWIN-INV-004).
RefundsWithinCapture ==
    \A p \in Payments :
        /\ payment[p].refunded <= payment[p].amount
        /\ payment[p].refunded > 0 => Captured(p)

\* A payment of a positive amount is "refunded" exactly when it is refunded in
\* full: inline credits and the settlement of held refunds agree on it.
RefundedMeansInFull ==
    \A p \in Payments :
        /\ payment[p].status = "refunded" => payment[p].refunded = payment[p].amount
        /\ payment[p].refunded = payment[p].amount /\ payment[p].amount > 0
              => payment[p].status = "refunded"

\* The amounts of some refunds, taken together.
AmountsOf(refunds) == SumFunctionOnSet([r \in Refunds |-> refund[r].amount], refunds)

ProcessedOf(p) == {r \in Refunds : /\ refund[r].payment = p
                                   /\ refund[r].status = "processed"}

\* No processed refund is missing from its payment's aggregate: the aggregate
\* covers the processed rows.  (That it is not larger is another question, see
\* RefundAppliedOnce.)
AggregateCoversProcessed ==
    \A p \in Payments : AmountsOf(ProcessedOf(p)) <= payment[p].refunded

\* A refund is held only while its payment is not captured: every way a payment
\* becomes captured settles what was held, so the repair sweep of the worker
\* finds nothing to do (reconcile_pending_refunds).
NothingLeftHeld == \A p \in Payments : ~SweepHasWork(p)

\* A paid order was paid by a captured payment of that order, in its amount.
PaidOrderWasCaptured ==
    \A o \in Orders : order[o].status = "paid" =>
        \E p \in Payments : /\ Captured(p)
                            /\ payment[p].order = o
                            /\ payment[p].amount = order[o].paid

\* A captured payment stays captured, a refunded one refunded; a row keeps its
\* amount and its order, and neither the refunded total nor the amount paid on
\* an order ever falls (the module's "immutable success/refund state").
CaptureIsFinal ==
    [][/\ \A p \in Payments :
            /\ Captured(p) => Captured(p)'
            /\ payment[p].status = "refunded" => payment'[p].status = "refunded"
            /\ payment[p].status # "absent" => payment'[p].amount = payment[p].amount
            /\ payment[p].order # None => payment'[p].order = payment[p].order
            /\ payment[p].refunded <= payment'[p].refunded
       /\ \A o \in Orders : order[o].paid <= order'[o].paid]_vars

\* The ledger as the money it accounts for: the abstract specification's state.
Money == [p \in Payments |->
            [phase |-> IF payment[p].status = "absent" THEN "unknown"
                       ELSE IF Captured(p) THEN "captured" ELSE "open",
             amount |-> payment[p].amount, refunded |-> payment[p].refunded]]

Abstract == INSTANCE CaptureLedger WITH money <- Money

\* Every step of the state machine is a step of the abstract ledger, or leaves
\* the money alone: amounts are fixed when a payment becomes known, capture is
\* for good, and only a captured payment is refunded, up to its amount.
ImplementsCaptureLedger == Abstract!Spec

\* A payment's refunded total never exceeds the refunds known for it: a provider
\* refund is credited at most once ("Apply one provider refund exactly once").
RefundAppliedOnce ==
    \A p \in Payments :
        payment[p].refunded <= AmountsOf({r \in Refunds : refund[r].payment = p})

==============================================================================
