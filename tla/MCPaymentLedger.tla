--------------------------- MODULE MCPaymentLedger ---------------------------
(***************************************************************************)
(* PaymentLedger and its history on a small instance.                      *)
(***************************************************************************)
EXTENDS LedgerHistory

CONSTANTS p1, p2, o1, g1, g2, r1, r2, r3

\* A payment event of payment p, which is worth 3 and belongs to order o1.
Pay(type, p, o, g) ==
    [type |-> type, payment |-> p, amount |-> 3, paymentAmount |-> 0,
     orderAmount |-> 3, order |-> o, group |-> g, link |-> FALSE,
     refund |-> None, refundStatus |-> None]

\* A refund event, with the payment entity Razorpay sends along or without it.
Ref(type, p, r, amount, status, snapshot) ==
    [type |-> type, payment |-> p, amount |-> amount, paymentAmount |-> snapshot,
     orderAmount |-> snapshot, order |-> o1, group |-> g1, link |-> FALSE,
     refund |-> r, refundStatus |-> status]

\* Two attempts at one order.  The first sees its lifecycle, two refunds of which
\* one does not always fit beside the other, a refund that fails after it was
\* processed, and one whose amount changes.  The second is captured by a payment
\* link of another group, and a refund of it may be the first that is heard of it,
\* without the payment it refunds.
LedgerEvents ==
    {Pay("payment.authorized", p1, None, g1),
     Pay("payment.failed", p1, o1, g1),
     Pay("payment.success", p1, o1, g1),
     Pay("order.paid", p1, o1, g1),
     Ref("refund.created", p1, r1, 1, "processed", 3),
     Ref("refund.created", p1, r1, 2, "processed", 3),
     Ref("refund.failed", p1, r1, 1, "failed", 3),
     Ref("refund.created", p1, r2, 2, "processed", 3),
     Ref("refund.updated", p1, r2, 2, "processed", 3),
     [Pay("payment.success", p2, o1, g2) EXCEPT !.link = TRUE],
     Ref("refund.created", p2, r3, 2, "processed", 0)}

\* A refund that is first pending and then processed, of a captured payment.
PendingRefundEvents == {Pay("payment.success", p1, o1, g1),
                        Ref("refund.created", p1, r1, 1, "pending", 3),
                        Ref("refund.created", p1, r1, 1, "processed", 3)}

==============================================================================
