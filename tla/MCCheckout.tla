----------------------------- MODULE MCCheckout -----------------------------
(***************************************************************************)
(* Checkout on a small instance: two orders and a payment of each, one of  *)
(* which is refunded in full.                                              *)
(***************************************************************************)
EXTENDS Checkout, TLC

CONSTANTS p1, p2, o1, o2, g1, r1, k1, k2, h1, h2

\* A payment event of payment p, which is worth 1.
Pay(type, p, o) ==
    [type |-> type, payment |-> p, amount |-> 1, paymentAmount |-> 0,
     orderAmount |-> 1, order |-> o, group |-> g1, link |-> FALSE,
     refund |-> None, refundStatus |-> None]

\* The full refund of p1.
FullRefund ==
    [Pay("refund.created", p1, o1) EXCEPT !.refund = r1, !.refundStatus = "processed"]

\* A payment may be captured before the order it is for is known.
CheckoutEvents ==
    {Pay("payment.success", p1, o1),
     FullRefund,
     Pay("payment.success", p2, None),
     Pay("order.paid", p2, o2)}

OrderOfPayment == {<<o1, p1>>, <<o2, p2>>}

\* Keys and request handlers are interchangeable.
Symmetry == Permutations(IdempotencyKeys) \cup Permutations(Handlers)

==============================================================================
