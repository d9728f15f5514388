---------------------------- MODULE MCSafetyWorld ----------------------------
(***************************************************************************)
(* Shops on a small instance.                                              *)
(***************************************************************************)
EXTENDS Shops

\* What may happen to two payments of one order, a forged and a foreign event,
\* and two purchases of an agent.
AnyEvents ==
    {Pay("x1", "payment.captured", 2),
     [Pay("x2", "payment.captured", 2) EXCEPT !.payment = "pay_2"],
     Pay("x3", "payment.authorized", 2), Pay("x4", "payment.failed", 2),
     Pay("x5", "order.paid", 2), Pay("x6", "refund.processed", 1),
     Pay("x7", "refund.processed", 2), Forged(Pay("x8", "payment.captured", 2)),
     [Pay("x9", "refund.processed", 1) EXCEPT !.tenant = "tB"],
     Pay("x10", "agent.purchase", 1), Pay("x11", "agent.purchase", 1),
     [Pay("x12", "payment.captured", 1) EXCEPT !.payment = "pay_3", !.order = "order_2"]}

==============================================================================
