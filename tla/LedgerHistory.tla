---------------------------- MODULE LedgerHistory ----------------------------
(***************************************************************************)
(* PaymentLedger with a history of which provider deliveries have been     *)
(* applied.  The inbox applies a delivery once; here a second application  *)
(* of equal content stands for the distinct webhook deliveries by which a  *)
(* provider repeats itself.                                                *)
(***************************************************************************)
EXTENDS PaymentLedger

VARIABLE delivered      \* the events applied so far

historyVars == <<vars, delivered>>

HistoryInit == Init /\ delivered = {}

HistoryNext == \E e \in Events : ApplyEvent(e) /\ delivered' = delivered \cup {e}

HistorySpec == HistoryInit /\ [][HistoryNext]_historyVars

------------------------------------------------------------------------------

\* Whatever precedes or follows it, a capture signal is never lost and nothing
\* else captures a payment: the order of arrival does not matter to the state
\* (PTWIN-INV-006, for the capture).
CaptureNeverLost ==
    \A p \in Payments :
        Captured(p) <=> \E e \in delivered : e.payment = p /\ e.type \in CaptureTypes

\* "Settle held provider refunds once their payment has become captured"
\* (reconcile_pending_refunds): once its payment is captured, a refund the
\* provider reported processed has been credited or rejected.
ProcessedRefundsSettled ==
    \A e \in delivered :
        /\ e.type \in RefundTypes
        /\ RefundStatusOf(e) = "processed"
        /\ Captured(e.payment)
        => refund[e.refund].status \in {"processed", "rejected"}

==============================================================================
