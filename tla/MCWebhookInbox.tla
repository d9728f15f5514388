---------------------------- MODULE MCWebhookInbox ----------------------------
(***************************************************************************)
(* WebhookInbox on a small instance: three deliveries about one payment,   *)
(* one of them direct, two requests at a time and two workers.             *)
(***************************************************************************)
EXTENDS WebhookInbox

CONSTANTS d1, d2, d3, p1

OnePayment == [d \in Deliveries |-> p1]

==============================================================================
