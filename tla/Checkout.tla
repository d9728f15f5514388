------------------------------- MODULE Checkout -------------------------------
(***************************************************************************)
(* From a paid order to its one fulfilment: checkout_verification.py,      *)
(* record_fulfilment of state_machine.py and the routes of                 *)
(* routers/checkout.py, on the tables of PaymentLedger while provider      *)
(* events go on changing them.                                             *)
(*                                                                         *)
(* The browser's callback names an order and a payment and carries a       *)
(* signature of the two; verified, it leaves a proof.  A fulfilment needs  *)
(* a proof of the order and is made under a lock on the order.  What a     *)
(* request has read before its last query may be out of date.              *)
(***************************************************************************)
EXTENDS PaymentLedger

CONSTANTS
    Signed,         \* the pairs of order and payment the provider has signed
    IdempotencyKeys,
    Handlers        \* request handlers

VARIABLES
    proof,          \* the checkout_verifications row of each payment reference
    latest,         \* of the verified proofs of each order, the one verified last
    fulfilment,     \* the fulfilments row of each order
    confirmed,      \* pairs for which a callback was answered "verified"
    handler         \* each request: its callback and the row it has read

evidence     == <<proof, latest, fulfilment, confirmed>>
checkoutVars == <<vars, evidence, handler>>

ASSUME CheckoutAssumption ==
    /\ Signed \subseteq Orders \X Payments
    \* the order of a payment is the one its callback is signed for
    /\ \A e \in Events : e.order # None => <<e.order, e.payment>> \in Signed
    /\ None \notin IdempotencyKeys

\* An event carries an amount, which is positive: providers take no payments of
\* nothing.  Missing amounts of the order or the payment are zero beside it.
ASSUME AmountsAssumption == \A e \in Events : e.amount > 0

Proof      == [status : {"none", "rejected", "verified"}, order : Orders \cup {None}]
Fulfilment == [payment : Payments \cup {None}, key : IdempotencyKeys \cup {None}]
NoProof      == [status |-> "none", order |-> None]
NotFulfilled == [payment |-> None, key |-> None]

\* A request at work: its callback or its key, and the rows it has read.
Call == [phase : {"idle", "verify", "fulfil"}, order : Orders \cup {None},
         payment : Payments \cup {None}, signed : BOOLEAN,
         key : IdempotencyKeys \cup {None}, orderRow : OrderRow,
         paymentRow : PaymentRow, proofRow : Proof]

Idle == [phase |-> "idle", order |-> None, payment |-> None, signed |-> FALSE,
         key |-> None, orderRow |-> NoOrder, paymentRow |-> NoPayment,
         proofRow |-> NoProof]

CheckoutInit ==
    /\ Init
    /\ proof = [p \in Payments |-> NoProof]
    /\ latest = [o \in Orders |-> None]
    /\ fulfilment = [o \in Orders |-> NotFulfilled]
    /\ confirmed = {}
    /\ handler = [h \in Handlers |-> Idle]

\* A provider event is applied.
ProviderEvent ==
    /\ Next
    /\ UNCHANGED <<evidence, handler>>

Finish(h) == handler' = [handler EXCEPT ![h] = Idle]

------------------------------------------------------------------------------
(* verify_razorpay_checkout.                                               *)

\* A callback for a known order.  All that it reads it reads before it writes,
\* and it locks nothing.
VerifyLooks(h, o, p, signed) ==
    /\ handler[h] = Idle
    /\ order[o].status # "absent"
    /\ signed => <<o, p>> \in Signed
    /\ handler' = [handler EXCEPT ![h] =
            [Idle EXCEPT !.phase = "verify", !.order = o, !.payment = p,
                         !.signed = signed, !.orderRow = order[o],
                         !.paymentRow = payment[p], !.proofRow = proof[p]]]
    /\ UNCHANGED <<vars, evidence>>

\* The signature is right and the payment is captured, of this order and in full.
Confirms(call) ==
    /\ call.signed
    /\ call.paymentRow.status = "success"
    /\ call.paymentRow.order = call.order
    /\ call.orderRow.status = "paid"
    /\ call.orderRow.amount \in {0, call.paymentRow.amount}

\* A plausible bug: the last callback decides.
Recorded_LastCallback(old, o, valid) ==
    [status |-> IF valid THEN "verified" ELSE "rejected", order |-> o]

\* The proof after a callback: a valid one is immutable, and a rejected one that
\* becomes valid keeps the order it was first recorded for.
Recorded(old, o, valid) ==
    CASE old.status = "none" -> [status |-> IF valid THEN "verified" ELSE "rejected",
                                 order |-> o]
      [] old.status = "rejected" /\ valid -> [old EXCEPT !.status = "verified"]
      [] OTHER -> old

\* Another callback for the payment has inserted the row that was not there.
Collides(h) == handler[h].proofRow = NoProof /\ proof[handler[h].payment] # NoProof

\* The callback is judged, recorded and answered.
Verify(h) ==
    LET call  == handler[h]
        p     == call.payment
        valid == Confirms(call)
    IN  /\ call.phase = "verify" /\ ~Collides(h)
        /\ proof' = [proof EXCEPT ![p] = Recorded(@, call.order, valid)]
        /\ latest' = IF valid /\ call.proofRow.status # "verified"
                     THEN [latest EXCEPT ![proof'[p].order] = p] ELSE latest
        /\ confirmed' = IF valid THEN confirmed \cup {<<call.order, p>>} ELSE confirmed
        /\ Finish(h)
        /\ UNCHANGED <<vars, fulfilment>>

\* The insert violates the uniqueness of the row: the request fails.
VerifyCollides(h) ==
    /\ handler[h].phase = "verify" /\ Collides(h)
    /\ Finish(h)
    /\ UNCHANGED <<vars, evidence>>

------------------------------------------------------------------------------
(* record_fulfilment, by fulfil_razorpay.                                  *)

\* The row of the payment is read first.
FulfilLooks(h, p, key) ==
    /\ handler[h] = Idle
    /\ payment[p].status # "absent"
    /\ handler' = [handler EXCEPT ![h] =
            [Idle EXCEPT !.phase = "fulfil", !.payment = p, !.key = key,
                         !.paymentRow = payment[p]]]
    /\ UNCHANGED <<vars, evidence>>

\* A plausible bug: a rejected callback is proof enough.
ProofsOf_AnyStatus(o) == {p \in Payments : proof[p].order = o}

\* The latest verified proof of an order, if there is one.
ProofsOf(o) == {latest[o]} \ {None}

\* The order that the payment of the request had when it was read.
OrderRead(h) == handler[h].paymentRow.order

\* The order is locked: it is paid, and p's proof of it is of a payment of it.
MayFulfil(h, p) ==
    /\ handler[h].phase = "fulfil"
    /\ handler[h].paymentRow.status \in {"success", "refunded"}
    /\ OrderRead(h) # None
    /\ order[OrderRead(h)].status = "paid"
    /\ p \in ProofsOf(OrderRead(h))
    /\ payment[p].order = OrderRead(h)

\* A plausible bug: a fulfilment counts as another if its key is another.
Fulfilled_ByKey(h) == \E o \in Orders : fulfilment[o].key = handler[h].key

Fulfilled(h) == fulfilment[OrderRead(h)] # NotFulfilled

KeyTaken(h) == \E o \in Orders : fulfilment[o].key = handler[h].key

Fulfil(h, p) ==
    /\ MayFulfil(h, p)
    /\ ~Fulfilled(h) /\ ~KeyTaken(h)
    /\ fulfilment' = [fulfilment EXCEPT ![OrderRead(h)] = [payment |-> p, key |-> handler[h].key]]
    /\ Finish(h)
    /\ UNCHANGED <<vars, proof, latest, confirmed>>

\* The one fulfilment is answered, or the request is refused or fails.
FulfilNothing(h) ==
    /\ handler[h].phase = "fulfil"
    /\ (\E p \in Payments : MayFulfil(h, p)) => Fulfilled(h) \/ KeyTaken(h)
    /\ Finish(h)
    /\ UNCHANGED <<vars, evidence>>

CheckoutNext ==
    \/ ProviderEvent
    \/ \E h \in Handlers :
          \/ \E o \in Orders, p \in Payments, signed \in BOOLEAN : VerifyLooks(h, o, p, signed)
          \/ Verify(h)
          \/ VerifyCollides(h)
          \/ \E p \in Payments, key \in IdempotencyKeys : FulfilLooks(h, p, key)
          \/ \E p \in Payments : Fulfil(h, p)
          \/ FulfilNothing(h)

CheckoutSpec == CheckoutInit /\ [][CheckoutNext]_checkoutVars

------------------------------------------------------------------------------
(* Properties.                                                             *)

\* Every variable holds values of its type.
CheckoutTypeOK ==
    /\ TypeOK
    /\ proof \in [Payments -> Proof]
    /\ latest \in [Orders -> Payments \cup {None}]
    /\ fulfilment \in [Orders -> Fulfilment]
    /\ confirmed \subseteq Orders \X Payments
    /\ handler \in [Handlers -> Call]

\* "Record one merchant effect only after captured payment + Checkout proof"
\* (routers/checkout.py): however callbacks, fulfilments and provider events
\* interleave, the payment a fulfilment names is captured, belongs to the order,
\* covers it and was signed for it, and the order is paid.
FulfilledWasProved ==
    \A o \in Orders : fulfilment[o] # NotFulfilled =>
        LET p == fulfilment[o].payment IN
        /\ order[o].status = "paid"
        /\ Captured(p)
        /\ payment[p].order = o
        /\ payment[p].amount = order[o].amount
        /\ <<o, p>> \in Signed
        /\ proof[p] = [status |-> "verified", order |-> o]

\* "A valid proof is immutable", and so is a fulfilment: no later callback, retry
\* under another key or second attempt at the order replaces either.
EvidenceIsFinal ==
    [][/\ \A p \in Payments : proof[p].status = "verified" => proof'[p] = proof[p]
       /\ \A o \in Orders : fulfilment[o] # NotFulfilled => fulfilment'[o] = fulfilment[o]]_checkoutVars

\* A callback that was answered "verified" is on record as the proof of its order,
\* which is what a fulfilment of the order looks for: "Require the server-side HMAC
\* verification for this merchant order" (state_machine.py).
ConfirmedIsProof ==
    \A o \in Orders, p \in Payments :
        <<o, p>> \in confirmed => proof[p] = [status |-> "verified", order |-> o]

==============================================================================
