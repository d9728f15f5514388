------------------------- MODULE RecoveryBatchProofs -------------------------
(***************************************************************************)
(* Theorems about RecoveryBatch, for any number of payment groups, any     *)
(* amount, any cost, and any number of others who pay: the stored outcomes *)
(* are what the batch has captured, the claim is backed by them, and       *)
(* turnover counts each capture once.                                      *)
(*                                                                         *)
(* The controller goes by what it has found, while the worker and          *)
(* operators stop its executions, others pay its orders and a crash takes  *)
(* back what it has not committed.  BatchInv says what is true wherever it *)
(* stands: it has found what it has captured itself (Finds), whatever      *)
(* others capture behind its back, and what a request has in hand is on a  *)
(* link that exists (Holds).                                               *)
(***************************************************************************)
EXTENDS RecoveryBatch, NatFacts

------------------------------------------------------------------------------
(* The inductive invariant.                                                *)

PaymentRow == [status : {"none", "authorized", "success", "failed"}, amount : {0, Amount} \cup Parts]

BatchTypeOK ==
    /\ arms \in [Groups -> Arms]
    /\ bound \in SUBSET Groups
    /\ links \in [LinkIds -> LinkStates]
    /\ captured \in SUBSET Captures /\ IsFiniteSet(captured)
    /\ execs \in [Executions -> ExecStates]
    /\ outcomes \in [Groups -> {"none", "recovered", "lost"}]
    /\ stopped \in BOOLEAN /\ committed \in BOOLEAN /\ late \in BOOLEAN
    /\ claimed \in Nat /\ gmv \in Nat
    /\ ctl \in [at : Places, group : 0 .. N, found : SUBSET Groups]
    /\ payments \in [PaymentRefs -> PaymentRow]
    /\ hand \in [Payers -> Request]

NoOutcomes == [g \in Groups |-> "none"]

\* From the launch on both arms have groups, and the controls are left alone.
Designed ==
    ctl.at \in {"settle", "capture", "mark", "cancel", "claim", "done"} =>
        /\ \A g \in Groups : arms[g] \in {"treatment", "control"}
        /\ Arm("treatment") # {} /\ Arm("control") # {}
        /\ bound = Arm("treatment")
        /\ \A g \in Arm("control") : links[g] = "none"

\* The controller has found what it has captured.
Finds ==
    /\ ctl.at = "launch" => ~committed /\ OwnOf(Groups) = {}
    /\ ctl.at \in {"settle", "capture"} => OwnOf(Groups) = ctl.found
    /\ ctl.at \in {"capture", "mark"} => ctl.group \in Groups /\ arms[ctl.group] = "treatment"
    /\ ctl.at = "mark" => OwnOf(Groups) = ctl.found \cup {ctl.group}

\* It has recorded all of it or nothing.
Records ==
    /\ outcomes \in {NoOutcomes, Recorded(OwnOf(Groups))}
    /\ ctl.at \in {"launch", "settle", "capture", "mark"} => outcomes = NoOutcomes
    /\ ctl.at \in {"cancel", "claim", "done"} => outcomes = Recorded(OwnOf(Groups)) /\ stopped

\* It claims in the last step, and then what it has measured.
Claims ==
    /\ claimed = 0 \/ ctl.at = "done"
    /\ ctl.at = "done" => /\ claimed = Claimed(Results(outcomes))
                          /\ claimed <= gmv /\ gmv <= Amount * Cardinality(captured)

\* The successful payments are the captures.
Books ==
    \A r \in PaymentRefs :
        /\ payments[r].status = "success" <=> r \in captured
        /\ r \in Captures /\ payments[r].status # "none" => payments[r].amount = Amount

\* A request that is under way is on a link that exists, or on an order.
Holds ==
    \A p \in Payers : hand[p].does # "none" =>
        /\ committed /\ hand[p].on \in LinkIds
        /\ hand[p].does # "order" => links[hand[p].on] # "none"
        /\ hand[p].does = "mark" => <<p, hand[p].on>> \in captured

BatchInv == BatchTypeOK /\ Designed /\ Finds /\ Records /\ Claims /\ Books /\ Holds

LEMMA GroupsFinite ==
    /\ IsFiniteSet(Groups)
    /\ \A S \in SUBSET Groups : IsFiniteSet(S) /\ Cardinality(S) \in Nat
<1>1. IsFiniteSet(Groups)
  BY BatchAssumption, FS_Interval DEF Groups
<1> QED  BY <1>1, FS_Subset, FS_CardinalityType

LEMMA Refs ==
    /\ \A o \in LinkIds : <<"batch", o>> \in Captures /\ \A p \in Payers : <<p, o>> \in Captures
    /\ Captures \subseteq PaymentRefs
    /\ \A l \in LinkIds : <<"link", l>> \in PaymentRefs /\ <<"link", l>> \notin Captures
    /\ Groups \subseteq LinkIds /\ \A g \in Groups : g # N + 1 /\ g # N + 2
    /\ N + 1 \in LinkIds /\ N + 2 \in LinkIds
  BY BatchAssumption, PayersAssumption DEF PaymentRefs, Captures, LinkIds, GuardLinks, Groups

------------------------------------------------------------------------------
(* What the webhooks make of the payments.                                 *)

\* Webhooks the rails send: their payments are known ones.
Sent(W) == \A w \in W : /\ w = Webhook(w.event, w.id, w.amount)
                        /\ w.id \in PaymentRefs /\ w.amount \in {0, Amount} \cup Parts
                        /\ w.id \in Captures => w.amount = Amount

Unpaid(W) == \A w \in W : w.event \notin {"payment.captured", "payment_link.paid"}

\* The payment a webhook makes.
RowOf(w) == [status |-> Normalize(w).status,
             amount |-> IF payments[w.id].status = "none" THEN w.amount ELSE payments[w.id].amount]

LEMMA IngestedRow ==
    ASSUME NEW W, Sent(W), NEW r \in PaymentRefs
    PROVE  \/ Ingested(W)[r] = payments[r]
           \/ /\ payments[r].status # "success"
              /\ \E w \in W : w.id = r /\ Ingested(W)[r] = RowOf(w)
<1> DEFINE events == {Normalize(w) : w \in {x \in W : x.id = r}}
           e == CHOOSE x \in events : TRUE
<1>1. Ingested(W)[r] =
          IF events = {} \/ payments[r].status = "success" THEN payments[r]
          ELSE [status |-> e.status,
                amount |-> IF payments[r].status = "none" THEN e.amount ELSE payments[r].amount]
  BY DEF Ingested
<1>2. CASE events = {} \/ payments[r].status = "success"
  BY <1>1, <1>2
<1>3. CASE events # {} /\ payments[r].status # "success"
  <2>1. e \in events
    BY <1>3
  <2>2. PICK w \in W : w.id = r /\ e = Normalize(w)
    BY <2>1
  <2> HIDE DEF e, events
  <2>3. e.amount = w.amount /\ e.status = Normalize(w).status
    BY <2>2 DEF Normalize
  <2>4. Ingested(W)[r] =
          [status |-> e.status,
           amount |-> IF payments[r].status = "none" THEN e.amount ELSE payments[r].amount]
    BY <1>1, <1>3
  <2> QED  BY <1>3, <2>2, <2>3, <2>4 DEF RowOf
<1> QED  BY <1>2, <1>3

\* A webhook's payment has the webhook's status, unless it is successful already.
LEMMA IngestedOne ==
    ASSUME NEW w, Sent({w}), payments[w.id].status # "success"
    PROVE  Ingested({w})[w.id] = RowOf(w)
<1> DEFINE events == {Normalize(v) : v \in {x \in {w} : x.id = w.id}}
           e == CHOOSE x \in events : TRUE
<1>1. events = {Normalize(w)} /\ w.id \in PaymentRefs
  BY DEF Sent
<1>2. e = Normalize(w)
  BY <1>1
<1>3. Ingested({w})[w.id] =
          [status |-> e.status,
           amount |-> IF payments[w.id].status = "none" THEN e.amount ELSE payments[w.id].amount]
  BY <1>1 DEF Ingested
<1>4. Normalize(w).amount = w.amount
  BY DEF Normalize
<1> QED  BY <1>2, <1>3, <1>4 DEF RowOf

LEMMA Statuses ==
    ASSUME NEW w
    PROVE  /\ Normalize(w).status \in {"authorized", "success", "failed"}
           /\ Normalize(w).status = "success"
                <=> w.event \in {"payment.captured", "payment_link.paid"}
  BY DEF Normalize

LEMMA RowTyped ==
    ASSUME NEW w, w.id \in PaymentRefs, w.amount \in {0, Amount} \cup Parts,
           payments \in [PaymentRefs -> PaymentRow]
    PROVE  RowOf(w) \in PaymentRow
<1>1. payments[w.id].amount \in {0, Amount} \cup Parts
  BY DEF PaymentRow
<1> QED  BY <1>1, Statuses DEF RowOf, PaymentRow

LEMMA IngestedType ==
    ASSUME NEW W, Sent(W), payments \in [PaymentRefs -> PaymentRow]
    PROVE  Ingested(W) \in [PaymentRefs -> PaymentRow]
<1>1. ASSUME NEW r \in PaymentRefs PROVE Ingested(W)[r] \in PaymentRow
  <2>1. CASE Ingested(W)[r] = payments[r]
    BY <2>1
  <2>2. ASSUME NEW w \in W, Ingested(W)[r] = RowOf(w)
        PROVE  Ingested(W)[r] \in PaymentRow
    BY <2>2, RowTyped DEF Sent
  <2> QED  BY <2>1, <2>2, IngestedRow
<1>2. Ingested(W) = [r \in PaymentRefs |-> Ingested(W)[r]]
  BY DEF Ingested
<1> QED  BY <1>1, <1>2

\* The amount of a capture's payment is what was to be captured.
LEMMA AmountKept ==
    ASSUME Books, NEW W, Sent(W), NEW r \in Captures, Ingested(W)[r].status # "none"
    PROVE  Ingested(W)[r].amount = Amount
<1>1. r \in PaymentRefs
  BY Refs
<1>2. CASE Ingested(W)[r] = payments[r]
  BY <1>1, <1>2 DEF Books
<1>3. ASSUME NEW w \in W, w.id = r, Ingested(W)[r] = RowOf(w)
      PROVE  Ingested(W)[r].amount = Amount
  BY <1>1, <1>3 DEF Sent, RowOf, Books
<1> QED  BY <1>1, <1>2, <1>3, IngestedRow

(***************************************************************************)
(* A capture books its payment; told of again it changes nothing.          *)
(***************************************************************************)
LEMMA CaptureBooks ==
    ASSUME BatchTypeOK, Books, NEW c \in Captures,
           NEW event \in {"payment.captured", "payment_link.paid"},
           Deliver({Webhook(event, c, Amount)}), captured' = captured \cup {c}
    PROVE  /\ payments' \in [PaymentRefs -> PaymentRow] /\ committed' = TRUE
           /\ Books'
<1> DEFINE w == Webhook(event, c, Amount)
<1>1. /\ w.id = c /\ w.amount = Amount /\ w.event = event
      /\ w.id \in PaymentRefs /\ Sent({w})
  BY Refs DEF Webhook, Sent
<1>2. payments' = Ingested({w}) /\ committed' = TRUE
  BY DEF Deliver
<1>3. payments \in [PaymentRefs -> PaymentRow]
  BY DEF BatchTypeOK
<1>4. Normalize(w).status = "success"
  BY <1>1, Statuses
<1> HIDE DEF w
<1>5. ASSUME NEW r \in PaymentRefs
      PROVE  payments'[r].status = "success" <=> r \in captured'
  <2>1. CASE r = w.id
    <3>1. payments'[r].status = "success"
      <4>1. CASE payments[r].status = "success"
        <5>1. payments'[r] = payments[r]
          BY <1>1, <1>2, <4>1, IngestedRow
        <5> QED  BY <4>1, <5>1
      <4>2. CASE payments[r].status # "success"
        <5>1. payments'[r] = RowOf(w)
          BY <2>1, <1>1, <1>2, <4>2, IngestedOne
        <5> QED  BY <5>1, <1>4 DEF RowOf
      <4> QED  BY <4>1, <4>2
    <3> QED  BY <3>1, <2>1, <1>1
  <2>2. CASE r # w.id
    <3>1. \/ Ingested({w})[r] = payments[r]
          \/ \E v \in {w} : v.id = r
      BY <1>1, IngestedRow
    <3>2. payments'[r] = payments[r]
      BY <1>2, <2>2, <3>1
    <3> QED  BY <3>2, <2>2, <1>1 DEF Books
  <2> QED  BY <2>1, <2>2
<1>6. ASSUME NEW r \in Captures, payments'[r].status # "none"
      PROVE  payments'[r].amount = Amount
  BY <1>1, <1>2, <1>6, AmountKept
<1>7. Books'
  BY <1>5, <1>6 DEF Books
<1> QED  BY <1>1, <1>2, <1>3, <1>7, IngestedType

(***************************************************************************)
(* Other webhooks book nothing.                                            *)
(***************************************************************************)
LEMMA OverBooksNothing ==
    ASSUME BatchTypeOK, Books, NEW W, Sent(W), Unpaid(W), Deliver(W), captured' = captured
    PROVE  /\ payments' \in [PaymentRefs -> PaymentRow] /\ committed' = TRUE
           /\ Books'
<1>1. payments' = Ingested(W) /\ committed' = TRUE /\ payments \in [PaymentRefs -> PaymentRow]
  BY DEF Deliver, BatchTypeOK
<1>2. \A w \in W : Normalize(w).status # "success"
  BY Statuses DEF Unpaid
<1>3. ASSUME NEW r \in PaymentRefs
      PROVE  payments'[r].status = "success" <=> payments[r].status = "success"
  <2>1. CASE payments'[r] = payments[r]
    BY <2>1
  <2>2. ASSUME payments[r].status # "success",
               NEW w \in W, payments'[r] = RowOf(w)
        PROVE  payments[r].status # "success" /\ payments'[r].status # "success"
    BY <2>2, <1>2 DEF RowOf
  <2>3. \/ Ingested(W)[r] = payments[r]
        \/ /\ payments[r].status # "success"
           /\ \E w \in W : w.id = r /\ Ingested(W)[r] = RowOf(w)
    BY IngestedRow
  <2> QED  BY <2>1, <2>2, <2>3, <1>1
<1>4. ASSUME NEW r \in Captures, payments'[r].status # "none"
      PROVE  payments'[r].amount = Amount
  BY <1>1, <1>4, AmountKept
<1>5. Books'
  BY <1>3, <1>4 DEF Books
<1> QED  BY <1>1, <1>5, IngestedType

\* What is told of a link that is not paid in full.
LEMMA OverIsSent ==
    ASSUME NEW L \in SUBSET LinkIds,
           NEW event \in {"payment_link.expired", "payment_link.cancelled"}
    PROVE  LET W == {LinkOver(l, event) : l \in L} IN Sent(W) /\ Unpaid(W)
  BY Refs DEF LinkOver, Webhook, Sent, Unpaid

LEMMA OneIsSent ==
    ASSUME NEW l \in LinkIds
    PROVE  /\ \A event \in {"payment_link.expired", "payment_link.cancelled"} :
                 Sent({LinkOver(l, event)}) /\ Unpaid({LinkOver(l, event)})
           /\ \A part \in Parts : Sent({LinkPart(l, part)}) /\ Unpaid({LinkPart(l, part)})
  BY Refs DEF LinkOver, LinkPart, Webhook, Sent, Unpaid

------------------------------------------------------------------------------
(* What the measurement computes.                                          *)

LEMMA Division ==
    ASSUME NEW a \in Int, NEW b \in Nat \ {0}
    PROVE  /\ a \div b \in Int /\ a % b \in 0 .. b - 1
           /\ a = (b * (a \div b)) + (a % b)
  OBVIOUS

LEMMA QuotientBelow ==
    ASSUME NEW a \in Int, NEW b \in Nat \ {0}, NEW q \in Int, NEW r \in 0 .. b - 1,
           a = (b * q) + r
    PROVE  /\ a <= 0 => q <= 0 /\ (2 * r >= b => q + 1 <= 0)
           /\ \A u \in Nat : a <= u * b => q <= u /\ (2 * r >= b => q + 1 <= u)
  OBVIOUS

\* Rounding gets no further than a whole number that is not passed before it.
LEMMA RoundBelow ==
    ASSUME NEW a \in Int, NEW b \in Nat \ {0}
    PROVE  /\ Round(a, b) \in Int
           /\ a <= 0 => Round(a, b) <= 0
           /\ \A u \in Nat : a <= u * b => Round(a, b) <= u
<1> DEFINE q == a \div b
           r == a % b
<1>1. q \in Int /\ r \in 0 .. b - 1 /\ a = (b * q) + r
  BY Division
<1>2. Round(a, b) = IF 2 * r > b \/ (2 * r = b /\ q % 2 = 1) THEN q + 1 ELSE q
  BY DEF Round
<1> HIDE DEF q, r
<1>3. /\ a <= 0 => q <= 0 /\ (2 * r >= b => q + 1 <= 0)
      /\ \A u \in Nat : a <= u * b => q <= u /\ (2 * r >= b => q + 1 <= u)
  BY <1>1, QuotientBelow
<1>4. \/ Round(a, b) = q
      \/ 2 * r >= b /\ Round(a, b) = q + 1
  BY <1>1, <1>2
<1> QED  BY <1>1, <1>3, <1>4

LEMMA Products ==
    ASSUME NEW a \in Nat, NEW x \in Nat, NEW y \in Nat, NEW t \in Nat, NEW c \in Nat
    PROVE  /\ (a * x) * c = a * (x * c) /\ (a * y) * t = a * (y * t)
           /\ (a * x) * c \in Nat /\ (a * y) * t \in Nat
           /\ x * c <= y * t => a * (x * c) <= a * (y * t)
<1>1. /\ (a * x) * c = a * (x * c) /\ (a * y) * t = a * (y * t)
      /\ x * c \in Nat /\ y * t \in Nat /\ (a * x) * c \in Nat /\ (a * y) * t \in Nat
  OBVIOUS
<1>2. ASSUME NEW m \in Nat, NEW n \in Nat, m <= n PROVE a * m <= a * n
  BY <1>2
<1> QED  BY <1>1, <1>2

\* The results in terms of the captures of the arms.
LEMMA ResultsBacked ==
    ASSUME BatchTypeOK, Arm("control") # {}, outcomes = Recorded(OwnOf(Groups))
    PROVE  /\ Claimed(Results(outcomes)) \in Nat
           /\ Claimed(Results(outcomes)) > 0 =>
                LET t == Arm("treatment")
                    c == Arm("control")
                IN  /\ Cardinality(OwnOf(t)) * Cardinality(c) > Cardinality(OwnOf(c)) * Cardinality(t)
                    /\ Claimed(Results(outcomes)) <= Amount * Cardinality(OwnOf(t))
<1> DEFINE t == Cardinality(Arm("treatment"))
           c == Cardinality(Arm("control"))
           x == Cardinality(OwnOf(Arm("treatment")))
           y == Cardinality(OwnOf(Arm("control")))
           a == ((Amount * x) * c) - ((Amount * y) * t)
           k == Cardinality(bound)
           round == Round(a, c)
           net == Results(outcomes)
<1>1. /\ t \in Nat /\ x \in Nat /\ y \in Nat /\ c \in Nat /\ k \in Nat
      /\ Amount \in Nat /\ Cost \in Nat
  BY GroupsFinite, BatchAssumption DEF Arm, OwnOf, BatchTypeOK
<1>2. c # 0
  BY GroupsFinite, FS_EmptySet DEF Arm
<1>3. ASSUME NEW arm
      PROVE  {g \in Arm(arm) : outcomes[g] = "recovered"} = OwnOf(Arm(arm))
  BY DEF Recorded, Arm, OwnOf
<1>4. Rewards("treatment", outcomes) = Amount * x /\ Rewards("control", outcomes) = Amount * y
  BY <1>3 DEF Rewards
<1>5. net = round - (Cost * k)
  BY <1>4 DEF Results, Incremental
<1> HIDE DEF t, c, x, y, k
<1>6. a \in Int
  BY <1>1
<1>7. a > 0 => x * c > y * t
  BY <1>1, Products
<1>8. a <= (Amount * x) * c /\ Amount * x \in Nat
  BY <1>1, Products
<1> HIDE DEF a
<1>9. /\ round \in Int
      /\ a <= 0 => round <= 0
      /\ round <= Amount * x
  BY <1>1, <1>2, <1>6, <1>8, RoundBelow
<1> DEFINE paid == Amount * x
           spent == Cost * k
<1>10. spent \in Nat
  BY <1>1
<1> HIDE DEF round, net, paid, spent
<1>11. net \in Int /\ net <= round
  BY <1>5, <1>9, <1>10 DEF spent
<1>12. /\ Claimed(net) \in Nat
       /\ Claimed(net) > 0 => Claimed(net) <= paid /\ a > 0
  <2>1. paid \in Nat /\ round <= paid
    BY <1>8, <1>9 DEF paid
  <2> QED  BY <2>1, <1>6, <1>9, <1>11 DEF Claimed
<1>13. Claimed(net) > 0 => Claimed(net) <= Amount * x /\ x * c > y * t
  BY <1>7, <1>12 DEF paid
<1> QED  BY <1>12, <1>13 DEF net, t, c, x, y

(***************************************************************************)
(* The turnover: one amount for each capture.                              *)
(***************************************************************************)
LEMMA BookedIs ==
    ASSUME BatchTypeOK, Books
    PROVE  Booked = Amount * Cardinality(captured)
<1> DEFINE a == [r \in PaymentRefs |-> payments[r].amount]
<1>1. captured \subseteq PaymentRefs /\ captured \subseteq Captures /\ IsFiniteSet(captured)
  BY Refs DEF BatchTypeOK
<1>2. Successful = captured
  BY <1>1 DEF Successful, Books
<1>3. \A r \in captured : a[r] = Amount
  BY <1>1 DEF Books
<1> HIDE DEF a
<1>4. SumFunctionOnSet(a, captured) = Amount * Cardinality(captured)
  BY <1>1, <1>3, SumOfEqual, BatchAssumption
<1> QED  BY <1>2, <1>4 DEF Booked, a

\* What the treated groups paid to the batch is part of it.
LEMMA OwnIsPart ==
    ASSUME BatchTypeOK, NEW S \in SUBSET Groups
    PROVE  Amount * Cardinality(OwnOf(S)) <= Amount * Cardinality(captured)
<1> DEFINE own == {<<"batch", g>> : g \in OwnOf(S)}
           f == [g \in OwnOf(S) |-> <<"batch", g>>]
<1>1. IsFiniteSet(OwnOf(S)) /\ Cardinality(OwnOf(S)) \in Nat
  BY GroupsFinite DEF OwnOf
<1>2. f \in Bijection(OwnOf(S), own)
  <2>1. f \in [OwnOf(S) -> own]
    OBVIOUS
  <2>2. \A g, h \in OwnOf(S) : f[g] = f[h] => g = h
    OBVIOUS
  <2>3. \A r \in own : \E g \in OwnOf(S) : f[g] = r
    OBVIOUS
  <2> QED  BY <2>1, <2>2, <2>3 DEF Bijection, Injection, Surjection, IsInjective
<1>3. IsFiniteSet(own) /\ Cardinality(own) = Cardinality(OwnOf(S))
  BY <1>1, <1>2, FS_Bijection DEF ExistsBijection
<1>4. own \subseteq captured
  BY DEF OwnOf
<1>5. IsFiniteSet(captured) /\ Cardinality(captured) \in Nat
  BY FS_CardinalityType DEF BatchTypeOK
<1> DEFINE m == Cardinality(OwnOf(S))
           n == Cardinality(captured)
<1>6. m \in Nat /\ n \in Nat /\ m <= n
  BY <1>1, <1>3, <1>4, <1>5, FS_Subset
<1> HIDE DEF m, n
<1>7. Amount * m <= Amount * n
  BY <1>6, BatchAssumption
<1> QED  BY <1>7 DEF m, n

\* A further capture leaves the others as many.
LEMMA OneMore ==
    ASSUME BatchTypeOK, NEW c, captured' = captured \cup {c}
    PROVE  /\ IsFiniteSet(captured')
           /\ gmv <= Amount * Cardinality(captured) => gmv <= Amount * Cardinality(captured')
<1>1. IsFiniteSet(captured) /\ IsFiniteSet(captured') /\ captured \subseteq captured'
  BY FS_AddElement DEF BatchTypeOK
<1> DEFINE m == Cardinality(captured)
           n == Cardinality(captured')
<1>2. m \in Nat /\ n \in Nat /\ m <= n
  BY <1>1, FS_CardinalityType, FS_Subset
<1> HIDE DEF m, n
<1>3. Amount * m <= Amount * n /\ Amount * m \in Nat /\ Amount * n \in Nat /\ gmv \in Nat
  BY <1>2, BatchAssumption DEF BatchTypeOK
<1>4. gmv <= Amount * m => gmv <= Amount * n
  BY <1>3
<1> QED  BY <1>1, <1>4 DEF m, n

------------------------------------------------------------------------------
(* What a step leaves alone.                                               *)

LEMMA ResultsKept ==
    ASSUME UNCHANGED <<arms, bound, outcomes>>
    PROVE  Claimed(Results(outcomes))' = Claimed(Results(outcomes))
  BY DEF Claimed, Results, Incremental, Round, Rewards, Arm

LEMMA OwnKept ==
    ASSUME captured' = captured
    PROVE  /\ OwnOf(Groups)' = OwnOf(Groups)
           /\ Recorded(OwnOf(Groups))' = Recorded(OwnOf(Groups))
  BY DEF OwnOf, Recorded

\* What others capture is not the batch's.
LEMMA OwnKeptByOthers ==
    ASSUME NEW p \in Payers, NEW o, captured' = captured \cup {<<p, o>>}
    PROVE  /\ OwnOf(Groups)' = OwnOf(Groups)
           /\ Recorded(OwnOf(Groups))' = Recorded(OwnOf(Groups))
<1>1. p # "batch"
  BY PayersAssumption
<1>2. OwnOf(Groups)' = OwnOf(Groups)
  BY <1>1 DEF OwnOf
<1> QED  BY <1>2 DEF Recorded

\* The requests stay what they are while links are changed that exist.
LEMMA HoldsKept ==
    ASSUME Holds, UNCHANGED hand, committed => committed', captured \subseteq captured',
           \A l \in LinkIds : links[l] # "none" => links'[l] # "none"
    PROVE  Holds'
  BY DEF Holds

------------------------------------------------------------------------------
(* The controller's steps.                                                 *)

LEMMA NextIsGroup ==
    ASSUME BatchTypeOK, Remaining # {}
    PROVE  NextGroup \in Groups
<1> DEFINE places == {Order[g] : g \in Remaining}
<1>1. \A g \in Groups : Order[g] \in Nat
  BY BatchAssumption DEF Order, Groups
<1>2. Remaining \subseteq Groups
  BY DEF Remaining
<1>3. PICK n \in places : \A m \in places : n <= m
  BY <1>1, <1>2, LeastNat
<1>4. \E g \in Remaining : \A h \in Remaining : Order[g] <= Order[h]
  BY <1>3
<1> QED  BY <1>2, <1>4 DEF NextGroup

LEMMA LaunchKeeps ==
    ASSUME BatchInv, Launch
    PROVE  BatchInv'
<1> USE DEF BatchInv
<1>1. PICK assigned \in [Groups -> {"treatment", "control"}] :
          /\ {"treatment", "control"} = {assigned[g] : g \in Groups}
          /\ arms' = assigned
          /\ bound' = Bound(assigned)
          /\ links' = [l \in LinkIds |-> IF l \in Groups /\ assigned[l] = "treatment"
                                         THEN "issued" ELSE "none"]
  BY DEF Launch
<1>2. /\ ctl.at = "launch" /\ ctl' = [at |-> "settle", group |-> 0, found |-> {}]
      /\ execs' = [execs EXCEPT !["batch"] = "MONITORING"]
      /\ UNCHANGED <<captured, outcomes, stopped, claimed, committed, late, payments, gmv, hand>>
  BY DEF Launch, Goes
<1>3. BatchTypeOK'
  BY <1>1, <1>2, BatchAssumption
  DEF BatchTypeOK, Arms, Bound, LinkStates, OpenLink, Executions, ExecStates, Places
<1>4. Designed'
  BY <1>1, <1>2, Refs DEF Designed, Arm, Bound
<1>5. Finds' /\ Records' /\ Claims' /\ Books'
  BY <1>2, OwnKept DEF Finds, Records, NoOutcomes, Claims, Books
<1>6. Holds'
  BY <1>2 DEF Holds, Finds
<1> QED  BY <1>3, <1>4, <1>5, <1>6

\* The batch ends early, and nothing else happens.
LEMMA FailureKeeps ==
    ASSUME BatchInv, LaunchFails \/ LookFails \/ MeasureFails
    PROVE  BatchInv'
<1> USE DEF BatchInv
<1>1. /\ ctl.at # "done" /\ ctl'.at = "failed"
      /\ ctl' = [at |-> "failed", group |-> 0, found |-> ctl'.found] /\ ctl'.found \in {{}, ctl.found}
      /\ UNCHANGED <<arms, bound, links, captured, execs, outcomes, stopped, claimed, committed,
                     late, payments, gmv, hand>>
  BY DEF LaunchFails, LookFails, MeasureFails, Goes, UnchangedDesign, UnchangedOthers
<1>2. BatchTypeOK'
  BY <1>1, BatchAssumption DEF BatchTypeOK, Places
<1>3. Designed' /\ Finds' /\ Records' /\ Claims' /\ Books'
  BY <1>1, OwnKept DEF Designed, Finds, Records, NoOutcomes, Claims, Books
<1>4. Holds'
  BY <1>1, HoldsKept
<1> QED  BY <1>2, <1>3, <1>4

LEMMA LookAtOrderKeeps ==
    ASSUME BatchInv, LookAtOrder
    PROVE  BatchInv'
<1> USE DEF BatchInv
<1> DEFINE g == NextGroup
<1>1. /\ ctl.at = "settle" /\ arms[g] = "treatment" /\ g \in Groups
      /\ ctl' = [at |-> "capture", group |-> g, found |-> ctl.found]
      /\ UNCHANGED <<arms, bound, links, captured, execs, outcomes, stopped, claimed, committed,
                     late, payments, gmv, hand>>
  BY NextIsGroup DEF LookAtOrder, Goes, UnchangedDesign, UnchangedOthers
<1> HIDE DEF g
<1>2. BatchTypeOK'
  BY <1>1, BatchAssumption DEF BatchTypeOK, Places, Groups
<1>3. Designed' /\ Finds' /\ Records' /\ Claims' /\ Books'
  BY <1>1, OwnKept DEF Designed, Arm, Finds, Records, NoOutcomes, Claims, Books
<1>4. Holds'
  BY <1>1, HoldsKept
<1> QED  BY <1>2, <1>3, <1>4

LEMMA CaptureOrderKeeps ==
    ASSUME BatchInv, CaptureOrder
    PROVE  BatchInv'
<1> USE DEF BatchInv
<1> DEFINE g == ctl.group
           c == <<"batch", g>>
<1>1. /\ ctl.at = "capture" /\ arms[g] = "treatment" /\ g \in Groups
      /\ ctl' = [at |-> "mark", group |-> g, found |-> ctl.found]
      /\ captured' = captured \cup {c}
      /\ UNCHANGED <<links, execs, arms, bound, outcomes, stopped, claimed, late, gmv, hand>>
  BY DEF CaptureOrder, Goes, UnchangedDesign, UnchangedOthers, Finds
<1>2. Deliver({Webhook("payment.captured", c, Amount)})
  BY DEF CaptureOrder, PaymentOf
<1>3. c \in Captures
  BY <1>1, Refs
<1>4. OwnOf(Groups)' = OwnOf(Groups) \cup {g}
  BY <1>1 DEF OwnOf
<1> HIDE DEF g, c
<1>5. payments' \in [PaymentRefs -> PaymentRow] /\ committed' = TRUE /\ Books'
  BY <1>1, <1>2, <1>3, CaptureBooks
<1>6. BatchTypeOK'
  <2>1. ctl' \in [at : Places, group : 0 .. N, found : SUBSET Groups]
    BY <1>1, BatchAssumption DEF BatchTypeOK, Places, Groups
  <2>2. captured' \in SUBSET Captures /\ IsFiniteSet(captured')
    BY <1>1, <1>3, OneMore DEF BatchTypeOK
  <2> QED  BY <1>1, <1>5, <2>1, <2>2 DEF BatchTypeOK
<1>7. Designed' /\ Finds' /\ Records' /\ Claims'
  BY <1>1, <1>4 DEF Designed, Arm, Finds, Records, NoOutcomes, Claims
<1>8. Holds'
  BY <1>1, <1>5, HoldsKept
<1> QED  BY <1>5, <1>6, <1>7, <1>8

LEMMA MarkPaidKeeps ==
    ASSUME BatchInv, MarkPaid
    PROVE  BatchInv'
<1> USE DEF BatchInv
<1> DEFINE g == ctl.group
           c == <<"batch", g>>
<1>1. /\ ctl.at = "mark" /\ arms[g] = "treatment" /\ g \in Groups
      /\ OwnOf(Groups) = ctl.found \cup {g} /\ captured' = captured
      /\ links' = [links EXCEPT ![g] = "paid"]
      /\ ctl' = [at |-> "settle", group |-> g, found |-> ctl.found \cup {g}]
      /\ UNCHANGED <<execs, arms, bound, outcomes, stopped, claimed, late, gmv, hand>>
  BY DEF MarkPaid, Goes, UnchangedDesign, UnchangedOthers, Finds
<1>2. Deliver({Webhook("payment_link.paid", c, Amount)})
  BY DEF MarkPaid, LinkPaid
<1>3. c \in Captures /\ c \in captured
  BY <1>1, Refs DEF OwnOf
<1> HIDE DEF g, c
<1>4. captured' = captured \cup {c}
  BY <1>1, <1>3
<1>5. payments' \in [PaymentRefs -> PaymentRow] /\ committed' = TRUE /\ Books'
  BY <1>2, <1>3, <1>4, CaptureBooks
<1>6. BatchTypeOK'
  BY <1>1, <1>5, BatchAssumption, Refs DEF BatchTypeOK, Places, Groups, LinkStates
<1>7. Designed'
  BY <1>1, Refs DEF Designed, Arm, BatchTypeOK
<1>8. Finds' /\ Records' /\ Claims'
  BY <1>1, OwnKept DEF Finds, Records, NoOutcomes, Claims
<1>9. Holds'
  BY <1>1, <1>5, HoldsKept DEF BatchTypeOK
<1> QED  BY <1>5, <1>6, <1>7, <1>8, <1>9

LEMMA ExpireLinkKeeps ==
    ASSUME BatchInv, ExpireLink
    PROVE  BatchInv'
<1> USE DEF BatchInv
<1> DEFINE g == NextGroup
<1>1. /\ ctl.at = "settle" /\ arms[g] = "treatment" /\ g \in Groups
      /\ links' = [links EXCEPT ![g] = "expired"]
      /\ ctl' = [at |-> "settle", group |-> g, found |-> ctl.found]
      /\ UNCHANGED <<captured, execs, arms, bound, outcomes, stopped, claimed, late, gmv, hand>>
  BY NextIsGroup DEF ExpireLink, Goes, UnchangedDesign, UnchangedOthers, FoundAfterExpiry
<1>2. Deliver({LinkOver(g, "payment_link.expired")})
  BY DEF ExpireLink
<1> HIDE DEF g
<1>3. g \in LinkIds
  BY <1>1, Refs
<1>4. payments' \in [PaymentRefs -> PaymentRow] /\ committed' = TRUE /\ Books'
  BY <1>1, <1>2, <1>3, OneIsSent, OverBooksNothing
<1>5. BatchTypeOK'
  BY <1>1, <1>3, <1>4, BatchAssumption DEF BatchTypeOK, Places, Groups, LinkStates
<1>6. Designed'
  BY <1>1, Refs DEF Designed, Arm, BatchTypeOK
<1>7. Finds' /\ Records' /\ Claims'
  BY <1>1, OwnKept DEF Finds, Records, NoOutcomes, Claims
<1>8. Holds'
  BY <1>1, <1>4, HoldsKept DEF BatchTypeOK
<1> QED  BY <1>4, <1>5, <1>6, <1>7, <1>8

LEMMA SettleControlKeeps ==
    ASSUME BatchInv, SettleControl
    PROVE  BatchInv'
<1> USE DEF BatchInv
<1> DEFINE g == NextGroup
           c == <<"batch", g>>
<1>1. PICK natural \in SUBSET {g} :
          /\ captured' = captured \cup ({"batch"} \X natural)
          /\ Goes("settle", g, ctl.found \cup natural)
          /\ Deliver({PaymentOf("batch", g, IF natural = {} THEN "payment.failed"
                                            ELSE "payment.captured")})
  BY DEF SettleControl
<1>2. /\ ctl.at = "settle" /\ arms[g] = "control" /\ g \in Groups
      /\ ctl' = [at |-> "settle", group |-> g, found |-> ctl.found \cup natural]
      /\ UNCHANGED <<links, execs, arms, bound, outcomes, stopped, claimed, late, gmv, hand>>
  BY <1>1, NextIsGroup DEF SettleControl, Goes, UnchangedDesign, UnchangedOthers
<1>3. c \in Captures
  BY <1>2, Refs
<1>4. OwnOf(Groups)' = OwnOf(Groups) \cup natural
  BY <1>1, <1>2 DEF OwnOf
<1>5. natural = {} \/ natural = {g}
  BY <1>1
<1>6. captured' = IF natural = {} THEN captured ELSE captured \cup {c}
  BY <1>1, <1>5
<1>7. Deliver({Webhook(IF natural = {} THEN "payment.failed" ELSE "payment.captured", c, Amount)})
  BY <1>1 DEF PaymentOf
<1> HIDE DEF g, c
<1>8. payments' \in [PaymentRefs -> PaymentRow] /\ committed' = TRUE /\ Books'
  <2>1. CASE natural = {}
    <3> DEFINE W == {Webhook("payment.failed", c, Amount)}
    <3>1. Deliver(W) /\ captured' = captured
      BY <1>6, <1>7, <2>1
    <3>2. Sent(W) /\ Unpaid(W)
      BY <1>3, Refs DEF Webhook, Sent, Unpaid
    <3> HIDE DEF W
    <3> QED  BY <3>1, <3>2, OverBooksNothing
  <2>2. CASE natural # {}
    BY <1>3, <1>6, <1>7, <2>2, CaptureBooks
  <2> QED  BY <2>1, <2>2
<1>9. /\ captured' \in SUBSET Captures /\ IsFiniteSet(captured')
      /\ captured \subseteq captured'
  BY <1>3, <1>6, OneMore DEF BatchTypeOK
<1>10. BatchTypeOK'
  <2>1. ctl' \in [at : Places, group : 0 .. N, found : SUBSET Groups]
    <3>1. g \in 0 .. N
      BY <1>2, BatchAssumption DEF Groups
    <3>2. ctl.found \in SUBSET Groups /\ natural \in SUBSET Groups
      BY <1>2, <1>5 DEF BatchTypeOK
    <3> QED  BY <1>2, <3>1, <3>2 DEF Places
  <2> QED  BY <1>2, <1>8, <1>9, <2>1 DEF BatchTypeOK
<1>11. Designed' /\ Finds' /\ Records' /\ Claims'
  BY <1>2, <1>4 DEF Designed, Arm, Finds, Records, NoOutcomes, Claims
<1>12. Holds'
  BY <1>2, <1>8, <1>9, HoldsKept
<1> QED  BY <1>8, <1>10, <1>11, <1>12

LEMMA MeasureKeeps ==
    ASSUME BatchInv, Measure
    PROVE  BatchInv'
<1> USE DEF BatchInv
<1>1. /\ ctl.at = "settle" /\ OwnOf(Groups) = ctl.found /\ captured' = captured
      /\ outcomes' = Recorded(OwnOf(Groups))
      /\ stopped' = TRUE
      /\ execs' = [batch |-> "SUCCEEDED", guard |-> "MONITORING"]
      /\ links' = [links EXCEPT ![N + 1] = "cancelled", ![N + 2] = "issued"]
      /\ ctl' = [at |-> "cancel", group |-> 0, found |-> ctl.found]
      /\ UNCHANGED <<arms, bound, claimed, late, gmv, hand>>
  BY DEF Measure, Goes, Finds
<1>2. Deliver({LinkOver(N + 1, "payment_link.cancelled")})
  BY DEF Measure
<1>3. payments' \in [PaymentRefs -> PaymentRow] /\ committed' = TRUE /\ Books'
  BY <1>1, <1>2, Refs, OneIsSent, OverBooksNothing
<1>4. outcomes' \in [Groups -> {"none", "recovered", "lost"}]
  BY <1>1 DEF Recorded
<1>5. BatchTypeOK'
  <2>1. links' \in [LinkIds -> LinkStates]
    BY <1>1, Refs DEF BatchTypeOK, LinkStates, OpenLink
  <2>2. execs' \in [Executions -> ExecStates]
    BY <1>1 DEF Executions, ExecStates
  <2> QED  BY <1>1, <1>3, <1>4, <2>1, <2>2, BatchAssumption DEF BatchTypeOK, Places
<1>6. Designed'
  BY <1>1, Refs DEF Designed, Arm, BatchTypeOK
<1>7. Finds' /\ Records' /\ Claims'
  BY <1>1, OwnKept DEF Finds, Records, Claims
<1>8. Holds'
  BY <1>1, <1>3, HoldsKept DEF BatchTypeOK
<1> QED  BY <1>3, <1>5, <1>6, <1>7, <1>8

LEMMA CancelGuardKeeps ==
    ASSUME BatchInv, CancelGuard
    PROVE  BatchInv'
<1> USE DEF BatchInv
<1>1. /\ ctl.at = "cancel"
      /\ links' = [links EXCEPT ![N + 2] = "cancelled"]
      /\ ctl' = [at |-> "claim", group |-> 0, found |-> ctl.found]
      /\ UNCHANGED <<captured, execs, arms, bound, outcomes, stopped, claimed, late, gmv, hand>>
  BY DEF CancelGuard, Goes, UnchangedDesign, UnchangedOthers
<1>2. Deliver({LinkOver(N + 2, "payment_link.cancelled")})
  BY DEF CancelGuard
<1>3. payments' \in [PaymentRefs -> PaymentRow] /\ committed' = TRUE /\ Books'
  BY <1>1, <1>2, Refs, OneIsSent, OverBooksNothing
<1>4. BatchTypeOK'
  BY <1>1, <1>3, Refs, BatchAssumption DEF BatchTypeOK, Places, LinkStates
<1>5. Designed'
  BY <1>1, Refs DEF Designed, Arm, BatchTypeOK
<1>6. Finds' /\ Records' /\ Claims'
  BY <1>1, OwnKept DEF Finds, Records, Claims
<1>7. Holds'
  BY <1>1, <1>3, HoldsKept DEF BatchTypeOK
<1> QED  BY <1>3, <1>4, <1>5, <1>6, <1>7

LEMMA ClaimKeeps ==
    ASSUME BatchInv, Claim
    PROVE  BatchInv'
<1> USE DEF BatchInv
<1>1. /\ ctl.at = "claim"
      /\ execs' = [execs EXCEPT !["guard"] = "ROLLED_BACK"]
      /\ claimed' = Claimed(Results(outcomes))
      /\ gmv' = Amount * Cardinality(captured)
      /\ ctl' = [at |-> "done", group |-> 0, found |-> ctl.found]
      /\ UNCHANGED <<arms, bound, links, captured, outcomes, stopped, committed, late, payments, hand>>
  BY BookedIs DEF Claim, Goes
<1>2. gmv' \in Nat
  <2>1. Cardinality(captured) \in Nat
    BY FS_CardinalityType DEF BatchTypeOK
  <2> QED  BY <1>1, <2>1, BatchAssumption
<1>3. claimed' \in Nat /\ claimed' <= gmv'
  <2> DEFINE own == Amount * Cardinality(OwnOf(Arm("treatment")))
  <2>1. /\ Claimed(Results(outcomes)) \in Nat
        /\ Claimed(Results(outcomes)) > 0 => Claimed(Results(outcomes)) <= own
    BY <1>1, ResultsBacked DEF Designed, Records
  <2>2. own <= gmv'
    BY <1>1, OwnIsPart DEF Arm
  <2>3. own \in Nat
    <3>1. Cardinality(OwnOf(Arm("treatment"))) \in Nat
      BY GroupsFinite DEF OwnOf, Arm
    <3> QED  BY <3>1, BatchAssumption
  <2> HIDE DEF own
  <2> QED  BY <1>1, <1>2, <2>1, <2>2, <2>3
<1>4. BatchTypeOK'
  BY <1>1, <1>2, <1>3, BatchAssumption
  DEF BatchTypeOK, Places, ExecStates, Executions
<1>5. Designed' /\ Finds' /\ Records' /\ Books'
  BY <1>1, OwnKept DEF Designed, Arm, Finds, Records, NoOutcomes, Books
<1>6. Claims'
  <2>1. claimed' = Claimed(Results(outcomes))'
    BY <1>1, ResultsKept
  <2>2. gmv' <= (Amount * Cardinality(captured))'
    BY <1>1, <1>2
  <2> QED  BY <1>1, <1>3, <2>1, <2>2 DEF Claims
<1>7. Holds'
  BY <1>1, HoldsKept
<1> QED  BY <1>4, <1>5, <1>6, <1>7

LEMMA CrashKeeps ==
    ASSUME BatchInv, Crash
    PROVE  BatchInv'
<1> USE DEF BatchInv
<1>1. /\ ctl.at \in {"settle", "capture", "mark", "cancel", "claim"}
      /\ ctl' = [at |-> "crashed", group |-> 0, found |-> {}]
      /\ UNCHANGED <<captured, outcomes, stopped, claimed, committed, late, payments, gmv, hand>>
      /\ committed => links' = links
  BY DEF Crash, Goes
<1>2. /\ arms' \in [Groups -> Arms] /\ bound' \in SUBSET Groups
      /\ links' \in [LinkIds -> LinkStates] /\ execs' \in [Executions -> ExecStates]
  BY DEF Crash, BatchTypeOK, Arms, LinkStates, ExecStates
<1>3. BatchTypeOK'
  BY <1>1, <1>2, BatchAssumption DEF BatchTypeOK, Places
<1>4. Designed' /\ Finds' /\ Records' /\ Claims' /\ Books'
  BY <1>1, OwnKept DEF Designed, Finds, Records, NoOutcomes, Claims, Books
<1>5. Holds'
  BY <1>1 DEF Holds
<1> QED  BY <1>3, <1>4, <1>5

------------------------------------------------------------------------------
(* The others' steps.                                                      *)

\* Nothing the others do to links, requests and captures of their own concerns what
\* the controller has found, recorded and claimed.
LEMMA OthersKeep ==
    ASSUME BatchInv, UNCHANGED <<ctl, arms, bound, outcomes, stopped, claimed, gmv>>,
           BatchTypeOK', Books', Holds',
           \A l \in LinkIds : links[l] = "none" => links'[l] = "none",
           OwnOf(Groups)' = OwnOf(Groups), ctl.at = "launch" => ~committed',
           gmv <= Amount * Cardinality(captured) => gmv <= Amount * Cardinality(captured')
    PROVE  BatchInv'
<1> USE DEF BatchInv
<1>1. Designed'
  BY Refs DEF Designed, Arm
<1>2. Finds'
  BY DEF Finds
<1>3. Records'
  <2>1. Recorded(OwnOf(Groups))' = Recorded(OwnOf(Groups))
    BY DEF Recorded
  <2> QED  BY <2>1 DEF Records, NoOutcomes
<1>4. Claims'
  BY ResultsKept DEF Claims
<1> QED  BY <1>1, <1>2, <1>3, <1>4

LEMMA StopKeeps ==
    ASSUME BatchInv, committed, NEW e \in Executions, NEW state \in ExecStates, Stop(e, state)
    PROVE  BatchInv'
<1> USE DEF BatchInv
<1>1. /\ execs' = [execs EXCEPT ![e] = state]
      /\ links' = Cancelled(e)
      /\ UNCHANGED <<captured, ctl, arms, bound, outcomes, stopped, claimed, late, gmv, hand>>
  BY DEF Stop, UnchangedDesign, UnchangedOthers
<1>2. Open(e) \in SUBSET LinkIds
  BY Refs DEF Open, LinksOf, LinkIds
<1>3. payments' \in [PaymentRefs -> PaymentRow] /\ committed' = TRUE /\ Books'
  <2> DEFINE W == {LinkOver(l, "payment_link.cancelled") : l \in Open(e)}
  <2>1. Sent(W) /\ Unpaid(W)
    BY <1>2, OverIsSent
  <2>2. Deliver(W)
    BY DEF Stop
  <2> HIDE DEF W
  <2> QED  BY <1>1, <2>1, <2>2, OverBooksNothing
<1>4. /\ links' \in [LinkIds -> LinkStates]
      /\ \A l \in LinkIds : links[l] = "none" <=> links'[l] = "none"
  BY <1>1 DEF Cancelled, Open, BatchTypeOK, LinkStates, OpenLink
<1>5. BatchTypeOK'
  BY <1>1, <1>3, <1>4 DEF BatchTypeOK
<1>6. Holds'
  BY <1>1, <1>3, <1>4, HoldsKept
<1>7. ctl.at # "launch"
  BY DEF Finds
<1> QED  BY <1>1, <1>3, <1>4, <1>5, <1>6, <1>7, OwnKept, OthersKeep

LEMMA TimePassesKeeps ==
    ASSUME BatchInv, TimePasses \/ UNCHANGED vars
    PROVE  BatchInv'
<1> USE DEF BatchInv
<1>1. /\ late' \in BOOLEAN
      /\ UNCHANGED <<arms, bound, links, captured, execs, outcomes, stopped, claimed, ctl, committed,
                     payments, gmv, hand>>
  BY DEF TimePasses, vars, BatchTypeOK
<1>2. BatchTypeOK'
  BY <1>1 DEF BatchTypeOK
<1>3. Books' /\ Holds'
  BY <1>1 DEF Books, Holds
<1>4. ctl.at = "launch" => ~committed'
  BY <1>1 DEF Finds
<1> QED  BY <1>1, <1>2, <1>3, <1>4, OwnKept, OthersKeep

------------------------------------------------------------------------------
(* The steps of who else pays.                                             *)

LEMMA BeginsKeeps ==
    ASSUME BatchInv, NEW p \in Payers, NEW does \in {"paid", "partially_paid", "expired", "cancelled", "order"},
           NEW on \in LinkIds, NEW was \in {"none"} \cup OpenLink, committed,
           does # "order" => links[on] # "none", Begins(p, does, on, was)
    PROVE  BatchInv'
<1> USE DEF BatchInv
<1> DEFINE r == [does |-> does, on |-> on, was |-> was]
<1>1. /\ hand' = [hand EXCEPT ![p] = r]
      /\ UNCHANGED <<links, captured, payments, committed, execs, ctl, arms, bound, outcomes, stopped,
                     claimed, late, gmv>>
  BY DEF Begins, UnchangedBatch, UnchangedDesign
<1>2. r \in Request /\ r.does = does /\ r.on = on
  BY DEF Request
<1> HIDE DEF r
<1>3. BatchTypeOK'
  BY <1>1, <1>2 DEF BatchTypeOK
<1>4. Books'
  BY <1>1 DEF Books
<1>5. Holds'
  BY <1>1, <1>2 DEF Holds, BatchTypeOK
<1>6. ctl.at # "launch"
  BY DEF Finds
<1> QED  BY <1>1, <1>3, <1>4, <1>5, <1>6, OwnKept, OthersKeep

\* A request that has something in hand has it on a link, and others keep theirs.
LEMMA InHand ==
    ASSUME BatchInv, NEW p \in Payers, hand[p].does # "none"
    PROVE  committed /\ hand[p].on \in LinkIds /\ ctl.at # "launch"
  BY DEF BatchInv, Holds, Finds

LEMMA PaysOrderKeeps ==
    ASSUME BatchInv, NEW p \in Payers, PaysOrder(p)
    PROVE  BatchInv'
<1> USE DEF BatchInv
<1> DEFINE o == hand[p].on
           c == <<p, o>>
<1>1. /\ hand[p].does \in {"paid", "order"}
      /\ captured' = captured \cup {c}
      /\ Deliver({Webhook("payment.captured", c, Amount)})
      /\ UNCHANGED <<links, execs, ctl, arms, bound, outcomes, stopped, claimed, late, gmv>>
  BY DEF PaysOrder, PaymentOf, UnchangedBatch, UnchangedDesign
<1>2. hand' = [hand EXCEPT ![p] = IF hand[p].does = "paid" THEN [hand[p] EXCEPT !.does = "mark"]
                                  ELSE NoRequest]
  BY DEF PaysOrder, Ends
<1>3. committed /\ o \in LinkIds /\ ctl.at # "launch"
  BY <1>1, InHand
<1>4. c \in Captures
  BY <1>3, Refs
<1>5. OwnOf(Groups)' = OwnOf(Groups)
  BY <1>1, OwnKeptByOthers
<1>6. payments' \in [PaymentRefs -> PaymentRow] /\ committed' = TRUE /\ Books'
  BY <1>1, <1>4, CaptureBooks
<1>7. hand[p] \in Request /\ hand' \in [Payers -> Request]
  <2>1. hand[p] \in Request /\ NoRequest \in Request
    BY DEF BatchTypeOK, Request, NoRequest
  <2>2. [hand[p] EXCEPT !.does = "mark"] \in Request
    BY <2>1 DEF Request
  <2> QED  BY <1>2, <2>1, <2>2 DEF BatchTypeOK
<1>8. BatchTypeOK'
  BY <1>1, <1>4, <1>6, <1>7, OneMore DEF BatchTypeOK
<1>9. Holds'
  <2>1. SUFFICES ASSUME NEW q \in Payers, hand'[q].does # "none"
                 PROVE  /\ committed' /\ hand'[q].on \in LinkIds
                        /\ hand'[q].does # "order" => links'[hand'[q].on] # "none"
                        /\ hand'[q].does = "mark" => <<q, hand'[q].on>> \in captured'
    BY DEF Holds
  <2>2. CASE q # p
    <3>1. hand'[q] = hand[q]
      BY <1>2, <2>2 DEF BatchTypeOK
    <3> QED  BY <3>1, <2>1, <1>1, <1>6 DEF Holds
  <2>3. CASE q = p
    <3>1. hand[p].does = "paid" /\ hand'[p] = [hand[p] EXCEPT !.does = "mark"]
      BY <1>2, <2>1, <2>3 DEF BatchTypeOK, NoRequest
    <3>2. hand'[p].on = o /\ hand'[p].does = "mark"
      BY <3>1, <1>7 DEF Request
    <3>3. links[o] # "none"
      BY <3>1 DEF Holds
    <3> QED  BY <1>1, <1>3, <1>6, <2>3, <3>2, <3>3
  <2> QED  BY <2>2, <2>3
<1> QED  BY <1>1, <1>3, <1>5, <1>6, <1>8, <1>9, OneMore, OthersKeep

\* A request ends that has written to its link.
LEMMA EndKeeps ==
    ASSUME BatchInv, NEW p \in Payers, hand[p].does \notin {"none", "order"}, Ends(p), UnchangedBatch,
           captured' = captured, NEW to \in LinkStates \ {"none"},
           links' \in {links, [links EXCEPT ![hand[p].on] = to]},
           payments' \in [PaymentRefs -> PaymentRow], committed' = TRUE, Books'
    PROVE  BatchInv'
<1> USE DEF BatchInv
<1>1. /\ hand' = [hand EXCEPT ![p] = NoRequest]
      /\ UNCHANGED <<execs, ctl, arms, bound, outcomes, stopped, claimed, late, gmv>>
  BY DEF Ends, UnchangedBatch, UnchangedDesign
<1>2. /\ committed /\ hand[p].on \in LinkIds /\ ctl.at # "launch"
      /\ links[hand[p].on] # "none"
  BY InHand DEF Holds
<1>3. /\ links' \in [LinkIds -> LinkStates]
      /\ \A l \in LinkIds : links[l] = "none" <=> links'[l] = "none"
  BY <1>2 DEF BatchTypeOK
<1>4. BatchTypeOK'
  <2>1. NoRequest \in Request
    BY DEF Request, NoRequest
  <2> QED  BY <1>1, <1>3, <2>1 DEF BatchTypeOK
<1>5. Holds'
  <2>1. \A q \in Payers : hand'[q].does # "none" => hand'[q] = hand[q]
    BY <1>1 DEF BatchTypeOK, NoRequest
  <2> QED  BY <2>1, <1>3 DEF Holds
<1> QED  BY <1>1, <1>2, <1>3, <1>4, <1>5, OwnKept, OthersKeep

LEMMA MarksKeeps ==
    ASSUME BatchInv, NEW p \in Payers, Marks(p)
    PROVE  BatchInv'
<1> USE DEF BatchInv
<1> DEFINE c == <<p, hand[p].on>>
<1>1. /\ hand[p].does = "mark" /\ captured' = captured /\ Ends(p) /\ UnchangedBatch
      /\ links' = [links EXCEPT ![hand[p].on] = "paid"]
      /\ Deliver({Webhook("payment_link.paid", c, Amount)})
  BY DEF Marks, LinkPaid
<1>2. c \in captured /\ c \in Captures
  BY <1>1 DEF Holds, BatchTypeOK
<1>3. captured' = captured \cup {c}
  BY <1>1, <1>2
<1>4. payments' \in [PaymentRefs -> PaymentRow] /\ committed' = TRUE /\ Books'
  BY <1>1, <1>2, <1>3, CaptureBooks
<1>5. "paid" \in LinkStates \ {"none"}
  BY DEF LinkStates
<1> QED  BY <1>1, <1>4, <1>5, EndKeeps

LEMMA PaysPartKeeps ==
    ASSUME BatchInv, NEW p \in Payers, PaysPart(p)
    PROVE  BatchInv'
<1> USE DEF BatchInv
<1>1. /\ hand[p].does = "partially_paid" /\ captured' = captured /\ Ends(p) /\ UnchangedBatch
      /\ links' \in {links, [links EXCEPT ![hand[p].on] = "partially_paid"]}
  BY DEF PaysPart
<1>2. PICK part \in Parts : Deliver({LinkPart(hand[p].on, part)})
  BY DEF PaysPart
<1>3. payments' \in [PaymentRefs -> PaymentRow] /\ committed' = TRUE /\ Books'
  BY <1>1, <1>2, InHand, OneIsSent, OverBooksNothing
<1>4. "partially_paid" \in LinkStates \ {"none"}
  BY DEF LinkStates, OpenLink
<1> QED  BY <1>1, <1>3, <1>4, EndKeeps

LEMMA ClosesKeeps ==
    ASSUME BatchInv, NEW p \in Payers, Closes(p)
    PROVE  BatchInv'
<1> USE DEF BatchInv
<1>1. /\ hand[p].does \in {"expired", "cancelled"} /\ captured' = captured /\ Ends(p) /\ UnchangedBatch
      /\ links' = [links EXCEPT ![hand[p].on] = hand[p].does]
  BY DEF Closes
<1>2. PICK event \in {"payment_link.expired", "payment_link.cancelled"} :
          Deliver({LinkOver(hand[p].on, event)})
  BY DEF Closes
<1>3. payments' \in [PaymentRefs -> PaymentRow] /\ committed' = TRUE /\ Books'
  BY <1>1, <1>2, InHand, OneIsSent, OverBooksNothing
<1>4. hand[p].does \in LinkStates \ {"none"}
  BY <1>1 DEF LinkStates
<1> QED  BY <1>1, <1>3, <1>4, EndKeeps

LEMMA PayKeeps ==
    ASSUME BatchInv, NEW p \in Payers, Pay(p)
    PROVE  BatchInv'
<1>1. ASSUME NEW l \in LinkIds, NEW outcome \in {"paid", "partially_paid", "expired", "cancelled"},
             LooksAtLink(p, l, outcome)
      PROVE  BatchInv'
  <2>1. committed /\ links[l] \in OpenLink /\ links[l] # "none" /\ Begins(p, outcome, l, links[l])
    BY <1>1 DEF LooksAtLink, OpenLink
  <2> QED  BY <2>1, BeginsKeeps
<1>2. ASSUME NEW o \in LinkIds, LooksAtOrder(p, o)
      PROVE  BatchInv'
  BY <1>2, BeginsKeeps DEF LooksAtOrder
<1> QED  BY <1>1, <1>2, PaysOrderKeeps, MarksKeeps, PaysPartKeeps, ClosesKeeps DEF Pay

LEMMA BatchStep ==
    ASSUME BatchInv, [Next]_vars
    PROVE  BatchInv'
<1>1. ASSUME NEW e \in Executions, Monitor(e) \/ Halt(e)
      PROVE  BatchInv'
  <2>1. PICK state \in {"HALTED", "ROLLED_BACK", "SUCCEEDED"} : committed /\ Stop(e, state)
    BY <1>1 DEF Monitor, Halt
  <2> QED  BY <2>1, StopKeeps DEF ExecStates
<1> QED
  BY <1>1, LaunchKeeps, FailureKeeps, LookAtOrderKeeps, CaptureOrderKeeps, MarkPaidKeeps,
     ExpireLinkKeeps, SettleControlKeeps, MeasureKeeps, CancelGuardKeeps, ClaimKeeps, CrashKeeps,
     PayKeeps, TimePassesKeeps DEF Next

LEMMA BatchStart ==
    ASSUME Init
    PROVE  BatchInv
<1>1. BatchTypeOK
  <2>1. /\ NoPayment \in PaymentRow /\ NoRequest \in Request
        /\ [at |-> "launch", group |-> 0, found |-> {}]
              \in [at : Places, group : 0 .. N, found : SUBSET Groups]
    BY BatchAssumption DEF NoPayment, PaymentRow, Places, NoRequest, Request
  <2> QED  BY <2>1, FS_EmptySet DEF Init, BatchTypeOK, Arms, LinkStates, ExecStates
<1>2. Designed /\ Finds /\ Records /\ Claims /\ Books /\ Holds
  BY Refs DEF Init, Designed, Finds, OwnOf, Records, NoOutcomes, Claims, Books, NoPayment,
     Holds, NoRequest
<1> QED  BY <1>1, <1>2 DEF BatchInv

THEOREM BatchInvariant == Spec => []BatchInv
<1> QED  BY BatchStart, BatchStep, PTL DEF Spec

------------------------------------------------------------------------------
(* What it comes to.                                                       *)

(***************************************************************************)
(* The stored outcomes are what happened to the money: with any worker,    *)
(* operator, payer or crash in between, an outcome that run_flagship       *)
(* records is "recovered" exactly for the groups of which the batch's own  *)
(* payment is successful.                                                  *)
(***************************************************************************)
THEOREM OutcomesAreCaptures == Spec => []OutcomeWasCaptured
<1>1. ASSUME BatchInv, NEW g \in Groups, outcomes[g] # "none"
      PROVE  outcomes[g] = "recovered" <=> payments[<<"batch", g>>].status = "success"
  <2>1. outcomes[g] = "recovered" <=> <<"batch", g>> \in captured
    BY <1>1 DEF BatchInv, Records, NoOutcomes, Recorded, OwnOf
  <2>2. <<"batch", g>> \in PaymentRefs
    BY Refs
  <2> QED  BY <1>1, <2>1, <2>2 DEF BatchInv, Books
<1>2. BatchInv => OutcomeWasCaptured
  BY <1>1 DEF OutcomeWasCaptured
<1> QED  BY <1>2, BatchInvariant, PTL

(***************************************************************************)
(* protected_mtd_paise is backed: whatever the arms' sizes, the amounts    *)
(* and the costs are, whoever else pays and however the lift is rounded,   *)
(* revenue is claimed only of a finished experiment whose controls were    *)
(* left alone and whose treated groups did better, and never more than     *)
(* these have paid to the batch.                                           *)
(***************************************************************************)
THEOREM ClaimIsBacked == Spec => []ClaimBacked
<1>1. ASSUME BatchInv PROVE ClaimBacked
  <2>1. SUFFICES ASSUME claimed > 0
                 PROVE  LET t == Arm("treatment")
                            c == Arm("control")
                        IN  /\ \A g \in c : g \notin bound /\ links[g] = "none"
                            /\ stopped /\ \A g \in Groups : outcomes[g] # "none"
                            /\ Cardinality(OwnOf(t)) * Cardinality(c)
                                  > Cardinality(OwnOf(c)) * Cardinality(t)
                            /\ claimed <= Amount * Cardinality(OwnOf(t))
    BY DEF ClaimBacked
  <2>2. ctl.at = "done" /\ claimed = Claimed(Results(outcomes))
    BY <1>1, <2>1 DEF BatchInv, Claims, BatchTypeOK
  <2>3. outcomes = Recorded(OwnOf(Groups)) /\ stopped
    BY <1>1, <2>2 DEF BatchInv, Records
  <2>4. /\ \A g \in Arm("control") : g \notin bound /\ links[g] = "none"
        /\ Arm("control") # {}
    BY <1>1, <2>2 DEF BatchInv, Designed, Arm
  <2>5. \A g \in Groups : outcomes[g] # "none"
    BY <2>3 DEF Recorded
  <2>6. BatchTypeOK
    BY <1>1 DEF BatchInv
  <2> QED  BY <2>1, <2>2, <2>3, <2>4, <2>5, <2>6, ResultsBacked
<1> QED  BY <1>1, BatchInvariant, PTL

(***************************************************************************)
(* The portfolio is the sum of the captures: refresh_portfolio counts each *)
(* once, though two webhooks tell of a paid link, and what is claimed is   *)
(* part of it.                                                             *)
(***************************************************************************)
THEOREM RevenueIsCaptured == Spec => []RevenueFromCaptures
<1>1. BatchInv => RevenueFromCaptures
  BY BookedIs DEF BatchInv, Claims, RevenueFromCaptures
<1> QED  BY <1>1, BatchInvariant, PTL

==============================================================================
