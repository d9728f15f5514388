---------------------------- MODULE CheckoutProofs ----------------------------
(***************************************************************************)
(* Proofs about PaymentLedger and about Checkout, which extends it, for    *)
(* every set of payments, orders, refunds, events, keys and request        *)
(* handlers that satisfies their assumptions.  (Spec is the ledger's       *)
(* specification and CheckoutSpec that of the composition.)                *)
(*                                                                         *)
(* The ledger: held refunds are settled by a loop over the refund rows, in *)
(* the order of their creation.  RunningTotal is that loop as a recursive  *)
(* function, so the first lemmas establish what it computes, by induction  *)
(* on the rows.                                                            *)
(*                                                                         *)
(* Checkout: a request goes by rows that it read before others changed     *)
(* them.  What makes this harmless is what the ledger never takes back:    *)
(* LedgerKeeps.                                                            *)
(***************************************************************************)
EXTENDS Checkout, LedgerHistory, NatFacts

------------------------------------------------------------------------------
(* The loop that settles held refunds.                                     *)


(***************************************************************************)
(* A loop of n iterations has a run: the values before and after each.     *)
(***************************************************************************)
LEMMA RunExists ==
    ASSUME NEW n \in Nat, NEW start \in Nat, NEW step \in [1 .. n -> [Nat -> Nat]]
    PROVE  \E f \in [0 .. n -> Nat] :
              f[0] = start /\ \A i \in 1 .. n : f[i] = step[i][f[i-1]]
<1> DEFINE IsRun(f, k) == /\ f \in [0 .. k -> Nat]
                          /\ f[0] = start
                          /\ \A i \in 1 .. k : f[i] = step[i][f[i-1]]
           Runnable == {k \in 0 .. n : \E f : IsRun(f, k)}
<1>1. 0 \in Runnable
  <2>1. IsRun([i \in 0 .. 0 |-> start], 0)
    OBVIOUS
  <2>2. 0 \in 0 .. n
    OBVIOUS
  <2> HIDE DEF IsRun
  <2> QED  BY <2>1, <2>2
<1>2. ASSUME NEW k \in 1 .. n, k-1 \in Runnable
      PROVE  k \in Runnable
  <2>1. PICK f : IsRun(f, k-1)
    BY <1>2
  <2> DEFINE g == [i \in 0 .. k |-> IF i < k THEN f[i] ELSE step[k][f[k-1]]]
  <2>2. f[k-1] \in Nat /\ step[k] \in [Nat -> Nat]
    <3>1. k-1 \in 0 .. (k-1)
      OBVIOUS
    <3> QED  BY <3>1, <2>1
  <2>3. g \in [0 .. k -> Nat] /\ g[0] = start
    <3>1. ASSUME NEW i \in 0 .. k
          PROVE  (IF i < k THEN f[i] ELSE step[k][f[k-1]]) \in Nat
      <4>1. CASE i < k
        <5>1. i \in 0 .. (k-1)
          BY <4>1
        <5> QED  BY <5>1, <4>1, <2>1
      <4>2. CASE ~ (i < k)
        BY <4>2, <2>2
      <4> QED  BY <4>1, <4>2
    <3>2. 0 \in 0 .. k /\ 0 < k
      OBVIOUS
    <3> QED  BY <3>1, <3>2, <2>1
  <2>4. ASSUME NEW i \in 1 .. k
        PROVE  g[i] = step[i][g[i-1]]
    <3>1. g[i-1] = f[i-1]
      OBVIOUS
    <3>2. CASE i = k
      BY <3>1, <3>2
    <3>3. CASE i # k
      <4>1. i \in 1 .. (k-1) /\ g[i] = f[i]
        BY <3>3
      <4> QED  BY <4>1, <3>1, <2>1
    <3> QED  BY <3>2, <3>3
  <2>5. IsRun(g, k)
    BY <2>3, <2>4
  <2>6. k \in 0 .. n
    OBVIOUS
  <2> HIDE DEF IsRun, g
  <2> QED  BY <2>5, <2>6
<1>3. n \in Runnable
  <2>1. 0 .. n \subseteq Runnable
    <3> HIDE DEF Runnable
    <3> QED  BY <1>1, <1>2, LoopInduction
  <2>2. n \in 0 .. n
    OBVIOUS
  <2> HIDE DEF Runnable
  <2> QED  BY <2>1, <2>2
<1>4. PICK f : IsRun(f, n)
  <2> HIDE DEF IsRun
  <2> QED  BY <1>3
<1> QED  BY <1>4

------------------------------------------------------------------------------
(* The settlement of held refunds.                                         *)

\* One iteration of the loop: the total after row i, from the total before it.
SettleRow(p, row, i, total) ==
    IF /\ Held(arrival[i], p)
       /\ Fits(total, refund[arrival[i]].amount, row.amount)
    THEN total + refund[arrival[i]].amount
    ELSE total

(***************************************************************************)
(* RunningTotal computes the totals of the loop.                           *)
(***************************************************************************)
LEMMA RunningTotalUnfolds ==
    ASSUME NEW p \in Payments, NEW row \in PaymentRow, TypeOK
    PROVE  RunningTotal(p, row) =
             [i \in 0 .. Len(arrival) |->
                IF i = 0 THEN row.refunded
                ELSE SettleRow(p, row, i, RunningTotal(p, row)[i-1])]
<1> DEFINE n == Len(arrival)
           step == [i \in 1 .. n |-> [v \in Nat |-> SettleRow(p, row, i, v)]]
           IsTotal(t) == t = [i \in 0 .. n |->
                                IF i = 0 THEN row.refunded
                                ELSE SettleRow(p, row, i, t[i-1])]
<1>1. step \in [1 .. n -> [Nat -> Nat]]
  BY DEF TypeOK, RefundRow, SettleRow, Held, Fits
<1>2. n \in Nat /\ row.refunded \in Nat
  BY DEF TypeOK, PaymentRow
<1>3. PICK f \in [0 .. n -> Nat] :
          f[0] = row.refunded /\ \A i \in 1 .. n : f[i] = step[i][f[i-1]]
  <2> HIDE DEF n, step
  <2> QED  BY <1>1, <1>2, RunExists
<1>4. IsTotal(f)
  <2>1. ASSUME NEW i \in 1 .. n
        PROVE  f[i] = SettleRow(p, row, i, f[i-1])
    <3>1. f[i-1] \in Nat
      BY <1>2
    <3>2. f[i] = step[i][f[i-1]]
      BY <1>3
    <3>3. step[i] = [v \in Nat |-> SettleRow(p, row, i, v)]
      OBVIOUS
    <3> QED  BY <3>1, <3>2, <3>3
  <2> QED  BY <1>2, <1>3, <2>1
<1>5. RunningTotal(p, row) = CHOOSE t : IsTotal(t)
  BY DEF RunningTotal, SettleRow
<1>6. IsTotal(RunningTotal(p, row))
  <2> HIDE DEF IsTotal
  <2> QED  BY <1>4, <1>5
<1> QED  BY <1>6

(***************************************************************************)
(* Settling held refunds moves the refunded total up, within the amount,   *)
(* and leaves it alone when nothing is credited.                           *)
(***************************************************************************)
LEMMA SettlingBounds ==
    ASSUME NEW p \in Payments, NEW row \in PaymentRow, TypeOK,
           row.refunded <= row.amount
    PROVE  LET total == RunningTotal(p, row)[Len(arrival)]
           IN  /\ total \in row.refunded .. row.amount
               /\ Settleable(p, row) = {} => total = row.refunded
<1> DEFINE n == Len(arrival)
           t == RunningTotal(p, row)
           InBounds == {i \in 0 .. n :
                          /\ t[i] \in row.refunded .. row.amount
                          /\ Settleable(p, row) = {} => t[i] = row.refunded}
<1>1. t = [i \in 0 .. n |-> IF i = 0 THEN row.refunded
                            ELSE SettleRow(p, row, i, t[i-1])]
  BY RunningTotalUnfolds
<1>2. n \in Nat /\ row.refunded \in Nat /\ row.amount \in Nat
  BY DEF TypeOK, PaymentRow
<1>3. 0 \in InBounds
  <2>1. 0 \in 0 .. n
    BY <1>2
  <2>2. t[0] = row.refunded
    <3> HIDE DEF t
    <3> QED  BY <1>1, <2>1
  <2> QED  BY <2>1, <2>2, <1>2
<1>4. ASSUME NEW i \in 1 .. n, i-1 \in InBounds
      PROVE  i \in InBounds
  <2>1. t[i] = SettleRow(p, row, i, t[i-1])
    <3>1. i \in 0 .. n /\ i # 0
      OBVIOUS
    <3> HIDE DEF t
    <3> QED  BY <1>1, <3>1
  <2>2. refund[arrival[i]].amount \in Nat
    BY DEF TypeOK, RefundRow
  <2>3. CASE /\ Held(arrival[i], p)
             /\ Fits(t[i-1], refund[arrival[i]].amount, row.amount)
    <3>1. arrival[i] \in Settleable(p, row)
      BY <2>3 DEF Settleable
    <3>2. t[i] = t[i-1] + refund[arrival[i]].amount
      <4> HIDE DEF t
      <4> QED  BY <2>1, <2>3 DEF SettleRow
    <3> HIDE DEF t
    <3> QED  BY <3>1, <3>2, <2>2, <2>3, <1>2, <1>4 DEF Fits
  <2>4. CASE ~ /\ Held(arrival[i], p)
               /\ Fits(t[i-1], refund[arrival[i]].amount, row.amount)
    <3>1. t[i] = t[i-1]
      <4> HIDE DEF t
      <4> QED  BY <2>1, <2>4 DEF SettleRow
    <3> HIDE DEF t
    <3> QED  BY <3>1, <1>4
  <2> QED  BY <2>3, <2>4
<1>5. n \in InBounds
  <2>1. 0 .. n \subseteq InBounds
    <3> HIDE DEF InBounds, n
    <3> QED  BY <1>2, <1>3, <1>4, LoopInduction
  <2>2. n \in 0 .. n
    BY <1>2
  <2> HIDE DEF InBounds
  <2> QED  BY <2>1, <2>2
<1> QED  BY <1>5

------------------------------------------------------------------------------
(* The inductive invariant.                                                *)

\* A payment row whose refunded total agrees with its status and its amount.
GoodRow ==
    {row \in PaymentRow :
        /\ row.refunded <= row.amount
        /\ row.refunded > 0 => row.status \in CapturedStatuses
        /\ row.status = "refunded" => row.refunded = row.amount
        /\ row.refunded = row.amount /\ row.amount > 0 => row.status = "refunded"
        /\ row.status = "absent" => row.order = None}

\* An order without a row has had nothing paid.
GoodOrder == {row \in OrderRow : row.status = "absent" => row.paid = 0}

\* A refund row belongs to the payment its events name.
RefundsNameTheirPayment ==
    \A e \in Events :
        e.type \in RefundTypes /\ refund[e.refund].status # "absent"
            => refund[e.refund].payment = e.payment

IInv ==
    /\ payment \in [Payments -> GoodRow]
    /\ order \in [Orders -> GoodOrder]
    /\ refund \in [Refunds -> RefundRow]
    /\ arrival \in Seq(Refunds)
    /\ NothingLeftHeld
    /\ RefundsNameTheirPayment

(***************************************************************************)
(* The inductive invariant gives the invariants that the runs check.       *)
(***************************************************************************)
LEMMA IInvImplies ==
    IInv => /\ TypeOK /\ RefundsWithinCapture
            /\ RefundedMeansInFull /\ NothingLeftHeld
<1> SUFFICES ASSUME IInv
             PROVE  /\ TypeOK /\ RefundsWithinCapture
                    /\ RefundedMeansInFull /\ NothingLeftHeld
  OBVIOUS
<1>1. GoodRow \subseteq PaymentRow /\ GoodOrder \subseteq OrderRow
  BY DEF GoodRow, GoodOrder
<1>2. TypeOK
  BY <1>1 DEF IInv, TypeOK
<1>3. \A p \in Payments : payment[p] \in GoodRow
  BY DEF IInv
<1> QED  BY <1>2, <1>3 DEF IInv, GoodRow, RefundsWithinCapture,
                           RefundedMeansInFull, Captured

\* The empty tables satisfy the invariant.
LEMMA InitIInv == Init => IInv
<1> SUFFICES ASSUME Init PROVE IInv
  OBVIOUS
<1>1. NoPayment \in GoodRow /\ NoOrder \in GoodOrder /\ NoRefund \in RefundRow
  BY DEF GoodOrder, NoPayment, NoOrder, NoRefund, GoodRow, PaymentRow, OrderRow, RefundRow,
         PaymentStatuses, RefundStatuses, ProviderRefundStatuses, CapturedStatuses
<1>2. \A p \in Payments : payment[p].status = "absent"
  BY DEF Init, NoPayment
<1>3. \A r \in Refunds : refund[r].status = "absent"
  BY DEF Init, NoRefund
<1>4. NothingLeftHeld
  BY <1>2 DEF NothingLeftHeld, SweepHasWork, CapturedStatuses
<1>5. RefundsNameTheirPayment
  BY <1>3, EventsAssumption DEF RefundsNameTheirPayment
<1> QED  BY <1>1, <1>4, <1>5 DEF Init, IInv

(***************************************************************************)
(* The row an event works on is a good row, and differs from the stored    *)
(* row of a known payment only in its group and a missing order.           *)
(***************************************************************************)
LEMMA EnsuredFacts ==
    ASSUME NEW e \in Events, IInv
    PROVE  /\ Ensured(e) \in GoodRow
           /\ payment[e.payment].status = "absent"
                => Ensured(e).status = "created" /\ Ensured(e).refunded = 0
           /\ payment[e.payment].status # "absent"
                => /\ Ensured(e).status = payment[e.payment].status
                   /\ Ensured(e).amount = payment[e.payment].amount
                   /\ Ensured(e).refunded = payment[e.payment].refunded
           /\ payment[e.payment].status # "absent" /\ payment[e.payment].order # None
                => Ensured(e).order = payment[e.payment].order
<1> DEFINE old == payment[e.payment]
           new == [status |-> "created", amount |-> Or(e.paymentAmount, e.amount),
                   order |-> e.order, group |-> e.group, refunded |-> 0,
                   recovered |-> FALSE]
           linked == [old EXCEPT !.order = e.order]
<1>1. /\ e.payment \in Payments /\ e.group \in Groups /\ e.order \in Orders \cup {None}
      /\ Or(e.paymentAmount, e.amount) \in Nat
  BY EventsAssumption DEF CanonicalEvent, Or
<1>2. old \in GoodRow /\ old \in PaymentRow
  BY <1>1 DEF IInv, GoodRow
<1>3. new \in GoodRow
  BY <1>1 DEF GoodRow, PaymentRow, PaymentStatuses, CapturedStatuses
<1>4. old.status # "absent" => linked \in GoodRow
  BY <1>1, <1>2 DEF GoodRow, PaymentRow
<1>5. ASSUME NEW row \in GoodRow
      PROVE  /\ [row EXCEPT !.group = e.group] \in GoodRow
             /\ [row EXCEPT !.group = e.group].status = row.status
             /\ [row EXCEPT !.group = e.group].amount = row.amount
             /\ [row EXCEPT !.group = e.group].refunded = row.refunded
             /\ [row EXCEPT !.group = e.group].order = row.order
  BY <1>1 DEF GoodRow, PaymentRow
<1> DEFINE base == IF old.status = "absent" THEN new
                   ELSE IF old.order = None THEN linked ELSE old
<1>6. /\ base \in GoodRow
      /\ old.status = "absent" => base.status = "created" /\ base.refunded = 0
      /\ old.status # "absent" => /\ base.status = old.status
                                  /\ base.amount = old.amount
                                  /\ base.refunded = old.refunded
      /\ old.status # "absent" /\ old.order # None => base.order = old.order
  BY <1>2, <1>3, <1>4 DEF PaymentRow
<1>7. Ensured(e) = IF e.link THEN [base EXCEPT !.group = e.group] ELSE base
  BY DEF Ensured
<1>8. CASE e.link
  <2> HIDE DEF base
  <2> QED  BY <1>5, <1>6, <1>7, <1>8
<1>9. CASE ~ e.link
  <2> HIDE DEF base
  <2> QED  BY <1>6, <1>7, <1>9
<1> QED  BY <1>8, <1>9

------------------------------------------------------------------------------
(* What one event does to the payment it names.                            *)

\* How the row of a payment may change.
Moves(old, new) ==
    /\ new \in GoodRow
    /\ new.status # "absent"
    /\ old.status \in CapturedStatuses => new.status \in CapturedStatuses
    /\ old.status = "refunded" => new.status = "refunded"
    /\ old.status # "absent" => new.amount = old.amount
    /\ old.order # None => new.order = old.order
    /\ old.refunded <= new.refunded

\* The row that an event finds or creates is one the payment may move to.
LEMMA EnsuredMoves ==
    ASSUME NEW e \in Events, IInv
    PROVE  Moves(payment[e.payment], Ensured(e))
<1>1. e.payment \in Payments
  BY EventsAssumption DEF CanonicalEvent
<1>2. payment[e.payment] \in GoodRow
  BY <1>1 DEF IInv
<1> QED  BY <1>2, EnsuredFacts DEF Moves, GoodRow, PaymentRow, CapturedStatuses

\* The lifecycle never leaves a captured state.
LEMMA LifecycleMoves ==
    ASSUME NEW e \in Events, IInv, e.type \in PaymentTypes,
           CanTransition(Ensured(e).status, Target(e.type))
    PROVE  /\ e.type \notin CaptureTypes
                => /\ [Ensured(e) EXCEPT !.status = Target(e.type)] \in GoodRow
                   /\ Ensured(e).status \notin CapturedStatuses
                   /\ Target(e.type) \notin CapturedStatuses \cup {"absent"}
           /\ e.type \in CaptureTypes
                => Target(e.type) = "success" /\ Ensured(e).status # "refunded"
<1>1. Ensured(e) \in GoodRow /\ Ensured(e) \in PaymentRow
  BY EnsuredFacts DEF GoodRow
<1>2. Target(e.type) = "success" <=> e.type \in CaptureTypes
  BY DEF Target, PaymentTypes, CaptureTypes
<1>3. Target(e.type) \in {"created", "authorized", "timeout", "failed", "success"}
  BY DEF Target, PaymentTypes, CaptureTypes
<1>4. Allowed("success") = {} /\ Allowed("refunded") = {}
  BY DEF Allowed
<1>5. CASE e.type \in CaptureTypes
  <2>1. Target(e.type) = "success"
    BY <1>2, <1>5
  <2> QED  BY <2>1, <1>4, <1>5 DEF CanTransition
<1>6. CASE e.type \notin CaptureTypes
  <2>1. Target(e.type) \in {"created", "authorized", "timeout", "failed"}
    BY <1>2, <1>3, <1>6
  <2>2. Ensured(e).status \notin CapturedStatuses
    BY <2>1, <1>4 DEF CanTransition, CapturedStatuses
  <2>3. [Ensured(e) EXCEPT !.status = Target(e.type)] \in GoodRow
    BY <2>1, <2>2, <1>1 DEF GoodRow, PaymentRow, PaymentStatuses, CapturedStatuses
  <2> QED  BY <2>1, <2>2, <2>3, <1>6 DEF CapturedStatuses
<1> QED  BY <1>5, <1>6

\* An event that is not a capture never leaves a capture behind.
LEMMA ProgressMoves ==
    ASSUME NEW e \in Events, IInv, ProgressEvent(e)
    PROVE  /\ Moves(payment[e.payment], [Ensured(e) EXCEPT !.status = Target(e.type)])
           /\ Target(e.type) \notin CapturedStatuses
<1>1. e.type \in PaymentTypes \ CaptureTypes
      /\ CanTransition(Ensured(e).status, Target(e.type))
  BY DEF ProgressEvent
<1>2. Moves(payment[e.payment], Ensured(e))
  BY EnsuredMoves
<1> QED  BY <1>1, <1>2, LifecycleMoves DEF Moves, GoodRow, PaymentRow, CapturedStatuses

\* A credit that fits keeps the row good.
LEMMA CreditMoves ==
    ASSUME NEW e \in Events, IInv, Ensured(e).status \in CapturedStatuses,
           NEW amount \in Nat, Fits(Ensured(e).refunded, amount, Ensured(e).amount)
    PROVE  Moves(payment[e.payment], Credited(Ensured(e), amount))
<1> DEFINE row == Ensured(e)
<1>1. row \in PaymentRow /\ row \in GoodRow /\ Moves(payment[e.payment], row)
  BY EnsuredFacts, EnsuredMoves DEF GoodRow
<1>2. Credited(row, amount)
        = [row EXCEPT !.refunded = row.refunded + amount,
                      !.status = IF row.refunded + amount = row.amount
                                 THEN "refunded" ELSE row.status]
  BY DEF Credited
<1>3. /\ Credited(row, amount) \in PaymentRow
      /\ Credited(row, amount).amount = row.amount
      /\ Credited(row, amount).order = row.order
      /\ Credited(row, amount).refunded = row.refunded + amount
      /\ Credited(row, amount).status = IF row.refunded + amount = row.amount
                                        THEN "refunded" ELSE row.status
  <2> DEFINE sum == row.refunded + amount
             status == IF sum = row.amount THEN "refunded" ELSE row.status
  <2>1. sum \in Nat /\ status \in PaymentStatuses
    BY <1>1 DEF PaymentRow, PaymentStatuses
  <2>2. Credited(row, amount) = [row EXCEPT !.refunded = sum, !.status = status]
    BY <1>2
  <2> HIDE DEF row, sum, status
  <2>3. /\ Credited(row, amount) \in PaymentRow
        /\ Credited(row, amount).amount = row.amount
        /\ Credited(row, amount).order = row.order
        /\ Credited(row, amount).refunded = sum
        /\ Credited(row, amount).status = status
    BY <1>1, <2>1, <2>2 DEF PaymentRow
  <2> QED  BY <2>3 DEF sum, status
<1>4. Credited(row, amount) \in GoodRow
  <2>1. row.refunded + amount <= row.amount /\ row.status \in CapturedStatuses
    BY DEF Fits
  <2>2. row.refunded \in Nat /\ row.amount \in Nat
    BY <1>1 DEF PaymentRow
  <2>3. row.status = "refunded" => row.refunded = row.amount
    BY <1>1 DEF GoodRow
  <2> HIDE DEF row
  <2> QED  BY <1>3, <2>1, <2>2, <2>3 DEF GoodRow, CapturedStatuses
<1>5. payment[e.payment].refunded \in Nat /\ row.refunded \in Nat
  BY <1>1, EventsAssumption DEF CanonicalEvent, IInv, GoodRow, PaymentRow
<1>6. payment[e.payment].refunded <= row.refunded + amount
  BY <1>1, <1>5 DEF Moves
<1>7. row.status = "refunded" => Credited(row, amount).status = "refunded"
  BY <1>3
<1> QED  BY <1>1, <1>3, <1>4, <1>6, <1>7 DEF Moves, CapturedStatuses

\* Capturing a payment and settling its held refunds keeps the row good.
LEMMA CaptureMoves ==
    ASSUME NEW e \in Events, IInv, CaptureEvent(e)
    PROVE  LET row  == [Ensured(e) EXCEPT !.status = "success"]
               done == AfterSettling(e.payment, row)
           IN  /\ row \in PaymentRow
               /\ Moves(payment[e.payment], done)
               /\ done.status \in CapturedStatuses
<1> DEFINE row == [Ensured(e) EXCEPT !.status = "success"]
           done == AfterSettling(e.payment, row)
           total == RunningTotal(e.payment, row)[Len(arrival)]
<1>1. /\ Ensured(e) \in GoodRow /\ Ensured(e) \in PaymentRow
      /\ Moves(payment[e.payment], Ensured(e))
  BY EnsuredFacts, EnsuredMoves DEF GoodRow
<1>2. e.payment \in Payments /\ payment[e.payment] \in PaymentRow
  BY EventsAssumption DEF CanonicalEvent, IInv, GoodRow
<1>3. Ensured(e).status # "refunded"
  BY LifecycleMoves DEF CaptureEvent, CaptureTypes, PaymentTypes
<1>4. /\ row \in PaymentRow
      /\ row.refunded = Ensured(e).refunded /\ row.amount = Ensured(e).amount
      /\ row.order = Ensured(e).order /\ row.status = "success"
      /\ row.refunded \in Nat /\ row.amount \in Nat /\ row.refunded <= row.amount
  BY <1>1 DEF GoodRow, PaymentRow, PaymentStatuses
<1>5. row.refunded = row.amount => row.amount = 0
  BY <1>1, <1>3, <1>4 DEF GoodRow
<1>6. /\ total \in row.refunded .. row.amount
      /\ Settleable(e.payment, row) = {} => total = row.refunded
  <2> HIDE DEF row
  <2> QED  BY <1>2, <1>4, SettlingBounds, IInvImplies
<1>7. done = [row EXCEPT !.refunded = total,
                         !.status = IF Settleable(e.payment, row) # {}
                                       /\ total = row.amount
                                    THEN "refunded" ELSE row.status]
  BY DEF AfterSettling
<1>8. /\ done \in PaymentRow
      /\ done.refunded = total /\ done.amount = row.amount /\ done.order = row.order
      /\ done.status = IF Settleable(e.payment, row) # {} /\ total = row.amount
                       THEN "refunded" ELSE "success"
  <2>1. total \in Nat
    BY <1>4, <1>6
  <2> HIDE DEF row, done, total
  <2> QED  BY <2>1, <1>4, <1>7 DEF PaymentRow, PaymentStatuses
<1>9. done \in GoodRow
  <2> HIDE DEF row, done, total
  <2> QED  BY <1>4, <1>5, <1>6, <1>8 DEF GoodRow, CapturedStatuses
<1>10. payment[e.payment].refunded <= total
  <2>1. payment[e.payment].refunded \in Nat
    BY <1>2 DEF PaymentRow
  <2> HIDE DEF row, done, total
  <2> QED  BY <2>1, <1>1, <1>4, <1>6 DEF Moves
<1>11. Moves(payment[e.payment], done)
  <2>1. payment[e.payment].status # "refunded"
    BY <1>1, <1>3 DEF Moves
  <2> HIDE DEF row, done, total
  <2> QED  BY <2>1, <1>1, <1>4, <1>8, <1>9, <1>10 DEF Moves, CapturedStatuses
<1> QED  BY <1>4, <1>8, <1>11 DEF CapturedStatuses

------------------------------------------------------------------------------
(* The inductive step, table by table.                                     *)

\* What an event does to the payments: one row moves, and a success may label
\* rows recovered.
LEMMA PaymentsStep ==
    ASSUME NEW e \in Events, IInv, ApplyEvent(e)
    PROVE  /\ payment' \in [Payments -> GoodRow]
           /\ Moves(payment[e.payment], payment'[e.payment])
           /\ \A q \in Payments \ {e.payment} :
                 payment'[q] = [payment[q] EXCEPT !.recovered = payment'[q].recovered]
<1> DEFINE p == e.payment
<1>1. /\ p \in Payments
      /\ payment \in [Payments -> GoodRow]
      /\ \A q \in Payments : payment[q] \in PaymentRow
  BY EventsAssumption DEF CanonicalEvent, IInv, GoodRow
<1>2. ASSUME NEW row, Moves(payment[p], row), payment' = [payment EXCEPT ![p] = row]
      PROVE  /\ payment' \in [Payments -> GoodRow]
             /\ Moves(payment[p], payment'[p])
             /\ \A q \in Payments \ {p} :
                   payment'[q] = [payment[q] EXCEPT !.recovered = payment'[q].recovered]
  <2>1. payment'[p] = row /\ \A q \in Payments \ {p} : payment'[q] = payment[q]
    BY <1>1, <1>2
  <2>2. row \in GoodRow
    BY <1>2 DEF Moves
  <2>3. \A q \in Payments : [payment[q] EXCEPT !.recovered = payment[q].recovered] = payment[q]
    BY <1>1 DEF PaymentRow
  <2> QED  BY <1>1, <1>2, <2>1, <2>2, <2>3
<1>3. Moves(payment[p], Ensured(e))
  BY EnsuredMoves
<1>4. CASE \/ LateEvent(e) \/ RefundAmountChanged(e) \/ RefundNoted(e)
           \/ RefundRepeated(e) \/ RefundHeld(e)
  <2>1. payment' = [payment EXCEPT ![p] = Ensured(e)]
    BY <1>4 DEF LateEvent, RefundAmountChanged, RefundNoted, RefundRepeated, RefundHeld
  <2> QED  BY <2>1, <1>2, <1>3
<1>5. CASE ProgressEvent(e)
  <2>1. Moves(payment[p], [Ensured(e) EXCEPT !.status = Target(e.type)])
    BY <1>5, ProgressMoves
  <2>2. payment' = [payment EXCEPT ![p] = [Ensured(e) EXCEPT !.status = Target(e.type)]]
    BY <1>5 DEF ProgressEvent
  <2> QED  BY <2>1, <2>2, <1>2
<1>6. CASE RefundSettled(e)
  <2> DEFINE amount == EnsuredRefund(e).amount
  <2>1. amount \in Nat
    BY EventsAssumption, <1>6
       DEF EnsuredRefund, CanonicalEvent, IInv, RefundRow, RefundSettled,
           ProcessedRefund, RefundArrives
  <2>2. CASE Fits(Ensured(e).refunded, amount, Ensured(e).amount)
    <3>1. payment' = [payment EXCEPT ![p] = Credited(Ensured(e), amount)]
      BY <1>6, <2>2 DEF RefundSettled
    <3>2. Moves(payment[p], Credited(Ensured(e), amount))
      BY <1>6, <2>1, <2>2, CreditMoves DEF RefundSettled
    <3> QED  BY <3>1, <3>2, <1>2
  <2>3. CASE ~ Fits(Ensured(e).refunded, amount, Ensured(e).amount)
    <3>1. payment' = [payment EXCEPT ![p] = Ensured(e)]
      BY <1>6, <2>3 DEF RefundSettled
    <3> QED  BY <3>1, <1>2, <1>3
  <2> QED  BY <2>2, <2>3
<1>7. CASE CaptureEvent(e)
  <2> DEFINE done == AfterSettling(p, [Ensured(e) EXCEPT !.status = "success"])
             base(q) == IF q = p THEN done ELSE payment[q]
             flag(q) == base(q).recovered \/ q \in NewlyRecovered(e)
  <2>1. Moves(payment[p], done)
    BY <1>7, CaptureMoves
  <2>2. payment' = [q \in Payments |-> [base(q) EXCEPT !.recovered = flag(q)]]
    BY <1>7 DEF CaptureEvent
  <2>3. ASSUME NEW row \in GoodRow, NEW b \in BOOLEAN
        PROVE  /\ [row EXCEPT !.recovered = b] \in GoodRow
               /\ [row EXCEPT !.recovered = b].recovered = b
               /\ \A old : Moves(old, row) => Moves(old, [row EXCEPT !.recovered = b])
    <3>1. [row EXCEPT !.recovered = b] \in GoodRow
      BY DEF GoodRow, PaymentRow
    <3>2. /\ [row EXCEPT !.recovered = b].status = row.status
          /\ [row EXCEPT !.recovered = b].amount = row.amount
          /\ [row EXCEPT !.recovered = b].order = row.order
          /\ [row EXCEPT !.recovered = b].refunded = row.refunded
          /\ [row EXCEPT !.recovered = b].recovered = b
      BY DEF GoodRow, PaymentRow
    <3> QED  BY <3>1, <3>2 DEF Moves
  <2>4. \A q \in Payments : base(q) \in GoodRow /\ flag(q) \in BOOLEAN
    BY <1>1, <2>1 DEF Moves, GoodRow, PaymentRow
  <2>5. \A q \in Payments : payment'[q] = [base(q) EXCEPT !.recovered = flag(q)]
    BY <2>2
  <2>6. base(p) = done /\ \A q \in Payments \ {p} : base(q) = payment[q]
    OBVIOUS
  <2> HIDE DEF done, base, flag, p
  <2>7. payment' \in [Payments -> GoodRow]
    BY <2>2, <2>3, <2>4
  <2>8. Moves(payment[p], payment'[p])
    <3>1. done \in GoodRow /\ flag(p) \in BOOLEAN
      BY <1>1, <2>4, <2>6
    <3>2. payment'[p] = [done EXCEPT !.recovered = flag(p)]
      BY <1>1, <2>5, <2>6
    <3> QED  BY <3>1, <3>2, <2>1, <2>3
  <2>9. ASSUME NEW q \in Payments \ {p}
        PROVE  payment'[q] = [payment[q] EXCEPT !.recovered = payment'[q].recovered]
    <3>1. payment[q] \in GoodRow /\ flag(q) \in BOOLEAN
      BY <1>1, <2>4
    <3>2. payment'[q] = [payment[q] EXCEPT !.recovered = flag(q)]
      BY <2>5, <2>6
    <3>3. payment'[q].recovered = flag(q)
      BY <3>1, <3>2, <2>3
    <3> QED  BY <3>2, <3>3
  <2> QED  BY <2>7, <2>8, <2>9 DEF p
<1> QED  BY <1>4, <1>5, <1>6, <1>7 DEF ApplyEvent

\* What an event does to the orders: rows stay well formed, and the amount paid
\* does not fall.
LEMMA OrdersStep ==
    ASSUME NEW e \in Events, IInv, ApplyEvent(e)
    PROVE  /\ order' \in [Orders -> GoodOrder]
           /\ \A o \in Orders : order[o].paid <= order'[o].paid
<1>1. order \in [Orders -> GoodOrder] /\ \A o \in Orders : order[o].paid \in Nat
  BY DEF IInv, GoodOrder, OrderRow
<1>2. Ensured(e) \in PaymentRow /\ Ensured(e).amount \in Nat /\ e.orderAmount \in Nat
  BY EnsuredFacts, EventsAssumption DEF GoodRow, PaymentRow, CanonicalEvent
<1>3. ASSUME NEW o \in Orders
      PROVE  /\ EnsuredOrder(e, o) \in GoodOrder
             /\ EnsuredOrder(e, o) \in OrderRow
             /\ EnsuredOrder(e, o).paid = order[o].paid
  <2>1. CASE order[o].status = "absent"
    BY <1>1, <1>2, <2>1 DEF EnsuredOrder, NoOrder, GoodOrder, OrderRow, Or
  <2>2. CASE order[o].status # "absent"
    BY <1>1, <1>2, <2>2 DEF EnsuredOrder, GoodOrder, OrderRow, Or
  <2> QED  BY <2>1, <2>2
<1>4. CASE LateEvent(e)
  BY <1>1, <1>4 DEF LateEvent
<1>5. CASE EnsureOrder(e)
  <2>1. \A o \in Orders : order'[o] \in {order[o], EnsuredOrder(e, o)}
    BY <1>5 DEF EnsureOrder
  <2>2. order' \in [Orders -> GoodOrder]
    BY <1>1, <1>3, <1>5 DEF EnsureOrder
  <2> QED  BY <2>1, <2>2, <1>1, <1>3
<1>6. CASE CaptureEvent(e)
  <2> DEFINE amount == [Ensured(e) EXCEPT !.status = "success"].amount
             most(row) == IF row.paid < amount THEN amount ELSE row.paid
             paid(row) == [row EXCEPT !.status = "paid", !.paid = most(row)]
  <2>1. amount \in Nat
    BY <1>2 DEF PaymentRow
  <2>2. ASSUME NEW row \in OrderRow
        PROVE  paid(row) \in GoodOrder /\ row.paid <= paid(row).paid
    <3>1. most(row) \in Nat /\ row.paid <= most(row)
      <4> HIDE DEF amount
      <4> QED  BY <2>1 DEF OrderRow
    <3> HIDE DEF most
    <3> QED  BY <3>1 DEF GoodOrder, OrderRow
  <2>3. order' = [o \in Orders |-> IF o # OrderOf(e) THEN order[o]
                                   ELSE paid(EnsuredOrder(e, o))]
    BY <1>6 DEF CaptureEvent
  <2>4. ASSUME NEW o \in Orders
        PROVE  order'[o] \in GoodOrder /\ order[o].paid <= order'[o].paid
    <3>1. CASE o # OrderOf(e)
      <4>1. order'[o] = order[o]
        <5> HIDE DEF paid
        <5> QED  BY <3>1, <2>3
      <4> QED  BY <4>1, <1>1
    <3>2. CASE o = OrderOf(e)
      <4>1. order'[o] = paid(EnsuredOrder(e, o))
        BY <3>2, <2>3
      <4>2. EnsuredOrder(e, o) \in OrderRow /\ EnsuredOrder(e, o).paid = order[o].paid
        BY <1>3
      <4>3. /\ paid(EnsuredOrder(e, o)) \in GoodOrder
            /\ EnsuredOrder(e, o).paid <= paid(EnsuredOrder(e, o)).paid
        <5> HIDE DEF paid
        <5> QED  BY <4>2, <2>2
      <4> HIDE DEF paid
      <4> QED  BY <4>1, <4>2, <4>3
    <3> QED  BY <3>1, <3>2
  <2> QED  BY <2>3, <2>4
<1> QED  BY <1>4, <1>5, <1>6
         DEF ApplyEvent, ProgressEvent, RefundAmountChanged, RefundNoted,
             RefundRepeated, RefundHeld, RefundSettled, ProcessedRefund, RefundArrives

\* The refund row an event works on belongs to the event's payment.
LEMMA EnsuredRefundFacts ==
    ASSUME NEW e \in Events, IInv, e.type \in RefundTypes
    PROVE  /\ e.refund \in Refunds /\ e.payment \in Payments
           /\ EnsuredRefund(e) \in RefundRow
           /\ EnsuredRefund(e).payment = e.payment
           /\ RefundStatusOf(e) \in ProviderRefundStatuses
<1>1. e.refund \in Refunds /\ e.payment \in Payments /\ e.amount \in Nat
  BY EventsAssumption DEF CanonicalEvent
<1>2. EnsuredRefund(e) \in RefundRow /\ EnsuredRefund(e).payment = e.payment
  BY <1>1 DEF EnsuredRefund, IInv, RefundRow, RefundStatuses, ProviderRefundStatuses,
              RefundsNameTheirPayment
<1>3. RefundStatusOf(e) \in ProviderRefundStatuses
  BY EventsAssumption DEF RefundStatusOf, RefundTypes, CanonicalEvent,
                          ProviderRefundStatuses
<1> QED  BY <1>1, <1>2, <1>3

\* Writing one refund row keeps the rows well formed and with their payment, and
\* nothing is held for a captured payment unless the write says so.
LEMMA SetRefundStep ==
    ASSUME NEW e \in Events, IInv, e.type \in RefundTypes,
           NEW status \in RefundStatuses \ {"absent"}, SetRefund(e, status),
           payment' \in [Payments -> GoodRow],
           \A q \in Payments :
              payment'[q].status \in CapturedStatuses
                 => /\ payment[q].status \in CapturedStatuses
                    /\ q = e.payment => status # "pending_reconciliation"
    PROVE  refund' \in [Refunds -> RefundRow] /\ NothingLeftHeld' /\ RefundsNameTheirPayment'
<1> DEFINE row == [EnsuredRefund(e) EXCEPT !.status = status]
<1>1. e.refund \in Refunds /\ refund' = [refund EXCEPT ![e.refund] = row]
  BY EnsuredRefundFacts DEF SetRefund
<1>2. row \in RefundRow /\ row.status = status /\ row.payment = e.payment
  BY EnsuredRefundFacts DEF RefundRow
<1>3. /\ refund' \in [Refunds -> RefundRow]
      /\ refund'[e.refund] = row
      /\ \A r \in Refunds \ {e.refund} : refund'[r] = refund[r]
  <2> HIDE DEF row
  <2> QED  BY <1>1, <1>2 DEF IInv
<1>4. NothingLeftHeld'
  <2> SUFFICES ASSUME NEW q \in Payments, NEW r \in Refunds,
                      payment'[q].status \in CapturedStatuses, Held(r, q)'
               PROVE  FALSE
    BY DEF NothingLeftHeld, SweepHasWork
  <2>1. CASE r = e.refund
    <3> HIDE DEF row
    <3> QED  BY <2>1, <1>2, <1>3 DEF Held
  <2>2. CASE r # e.refund
    BY <2>2, <1>3 DEF Held, IInv, NothingLeftHeld, SweepHasWork
  <2> QED  BY <2>1, <2>2
<1>5. RefundsNameTheirPayment'
  <2> SUFFICES ASSUME NEW f \in Events, f.type \in RefundTypes,
                      refund'[f.refund].status # "absent"
               PROVE  refund'[f.refund].payment = f.payment
    BY DEF RefundsNameTheirPayment
  <2>1. f.refund \in Refunds /\ f.refund # None
    BY EventsAssumption
  <2>2. CASE f.refund = e.refund
    <3>1. f.payment = e.payment
      BY <2>1, <2>2, EventsAssumption
    <3> HIDE DEF row
    <3> QED  BY <3>1, <2>2, <1>2, <1>3
  <2>3. CASE f.refund # e.refund
    BY <2>1, <2>3, <1>3 DEF IInv, RefundsNameTheirPayment
  <2> QED  BY <2>2, <2>3
<1> QED  BY <1>3, <1>4, <1>5

\* What an event does to the refunds.
LEMMA RefundsStep ==
    ASSUME NEW e \in Events, IInv, ApplyEvent(e)
    PROVE  /\ refund' \in [Refunds -> RefundRow] /\ arrival' \in Seq(Refunds)
           /\ NothingLeftHeld' /\ RefundsNameTheirPayment'
<1> DEFINE p == e.payment
<1>1. /\ p \in Payments
      /\ payment \in [Payments -> GoodRow] /\ payment' \in [Payments -> GoodRow]
      /\ refund \in [Refunds -> RefundRow] /\ arrival \in Seq(Refunds)
  BY PaymentsStep, EventsAssumption DEF CanonicalEvent, IInv
<1>2. Ensured(e).status \in CapturedStatuses => payment[p].status \in CapturedStatuses
  BY EnsuredFacts DEF CapturedStatuses
\* A row other than e's, or a row that is not captured by this step, stays as it is.
<1>3. ASSUME NEW row, payment' = [payment EXCEPT ![p] = row],
             row.status \in CapturedStatuses => Ensured(e).status \in CapturedStatuses
      PROVE  \A q \in Payments :
                payment'[q].status \in CapturedStatuses
                  => /\ payment[q].status \in CapturedStatuses
                     /\ q = p => row.status \in CapturedStatuses
  BY <1>1, <1>2, <1>3
<1>4. ASSUME UNCHANGED <<refund, arrival>>,
             \A q \in Payments : payment'[q].status \in CapturedStatuses
                                   => payment[q].status \in CapturedStatuses
      PROVE  /\ refund' \in [Refunds -> RefundRow] /\ arrival' \in Seq(Refunds)
             /\ NothingLeftHeld' /\ RefundsNameTheirPayment'
  BY <1>1, <1>4 DEF IInv, NothingLeftHeld, SweepHasWork, Held, RefundsNameTheirPayment
<1>5. CASE LateEvent(e)
  BY <1>3, <1>4, <1>5 DEF LateEvent
<1>6. CASE ProgressEvent(e)
  <2>1. [Ensured(e) EXCEPT !.status = Target(e.type)].status \notin CapturedStatuses
    BY <1>6, ProgressMoves, EnsuredFacts DEF GoodRow, PaymentRow
  <2>2. payment' = [payment EXCEPT ![p] = [Ensured(e) EXCEPT !.status = Target(e.type)]]
    BY <1>6 DEF ProgressEvent
  <2>3. \A q \in Payments : payment'[q].status \in CapturedStatuses
                               => payment[q].status \in CapturedStatuses
    BY <2>1, <2>2, <1>3
  <2> QED  BY <2>3, <1>4, <1>6 DEF ProgressEvent
<1>7. CASE CaptureEvent(e)
  <2> DEFINE row == [Ensured(e) EXCEPT !.status = "success"]
             settled(r) == [refund[r] EXCEPT !.status =
                              IF r \in Settleable(p, row) THEN "processed" ELSE "rejected"]
  <2>1. refund' = [r \in Refunds |-> IF ~ Held(r, p) THEN refund[r] ELSE settled(r)]
    BY <1>7 DEF CaptureEvent, SettleHeld
  <2>2. ASSUME NEW r \in Refunds
        PROVE  /\ settled(r) \in RefundRow
               /\ settled(r).status # "pending_reconciliation"
               /\ settled(r).payment = refund[r].payment
    BY <1>1 DEF RefundRow, RefundStatuses, ProviderRefundStatuses
  <2>3. ASSUME NEW r \in Refunds
        PROVE  /\ refund'[r] \in RefundRow
               /\ refund'[r].payment = refund[r].payment
               /\ refund'[r].status = "pending_reconciliation"
                    => refund'[r] = refund[r] /\ ~ Held(r, p)
               /\ refund'[r].status = "absent" <=> refund[r].status = "absent"
    <3>1. CASE Held(r, p)
      <4>1. refund'[r] = settled(r)
        BY <3>1, <2>1
      <4>2. settled(r).status # "absent" /\ refund[r].status # "absent"
        BY <3>1, <1>1 DEF Held, RefundRow
      <4> HIDE DEF settled
      <4> QED  BY <4>1, <4>2, <2>2
    <3>2. CASE ~ Held(r, p)
      BY <3>2, <2>1, <1>1
    <3> QED  BY <3>1, <3>2
  <2>4. refund' \in [Refunds -> RefundRow]
    <3> HIDE DEF settled
    <3> QED  BY <2>1, <2>3
  <2>5. NothingLeftHeld'
    <3> SUFFICES ASSUME NEW q \in Payments, NEW r \in Refunds,
                        payment'[q].status \in CapturedStatuses, Held(r, q)'
                 PROVE  FALSE
      BY DEF NothingLeftHeld, SweepHasWork
    <3>1. Held(r, q) /\ q # p
      BY <2>3 DEF Held
    <3>2. payment[q].status \notin CapturedStatuses
      BY <3>1 DEF IInv, NothingLeftHeld, SweepHasWork
    <3>3. payment'[q].status = payment[q].status
      BY <3>1, <1>1, PaymentsStep DEF GoodRow, PaymentRow
    <3> QED  BY <3>2, <3>3
  <2>6. RefundsNameTheirPayment'
    BY <2>3, EventsAssumption DEF IInv, RefundsNameTheirPayment
  <2> QED  BY <2>4, <2>5, <2>6, <1>1, <1>7 DEF CaptureEvent
<1>8. CASE RefundArrives(e)
  <2>1. e.type \in RefundTypes
    BY <1>8 DEF RefundArrives
  <2>2. arrival' \in Seq(Refunds)
    BY <1>1, <1>8, <2>1, EnsuredRefundFacts DEF RefundArrives
  <2> SUFFICES /\ refund' \in [Refunds -> RefundRow]
               /\ NothingLeftHeld' /\ RefundsNameTheirPayment'
    BY <2>2
  <2>3. RefundStatusOf(e) \in RefundStatuses \ {"absent"}
    BY <2>1, EnsuredRefundFacts DEF RefundStatuses, ProviderRefundStatuses
  <2>4. RefundStatusOf(e) # "pending_reconciliation"
    BY <2>1, EnsuredRefundFacts DEF ProviderRefundStatuses
  <2>5. {"processed", "rejected", "pending_reconciliation"} \subseteq RefundStatuses \ {"absent"}
    BY DEF RefundStatuses, ProviderRefundStatuses
  \* Every way such an event ends is one write of its refund's row.
  <2>6. ASSUME NEW row, payment' = [payment EXCEPT ![p] = row],
               row.status \in CapturedStatuses => Ensured(e).status \in CapturedStatuses,
               NEW status \in RefundStatuses \ {"absent"}, SetRefund(e, status),
               status = "pending_reconciliation" => row.status \notin CapturedStatuses
        PROVE  /\ refund' \in [Refunds -> RefundRow]
               /\ NothingLeftHeld' /\ RefundsNameTheirPayment'
    <3>1. \A q \in Payments :
             payment'[q].status \in CapturedStatuses
               => /\ payment[q].status \in CapturedStatuses
                  /\ q = p => status # "pending_reconciliation"
      BY <1>3, <2>6
    <3> QED  BY <3>1, <2>1, <2>6, <1>1, SetRefundStep
  <2>7. CASE RefundAmountChanged(e)
    BY <2>7, <2>5, <2>6 DEF RefundAmountChanged
  <2>8. CASE RefundNoted(e)
    <3> DEFINE status == IF /\ RefundStatusOf(e) \in {"created", "pending", "updated"}
                            /\ EnsuredRefund(e).status = "processed"
                         THEN "processed" ELSE RefundStatusOf(e)
    <3>1. SetRefund(e, status) /\ payment' = [payment EXCEPT ![p] = Ensured(e)]
      BY <2>8 DEF RefundNoted
    <3>2. /\ status \in RefundStatuses \ {"absent"}
          /\ status # "pending_reconciliation"
      BY <2>3, <2>4, <2>5
    <3> HIDE DEF status
    <3> QED  BY <3>1, <3>2, <2>6
  <2>9. CASE RefundRepeated(e)
    <3>1. /\ payment' = [payment EXCEPT ![p] = Ensured(e)]
          /\ refund' = refund /\ EnsuredRefund(e).status = "processed"
      BY <2>9 DEF RefundRepeated
    <3>2. e.refund \in Refunds /\ EnsuredRefund(e) = refund[e.refund]
      BY <3>1, <2>1, EnsuredRefundFacts DEF EnsuredRefund
    <3>3. SetRefund(e, "processed")
      BY <3>1, <3>2, <1>1 DEF SetRefund, RefundRow
    <3> QED  BY <3>1, <3>3, <2>5, <2>6
  <2>10. CASE RefundHeld(e)
    BY <2>10, <2>5, <2>6 DEF RefundHeld
  <2>11. CASE RefundSettled(e)
    <3>1. Ensured(e).status \in CapturedStatuses
      BY <2>11 DEF RefundSettled
    <3>2. CASE Fits(Ensured(e).refunded, EnsuredRefund(e).amount, Ensured(e).amount)
      BY <3>1, <3>2, <2>5, <2>6, <2>11 DEF RefundSettled
    <3>3. CASE ~ Fits(Ensured(e).refunded, EnsuredRefund(e).amount, Ensured(e).amount)
      BY <3>1, <3>3, <2>5, <2>6, <2>11 DEF RefundSettled
    <3> QED  BY <3>2, <3>3
  <2>12. \/ RefundAmountChanged(e) \/ RefundNoted(e) \/ RefundRepeated(e)
         \/ RefundHeld(e) \/ RefundSettled(e)
    BY <2>1 DEF ApplyEvent, LateEvent, ProgressEvent, CaptureEvent, RefundTypes,
                PaymentTypes, CaptureTypes
  <2> QED  BY <2>7, <2>8, <2>9, <2>10, <2>11, <2>12
<1> QED  BY <1>5, <1>6, <1>7, <1>8
         DEF ApplyEvent, RefundAmountChanged, RefundNoted, RefundRepeated, RefundHeld,
             RefundSettled, ProcessedRefund

------------------------------------------------------------------------------
(* The theorems.                                                           *)

\* Every event keeps the invariant.
LEMMA NextIInv == IInv /\ [Next]_vars => IInv'
<1> SUFFICES ASSUME IInv, [Next]_vars PROVE IInv'
  OBVIOUS
<1>1. ASSUME NEW e \in Events, ApplyEvent(e) PROVE IInv'
  BY <1>1, PaymentsStep, OrdersStep, RefundsStep DEF IInv
<1>2. CASE UNCHANGED vars
  BY <1>2 DEF vars, IInv, NothingLeftHeld, SweepHasWork, Held, RefundsNameTheirPayment
<1> QED  BY <1>1, <1>2 DEF Next

(***************************************************************************)
(* The inductive invariant holds in every reachable state, whatever events *)
(* are applied, in whatever order and however often.                       *)
(***************************************************************************)
THEOREM Inductive == Spec => []IInv
<1> QED  BY InitIInv, NextIInv, PTL DEF Spec

(***************************************************************************)
(* Every table always holds rows of its type.                              *)
(***************************************************************************)
THEOREM TypeCorrect == Spec => []TypeOK
<1>1. IInv => TypeOK
  BY IInvImplies
<1> QED  BY <1>1, Inductive, PTL

(***************************************************************************)
(* No payment is refunded beyond its amount, nor before it is captured.    *)
(***************************************************************************)
THEOREM NeverOverRefunded == Spec => []RefundsWithinCapture
<1>1. IInv => RefundsWithinCapture
  BY IInvImplies
<1> QED  BY <1>1, Inductive, PTL

(***************************************************************************)
(* The status refunded and a refunded total equal to the amount agree.     *)
(***************************************************************************)
THEOREM RefundedIsFull == Spec => []RefundedMeansInFull
<1>1. IInv => RefundedMeansInFull
  BY IInvImplies
<1> QED  BY <1>1, Inductive, PTL

(***************************************************************************)
(* No refund is left held for a captured payment.                          *)
(***************************************************************************)
THEOREM HeldRefundsSettled == Spec => []NothingLeftHeld
<1>1. IInv => NothingLeftHeld
  BY IInvImplies
<1> QED  BY <1>1, Inductive, PTL

\* How every payment row relates before and after an event.
LEMMA PaymentRowStep ==
    ASSUME NEW e \in Events, IInv, ApplyEvent(e), NEW q \in Payments
    PROVE  /\ payment[q] \in GoodRow /\ payment'[q] \in GoodRow
           /\ q = e.payment => Moves(payment[q], payment'[q])
           /\ q # e.payment => /\ payment'[q].status = payment[q].status
                               /\ payment'[q].amount = payment[q].amount
                               /\ payment'[q].order = payment[q].order
                               /\ payment'[q].refunded = payment[q].refunded
<1>1. payment[q] \in GoodRow /\ payment'[q] \in GoodRow
  BY PaymentsStep DEF IInv
<1>2. CASE q = e.payment
  BY <1>1, <1>2, PaymentsStep
<1>3. CASE q # e.payment
  <2>1. payment'[q] = [payment[q] EXCEPT !.recovered = payment'[q].recovered]
    BY <1>3, PaymentsStep
  <2>2. \A b : /\ [payment[q] EXCEPT !.recovered = b].status = payment[q].status
               /\ [payment[q] EXCEPT !.recovered = b].amount = payment[q].amount
               /\ [payment[q] EXCEPT !.recovered = b].order = payment[q].order
               /\ [payment[q] EXCEPT !.recovered = b].refunded = payment[q].refunded
    BY <1>1 DEF GoodRow, PaymentRow
  <2> QED  BY <1>1, <1>3, <2>1, <2>2
<1> QED  BY <1>2, <1>3

(***************************************************************************)
(* Capture and refund are for good, and money is never taken back: no step *)
(* uncaptures a payment or lowers a refunded or paid total.                *)
(***************************************************************************)
THEOREM CaptureStays == Spec => CaptureIsFinal
<1> DEFINE Kept ==
      /\ \A p \in Payments :
            /\ Captured(p) => Captured(p)'
            /\ payment[p].status = "refunded" => payment'[p].status = "refunded"
            /\ payment[p].status # "absent" => payment'[p].amount = payment[p].amount
            /\ payment[p].order # None => payment'[p].order = payment[p].order
            /\ payment[p].refunded <= payment'[p].refunded
      /\ \A o \in Orders : order[o].paid <= order'[o].paid
<1>1. ASSUME IInv, NEW e \in Events, ApplyEvent(e)
      PROVE  Kept
  <2>1. ASSUME NEW p \in Payments
        PROVE  /\ Captured(p) => Captured(p)'
               /\ payment[p].status = "refunded" => payment'[p].status = "refunded"
               /\ payment[p].status # "absent" => payment'[p].amount = payment[p].amount
               /\ payment[p].order # None => payment'[p].order = payment[p].order
               /\ payment[p].refunded <= payment'[p].refunded
    <3>1. payment[p].refunded \in Nat
      BY <1>1 DEF IInv, GoodRow, PaymentRow
    <3> QED  BY <3>1, <1>1, PaymentRowStep DEF Moves, Captured
  <2> QED  BY <2>1, <1>1, OrdersStep
<1>2. IInv /\ [Next]_vars => [Kept]_vars
  BY <1>1 DEF Next
<1> QED  BY <1>2, Inductive, PTL DEF Spec, CaptureIsFinal

------------------------------------------------------------------------------
(* The aggregate covers the processed refunds.                             *)

\* Every refund row has arrived.
Arrived == \A r \in Refunds : refund[r].status # "absent" => \E i \in 1 .. Len(arrival) : arrival[i] = r

Amounts == [r \in Refunds |-> refund[r].amount]

Covers(p) == AmountsOf(ProcessedOf(p)) <= payment[p].refunded

\* Finitely many have arrived, so that their amounts have a sum.
LEMMA ProcessedFinite ==
    ASSUME IInv, Arrived, NEW p \in Payments
    PROVE  /\ IsFiniteSet(ProcessedOf(p)) /\ ProcessedOf(p) \in SUBSET Refunds
           /\ \A r \in Refunds : Amounts[r] \in Nat
<1> DEFINE rows == {arrival[i] : i \in 1 .. Len(arrival)}
<1>1. Len(arrival) \in Nat
  BY DEF IInv
<1>2. IsFiniteSet(1 .. Len(arrival))
  BY <1>1, FS_Interval
<1>3. IsFiniteSet(rows)
  <2> DEFINE f == [i \in 1 .. Len(arrival) |-> arrival[i]]
  <2>1. f \in Surjection(1 .. Len(arrival), rows)
    BY DEF Surjection
  <2> HIDE DEF f, rows
  <2> QED  BY <1>2, <2>1, FS_Surjection
<1>4. ProcessedOf(p) \subseteq rows
  BY DEF ProcessedOf, Arrived
<1> HIDE DEF rows
<1> QED  BY <1>3, <1>4, FS_Subset DEF ProcessedOf, Amounts, IInv, RefundRow

\* Where no refund becomes processed, the total still covers them.
LEMMA CoversStays ==
    ASSUME IInv, Arrived, NEW p \in Payments, Covers(p),
           payment[p].refunded \in Nat, payment'[p].refunded \in Nat,
           payment[p].refunded <= payment'[p].refunded,
           \A r \in Refunds : refund'[r].status = "processed" /\ refund'[r].payment = p
              => refund[r].status = "processed" /\ refund[r].payment = p
                 /\ refund'[r].amount = refund[r].amount
    PROVE  Covers(p)'
<1> DEFINE P == ProcessedOf(p)
           Q == ProcessedOf(p)'
           f == Amounts
           h == Amounts'
<1>1. IsFiniteSet(P) /\ \A r \in P : f[r] \in Nat
  BY ProcessedFinite
<1>2. Q \in SUBSET P /\ \A r \in Q : h[r] = f[r]
  BY DEF ProcessedOf, Amounts
<1>3. SumFunctionOnSet(f, P) <= payment[p].refunded
  BY DEF Covers, AmountsOf, Amounts
<1> HIDE DEF P, Q, f, h
<1>4. IsFiniteSet(Q) /\ \A r \in Q : f[r] \in Nat
  BY <1>1, <1>2, FS_Subset
<1>5. SumFunctionOnSet(h, Q) = SumFunctionOnSet(f, Q)
  BY <1>2, <1>4, SumSame
<1>6. SumFunctionOnSet(f, Q) <= SumFunctionOnSet(f, P)
  BY <1>1, <1>2, SumGrows
<1>7. SumFunctionOnSet(f, Q) \in Nat /\ SumFunctionOnSet(f, P) \in Nat
  BY <1>1, <1>4, SumFacts
<1>8. SumFunctionOnSet(h, Q) <= payment'[p].refunded
  BY <1>3, <1>5, <1>6, <1>7
<1> QED  BY <1>8 DEF Covers, AmountsOf, Amounts, Q, h

(***************************************************************************)
(* The loop adds the amount of each refund it settles.                     *)
(***************************************************************************)
LEMMA SettlingCovers ==
    ASSUME TypeOK, NEW p \in Payments, NEW row \in PaymentRow,
           NEW P \in SUBSET Refunds, IsFiniteSet(P),
           SumFunctionOnSet(Amounts, P) <= row.refunded
    PROVE  /\ IsFiniteSet(P \cup Settleable(p, row))
           /\ SumFunctionOnSet(Amounts, P \cup Settleable(p, row))
                 <= RunningTotal(p, row)[Len(arrival)]
<1> DEFINE n == Len(arrival)
           t == RunningTotal(p, row)
           settles(j) == /\ Held(arrival[j], p)
                         /\ Fits(t[j-1], refund[arrival[j]].amount, row.amount)
           Done(i) == P \cup {arrival[j] : j \in {k \in 1 .. i : settles(k)}}
           Covered == {i \in 0 .. n :
                         /\ t[i] \in Nat /\ IsFiniteSet(Done(i))
                         /\ SumFunctionOnSet(Amounts, Done(i)) <= t[i]}
<1>1. t = [i \in 0 .. n |-> IF i = 0 THEN row.refunded ELSE SettleRow(p, row, i, t[i-1])]
  BY RunningTotalUnfolds
<1>2. /\ n \in Nat /\ row.refunded \in Nat
      /\ \A r \in Refunds : Amounts[r] \in Nat
      /\ \A j \in 1 .. n : arrival[j] \in Refunds
  BY DEF TypeOK, PaymentRow, RefundRow, Amounts
<1>3. 0 \in Covered
  <2>1. 0 \in 0 .. n
    BY <1>2
  <2>2. t[0] = row.refunded
    <3> HIDE DEF t
    <3> QED  BY <1>1, <2>1
  <2>3. Done(0) = P
    OBVIOUS
  <2> HIDE DEF t, Done
  <2> QED  BY <2>1, <2>2, <2>3, <1>2
<1>4. ASSUME NEW i \in 1 .. n, i-1 \in Covered
      PROVE  i \in Covered
  <2> DEFINE a == arrival[i]
             before == Done(i-1)
  <2>1. t[i] = IF settles(i) THEN t[i-1] + refund[a].amount ELSE t[i-1]
    <3>1. i \in 0 .. n /\ i # 0
      OBVIOUS
    <3> HIDE DEF t
    <3> QED  BY <1>1, <3>1 DEF SettleRow
  <2>2. Done(i) = IF settles(i) THEN before \cup {a} ELSE before
    <3>1. \A k : k \in 1 .. i <=> k \in 1 .. (i-1) \/ k = i
      OBVIOUS
    <3> HIDE DEF settles
    <3> QED  BY <3>1
  <2>3. a \in Refunds /\ Amounts[a] = refund[a].amount /\ Amounts[a] \in Nat
    BY <1>2 DEF Amounts
  <2>4. /\ t[i-1] \in Nat /\ IsFiniteSet(before) /\ before \in SUBSET Refunds
        /\ SumFunctionOnSet(Amounts, before) <= t[i-1]
    BY <1>2, <1>4
  <2>5. i \in 0 .. n
    OBVIOUS
  <2> HIDE DEF t, before, a, settles, Done
  <2>6. SumFunctionOnSet(Amounts, before) \in Nat
    BY <1>2, <2>4, SumFacts
  <2>7. CASE ~settles(i)
    BY <2>1, <2>2, <2>4, <2>5, <2>7 DEF Covered
  <2>8. CASE settles(i) /\ a \in before
    <3>1. Done(i) = before /\ t[i] = t[i-1] + Amounts[a]
      BY <2>1, <2>2, <2>3, <2>8
    <3>2. t[i] \in Nat /\ SumFunctionOnSet(Amounts, Done(i)) <= t[i]
      BY <3>1, <2>3, <2>4, <2>6
    <3>3. IsFiniteSet(Done(i))
      BY <3>1, <2>4
    <3> QED  BY <3>2, <3>3, <2>5 DEF Covered
  <2>9. CASE settles(i) /\ a \notin before
    <3>1. Done(i) = before \cup {a} /\ t[i] = t[i-1] + Amounts[a]
      BY <2>1, <2>2, <2>3, <2>9
    <3>2. SumFunctionOnSet(Amounts, before \cup {a}) = Amounts[a] + SumFunctionOnSet(Amounts, before)
      BY <1>2, <2>3, <2>4, <2>9, SumAdds
    <3>3. IsFiniteSet(before \cup {a})
      BY <2>4, FS_AddElement
    <3>4. t[i] \in Nat /\ SumFunctionOnSet(Amounts, Done(i)) <= t[i]
      BY <3>1, <3>2, <2>3, <2>4, <2>6
    <3>5. IsFiniteSet(Done(i))
      BY <3>1, <3>3
    <3> QED  BY <3>4, <3>5, <2>5 DEF Covered
  <2> QED  BY <2>7, <2>8, <2>9
<1>5. n \in Covered
  <2>1. 0 .. n \subseteq Covered
    <3> HIDE DEF Covered, n
    <3> QED  BY <1>2, <1>3, <1>4, LoopInduction
  <2>2. n \in 0 .. n
    BY <1>2
  <2> HIDE DEF Covered
  <2> QED  BY <2>1, <2>2
<1>6. Done(n) = P \cup Settleable(p, row)
  BY DEF Settleable
<1> QED  BY <1>5, <1>6

\* Every refund row that an event writes has arrived.
LEMMA ArrivedStep ==
    ASSUME IInv, Arrived, NEW e \in Events, ApplyEvent(e)
    PROVE  Arrived'
<1>1. refund \in [Refunds -> RefundRow] /\ arrival \in Seq(Refunds) /\ Len(arrival) \in Nat
  BY DEF IInv
<1>2. CASE arrival' = arrival /\ \A r \in Refunds : refund'[r].status # "absent" => refund[r].status # "absent"
  BY <1>2 DEF Arrived
<1>3. CASE RefundArrives(e)
  <2>1. e.type \in RefundTypes /\ e.refund \in Refunds
    BY <1>3, EnsuredRefundFacts DEF RefundArrives
  <2>2. \A r \in Refunds \ {e.refund} : refund'[r] = refund[r]
    BY <2>1, <1>1, <1>3 DEF ApplyEvent, LateEvent, ProgressEvent, CaptureEvent, RefundAmountChanged,
          RefundNoted, RefundRepeated, RefundHeld, RefundSettled, SetRefund, RefundTypes,
          PaymentTypes, CaptureTypes
  <2>3. CASE refund[e.refund].status # "absent"
    <3>1. arrival' = arrival
      BY <1>3, <2>3 DEF RefundArrives
    <3> QED  BY <2>2, <2>3, <3>1 DEF Arrived
  <2>4. CASE refund[e.refund].status = "absent"
    <3>1. arrival' = Append(arrival, e.refund)
      BY <1>3, <2>4 DEF RefundArrives
    <3>2. /\ Len(arrival') = Len(arrival) + 1 /\ arrival'[Len(arrival) + 1] = e.refund
          /\ \A i \in 1 .. Len(arrival) : arrival'[i] = arrival[i]
      BY <3>1, <2>1, <1>1
    <3>3. ASSUME NEW r \in Refunds, refund'[r].status # "absent"
          PROVE  \E i \in 1 .. Len(arrival') : arrival'[i] = r
      <4>1. CASE r = e.refund
        <5>1. Len(arrival) + 1 \in 1 .. Len(arrival')
          BY <3>2, <1>1
        <5> QED  BY <5>1, <3>2, <4>1
      <4>2. CASE r # e.refund
        <5>1. PICK i \in 1 .. Len(arrival) : arrival[i] = r
          BY <2>2, <3>3, <4>2 DEF Arrived
        <5>2. i \in 1 .. Len(arrival')
          BY <3>2, <1>1
        <5> QED  BY <5>1, <5>2, <3>2
      <4> QED  BY <4>1, <4>2
    <3> QED  BY <3>3 DEF Arrived
  <2> QED  BY <2>3, <2>4
<1>4. CASE CaptureEvent(e)
  <2>1. arrival' = arrival
    BY <1>4 DEF CaptureEvent
  <2>2. ASSUME NEW r \in Refunds, refund[r].status = "absent"
        PROVE  refund'[r].status = "absent"
    <3>1. refund'[r] = refund[r]
      BY <1>4, <2>2 DEF CaptureEvent, SettleHeld, Held
    <3> QED  BY <3>1, <2>2
  <2> QED  BY <2>1, <2>2, <1>2
<1>5. CASE LateEvent(e) \/ ProgressEvent(e)
  BY <1>2, <1>5 DEF LateEvent, ProgressEvent
<1> QED
  BY <1>3, <1>4, <1>5 DEF ApplyEvent, RefundAmountChanged, RefundNoted, RefundRepeated, RefundHeld,
       RefundSettled, ProcessedRefund

\* Writing one refund row makes no refund processed that was not, except where
\* it says so.
LEMMA SetRefundProcesses ==
    ASSUME IInv, NEW e \in Events, e.type \in RefundTypes, NEW status, SetRefund(e, status),
           NEW r \in Refunds, refund'[r].status = "processed"
    PROVE  \/ /\ refund[r].status = "processed"
              /\ refund'[r].payment = refund[r].payment /\ refund'[r].amount = refund[r].amount
           \/ /\ r = e.refund /\ status = "processed" /\ EnsuredRefund(e).status # "processed"
              /\ refund'[r].payment = e.payment /\ refund'[r].amount = EnsuredRefund(e).amount
<1> DEFINE row == [EnsuredRefund(e) EXCEPT !.status = status]
<1>1. /\ e.refund \in Refunds /\ EnsuredRefund(e) \in RefundRow
      /\ EnsuredRefund(e).payment = e.payment
      /\ refund' = [refund EXCEPT ![e.refund] = row] /\ refund \in [Refunds -> RefundRow]
  BY EnsuredRefundFacts DEF SetRefund, IInv
<1>2. row.status = status /\ row.payment = e.payment /\ row.amount = EnsuredRefund(e).amount
  BY <1>1 DEF RefundRow
<1> HIDE DEF row
<1>3. refund'[e.refund] = row /\ \A q \in Refunds \ {e.refund} : refund'[q] = refund[q]
  BY <1>1
<1>4. CASE r # e.refund
  BY <1>3, <1>4
<1>5. CASE r = e.refund
  <2>1. EnsuredRefund(e).status = "processed" => EnsuredRefund(e) = refund[e.refund]
    BY DEF EnsuredRefund
  <2> QED  BY <1>2, <1>3, <1>5, <2>1, <1>1
<1> QED  BY <1>4, <1>5

LEMMA CoversStep ==
    ASSUME IInv, Arrived, AggregateCoversProcessed, NEW e \in Events, ApplyEvent(e)
    PROVE  AggregateCoversProcessed'
<1> SUFFICES ASSUME NEW p \in Payments PROVE Covers(p)'
  BY DEF AggregateCoversProcessed, Covers
<1>1. /\ Covers(p) /\ payment[p].refunded \in Nat /\ payment'[p].refunded \in Nat
      /\ payment[p].refunded <= payment'[p].refunded
  <2>1. payment[p] \in PaymentRow /\ payment'[p] \in PaymentRow
    BY PaymentRowStep DEF GoodRow
  <2>2. payment[p].refunded \in Nat /\ payment'[p].refunded \in Nat
    BY <2>1 DEF PaymentRow
  <2> QED  BY <2>2, PaymentRowStep DEF Moves, AggregateCoversProcessed, Covers
<1>2. /\ IsFiniteSet(ProcessedOf(p)) /\ ProcessedOf(p) \in SUBSET Refunds
      /\ \A r \in Refunds : Amounts[r] \in Nat
      /\ refund \in [Refunds -> RefundRow]
      /\ SumFunctionOnSet(Amounts, ProcessedOf(p)) <= payment[p].refunded
  BY <1>1, ProcessedFinite DEF IInv, Covers, AmountsOf, Amounts
\* A refund of p that is processed now was so before.
<1> DEFINE Known == \A r \in Refunds :
              refund'[r].status = "processed" /\ refund'[r].payment = p
                 => refund[r].status = "processed" /\ refund[r].payment = p
                    /\ refund'[r].amount = refund[r].amount
<1>3. Known => Covers(p)'
  BY <1>1, CoversStays
<1>4. CASE LateEvent(e) \/ ProgressEvent(e) \/ RefundRepeated(e)
  <2>1. refund' = refund
    BY <1>4 DEF LateEvent, ProgressEvent, RefundRepeated
  <2> QED  BY <2>1, <1>3
<1>5. ASSUME e.type \in RefundTypes, NEW status, SetRefund(e, status),
             status = "processed" => EnsuredRefund(e).status = "processed"
      PROVE  Covers(p)'
  <2>1. Known
    BY <1>5, SetRefundProcesses
  <2> QED  BY <2>1, <1>3
<1>6. CASE RefundAmountChanged(e) \/ RefundHeld(e)
  <2>1. e.type \in RefundTypes /\ (SetRefund(e, "rejected") \/ SetRefund(e, "pending_reconciliation"))
    BY <1>6 DEF RefundAmountChanged, RefundHeld, ProcessedRefund, RefundArrives
  <2> QED  BY <2>1, <1>5
<1>7. CASE RefundNoted(e)
  <2> DEFINE status == IF /\ RefundStatusOf(e) \in {"created", "pending", "updated"}
                          /\ EnsuredRefund(e).status = "processed"
                       THEN "processed" ELSE RefundStatusOf(e)
  <2>1. /\ SetRefund(e, status) /\ e.type \in RefundTypes
        /\ status = "processed" => EnsuredRefund(e).status = "processed"
    BY <1>7 DEF RefundNoted, RefundArrives
  <2> HIDE DEF status
  <2> QED  BY <2>1, <1>5
<1>8. CASE RefundSettled(e)
  <2> DEFINE row == Ensured(e)
             amount == EnsuredRefund(e).amount
  <2>1. e.type \in RefundTypes /\ EnsuredRefund(e).status # "processed"
    BY <1>8 DEF RefundSettled, ProcessedRefund, RefundArrives
  <2>2. CASE ~ Fits(row.refunded, amount, row.amount)
    <3>1. SetRefund(e, "rejected")
      BY <1>8, <2>2 DEF RefundSettled
    <3> QED  BY <2>1, <3>1, <1>5
  <2>3. CASE Fits(row.refunded, amount, row.amount) /\ p # e.payment
    <3>1. SetRefund(e, "processed")
      BY <1>8, <2>3 DEF RefundSettled
    <3>2. Known
      BY <2>1, <2>3, <3>1, SetRefundProcesses
    <3> QED  BY <3>2, <1>3
  <2>4. CASE Fits(row.refunded, amount, row.amount) /\ p = e.payment
    <3>1. SetRefund(e, "processed") /\ payment' = [payment EXCEPT ![p] = Credited(row, amount)]
      BY <1>8, <2>4 DEF RefundSettled
    <3>2. /\ row \in PaymentRow /\ row.refunded \in Nat /\ payment[p].refunded <= row.refunded
          /\ payment[p].refunded \in Nat /\ payment \in [Payments -> GoodRow]
      BY <2>4, EnsuredFacts, EnsuredMoves, <1>1 DEF Moves, GoodRow, PaymentRow, IInv
    <3>3. amount \in Nat /\ e.refund \in Refunds /\ EnsuredRefund(e) \in RefundRow
      BY <2>1, EnsuredRefundFacts DEF RefundRow
    <3>4. payment'[p].refunded = row.refunded + amount
      <4>1. payment'[p] = Credited(row, amount)
        BY <3>1, <3>2
      <4>2. Credited(row, amount).refunded = row.refunded + amount
        BY <3>2 DEF Credited, PaymentRow
      <4> QED  BY <4>1, <4>2
    <3> DEFINE P == ProcessedOf(p)
               Q == ProcessedOf(p)'
               f == Amounts
               h == Amounts'
               R == Q \ {e.refund}
    <3>5. \A r \in Refunds : h[r] = refund'[r].amount /\ f[r] = refund[r].amount
      BY DEF Amounts
    <3>6. /\ R \in SUBSET P /\ Q \in SUBSET Refunds
          /\ \A r \in R : h[r] = f[r]
          /\ e.refund \in Q => h[e.refund] = amount
      <4>1. Q = {r \in Refunds : refund'[r].status = "processed" /\ refund'[r].payment = p}
        BY DEF ProcessedOf
      <4>2. P = {r \in Refunds : refund[r].status = "processed" /\ refund[r].payment = p}
        BY DEF ProcessedOf
      <4>3. ASSUME NEW r \in Q, r # e.refund
            PROVE  r \in P /\ h[r] = f[r]
        <5>1. /\ refund[r].status = "processed"
              /\ refund'[r].payment = refund[r].payment /\ refund'[r].amount = refund[r].amount
          BY <2>1, <3>1, <4>1, <4>3, SetRefundProcesses
        <5> HIDE DEF P, Q, f, h
        <5> QED  BY <5>1, <3>5, <4>1, <4>2, <4>3
      <4>4. ASSUME e.refund \in Q
            PROVE  h[e.refund] = amount
        <5>1. refund'[e.refund].amount = amount
          BY <2>1, <3>1, <4>1, <4>4, SetRefundProcesses DEF EnsuredRefund
        <5> HIDE DEF Q, f, h, amount
        <5> QED  BY <5>1, <3>3, <3>5
      <4> HIDE DEF P, Q, f, h, amount
      <4> QED  BY <4>1, <4>3, <4>4
    <3>7. IsFiniteSet(P) /\ SumFunctionOnSet(f, P) <= payment[p].refunded /\ \A r \in P : f[r] \in Nat
      BY <1>2
    <3> HIDE DEF P, Q, f, h, R, row, amount
    <3>8. IsFiniteSet(R) /\ \A r \in R : f[r] \in Nat
      BY <3>6, <3>7, FS_Subset
    <3>9. SumFunctionOnSet(h, R) = SumFunctionOnSet(f, R) /\ SumFunctionOnSet(f, R) \in Nat
      BY <3>6, <3>8, SumSame, SumFacts
    <3>10. SumFunctionOnSet(f, R) <= SumFunctionOnSet(f, P) /\ SumFunctionOnSet(f, P) \in Nat
      BY <3>6, <3>7, SumGrows, SumFacts
    <3>11. SumFunctionOnSet(h, Q) <= SumFunctionOnSet(h, R) + amount
      <4>1. CASE e.refund \in Q
        <5>1. Q = R \cup {e.refund} /\ e.refund \notin R
          BY <4>1 DEF R
        <5>2. \A r \in R \cup {e.refund} : h[r] \in Nat
          BY <3>3, <3>6, <3>8, <4>1
        <5>3. SumFunctionOnSet(h, Q) = h[e.refund] + SumFunctionOnSet(h, R)
          BY <5>1, <5>2, <3>8, SumAdds
        <5> QED  BY <5>3, <4>1, <3>3, <3>6, <3>9
      <4>2. CASE e.refund \notin Q
        <5>1. Q = R
          BY <4>2 DEF R
        <5> QED  BY <5>1, <3>3, <3>9
      <4> QED  BY <4>1, <4>2
    <3>12. SumFunctionOnSet(h, Q) \in Int
      <4>1. CASE e.refund \in Q
        <5>1. Q = R \cup {e.refund} /\ e.refund \notin R
          BY <4>1 DEF R
        <5>2. \A r \in R \cup {e.refund} : h[r] \in Nat
          BY <3>3, <3>6, <3>8, <4>1
        <5>3. SumFunctionOnSet(h, Q) = h[e.refund] + SumFunctionOnSet(h, R)
          BY <5>1, <5>2, <3>8, SumAdds
        <5> QED  BY <5>3, <4>1, <3>3, <3>6, <3>9
      <4>2. CASE e.refund \notin Q
        <5>1. Q = R
          BY <4>2 DEF R
        <5> QED  BY <5>1, <3>3, <3>9
      <4> QED  BY <4>1, <4>2
    <3>13. SumFunctionOnSet(h, Q) <= payment'[p].refunded
      BY <3>2, <3>3, <3>4, <3>7, <3>9, <3>10, <3>11, <3>12
    <3> QED  BY <3>13 DEF Covers, AmountsOf, Amounts, Q, h
  <2> QED  BY <2>2, <2>3, <2>4
<1>9. CASE CaptureEvent(e)
  <2> DEFINE row == [Ensured(e) EXCEPT !.status = "success"]
             total == RunningTotal(e.payment, row)[Len(arrival)]
             S == Settleable(e.payment, row)
  <2>1. refund' = [r \in Refunds |-> IF ~ Held(r, e.payment) THEN refund[r]
                      ELSE [refund[r] EXCEPT !.status = IF r \in S THEN "processed" ELSE "rejected"]]
    BY <1>9 DEF CaptureEvent, SettleHeld
  <2>2. ASSUME NEW r \in Refunds
        PROVE  /\ refund'[r].payment = refund[r].payment /\ refund'[r].amount = refund[r].amount
               /\ refund'[r].status = "processed" =>
                     refund[r].status = "processed" \/ (refund[r].payment = e.payment /\ r \in S)
    <3>1. refund[r] \in RefundRow
      BY <1>2
    <3> HIDE DEF S, row
    <3>2. CASE Held(r, e.payment)
      <4>1. refund'[r] = [refund[r] EXCEPT !.status = IF r \in S THEN "processed" ELSE "rejected"]
        BY <2>1, <3>2
      <4> QED  BY <4>1, <3>1, <3>2 DEF Held, RefundRow
    <3>3. CASE ~ Held(r, e.payment)
      <4>1. refund'[r] = refund[r]
        BY <2>1, <3>3
      <4> QED  BY <4>1
    <3> QED  BY <3>2, <3>3
  <2>3. CASE p # e.payment
    <3>1. Known
      BY <2>2, <2>3
    <3> QED  BY <3>1, <1>3
  <2>4. CASE p = e.payment
    <3>1. /\ row \in PaymentRow /\ row.refunded = Ensured(e).refunded /\ row.refunded \in Nat
          /\ payment[p].refunded <= row.refunded
      BY <1>1, <2>4, EnsuredFacts, EnsuredMoves DEF Moves, GoodRow, PaymentRow, PaymentStatuses
    <3>2. payment'[p].refunded = total
      <4> DEFINE done == AfterSettling(p, row)
      <4>1. payment'[p] = [done EXCEPT !.recovered = done.recovered \/ p \in NewlyRecovered(e)]
        BY <1>9, <2>4 DEF CaptureEvent
      <4>2. done \in GoodRow
        BY <1>9, <2>4, CaptureMoves DEF Moves
      <4>3. done.refunded = total
        <5>1. done = [row EXCEPT !.refunded = total,
                                 !.status = IF S # {} /\ total = row.amount THEN "refunded" ELSE row.status]
          BY <2>4 DEF AfterSettling
        <5> HIDE DEF row, total, S, done
        <5> QED  BY <5>1, <3>1 DEF PaymentRow
      <4> HIDE DEF done
      <4>4. [done EXCEPT !.recovered = done.recovered \/ p \in NewlyRecovered(e)].refunded = done.refunded
        BY <4>2 DEF GoodRow, PaymentRow
      <4> QED  BY <4>1, <4>3, <4>4
    <3> DEFINE P == ProcessedOf(p)
               Q == ProcessedOf(p)'
               f == Amounts
               h == Amounts'
    <3>3. \A r \in Refunds : h[r] = refund'[r].amount /\ f[r] = refund[r].amount
      BY DEF Amounts
    <3>4. Q \in SUBSET (P \cup S) /\ \A r \in Q : h[r] = f[r]
      BY <2>2, <2>4, <3>3 DEF ProcessedOf
    <3>5. IsFiniteSet(P) /\ P \in SUBSET Refunds
          /\ SumFunctionOnSet(f, P) <= payment[p].refunded /\ \A r \in Refunds : f[r] \in Nat
      BY <1>2
    <3>6. SumFunctionOnSet(f, P) <= row.refunded
      <4>1. SumFunctionOnSet(f, P) \in Nat
        BY <3>5, SumFacts
      <4> HIDE DEF P, f, row
      <4> QED  BY <4>1, <3>1, <3>5, <1>1
    <3>7. IsFiniteSet(P \cup S) /\ SumFunctionOnSet(f, P \cup S) <= total
      <4>1. TypeOK
        BY IInvImplies
      <4> HIDE DEF row
      <4> QED  BY <2>4, <3>1, <3>5, <3>6, <4>1, SettlingCovers
    <3>8. P \cup S \in SUBSET Refunds
      BY <3>5 DEF Settleable, IInv
    <3> HIDE DEF P, Q, f, h, S, total, row
    <3>9. IsFiniteSet(Q) /\ \A r \in P \cup S : f[r] \in Nat
      BY <3>4, <3>5, <3>7, <3>8, FS_Subset
    <3>10. SumFunctionOnSet(h, Q) = SumFunctionOnSet(f, Q) /\ SumFunctionOnSet(f, Q) \in Nat
      <4>1. \A r \in Q : f[r] \in Nat
        BY <3>4, <3>9
      <4> QED  BY <3>4, <3>9, <4>1, SumSame, SumFacts
    <3>11. /\ SumFunctionOnSet(f, Q) <= SumFunctionOnSet(f, P \cup S)
           /\ SumFunctionOnSet(f, P \cup S) \in Nat
      BY <3>4, <3>7, <3>9, SumGrows, SumFacts
    <3>12. SumFunctionOnSet(h, Q) <= payment'[p].refunded
      BY <1>1, <3>2, <3>7, <3>10, <3>11
    <3> QED  BY <3>12 DEF Covers, AmountsOf, Amounts, Q, h
  <2> QED  BY <2>3, <2>4
<1> QED  BY <1>4, <1>6, <1>7, <1>8, <1>9 DEF ApplyEvent

(***************************************************************************)
(* No processed refund is missing from its payment's total, whether it was *)
(* credited at once or settled after it was held.                          *)
(***************************************************************************)
THEOREM ProcessedIsCounted == Spec => []AggregateCoversProcessed
<1> DEFINE CoverInv == Arrived /\ AggregateCoversProcessed
<1>1. Init => CoverInv
  <2> SUFFICES ASSUME Init PROVE CoverInv
    OBVIOUS
  <2>1. Arrived /\ \A p \in Payments : ProcessedOf(p) = {} /\ payment[p].refunded = 0
    BY DEF Init, Arrived, ProcessedOf, NoRefund, NoPayment
  <2>2. AmountsOf({}) = 0
    BY SumFacts, FS_EmptySet DEF AmountsOf
  <2>3. \A p \in Payments : AmountsOf(ProcessedOf(p)) <= payment[p].refunded
    BY <2>1, <2>2
  <2> QED  BY <2>1, <2>3 DEF AggregateCoversProcessed
<1>2. IInv /\ CoverInv /\ [Next]_vars => CoverInv'
  <2>1. ASSUME IInv, CoverInv, NEW e \in Events, ApplyEvent(e) PROVE CoverInv'
    BY <2>1, ArrivedStep, CoversStep
  <2>2. CASE UNCHANGED vars
    BY <2>2 DEF vars, Arrived, AggregateCoversProcessed, AmountsOf, ProcessedOf
  <2> QED  BY <2>1, <2>2 DEF Next
<1>3. CoverInv => AggregateCoversProcessed
  OBVIOUS
<1> QED  BY <1>1, <1>2, <1>3, Inductive, PTL DEF Spec

------------------------------------------------------------------------------
(* The history of the deliveries.                                          *)

\* A payment is captured by a capture event that is about it, and by nothing else.
LEMMA CaptureStep ==
    ASSUME IInv, NEW e \in Events, ApplyEvent(e), NEW p \in Payments
    PROVE  Captured(p)' <=> Captured(p) \/ (e.payment = p /\ e.type \in CaptureTypes)
<1>1. /\ payment[p] \in GoodRow /\ payment'[p] \in GoodRow
      /\ Captured(p) => Captured(p)'
  BY PaymentRowStep DEF Moves, Captured
<1>2. CASE p # e.payment
  BY <1>2, PaymentRowStep DEF Captured
<1>3. CASE p = e.payment /\ e.type \in CaptureTypes
  <2>1. CASE CaptureEvent(e)
    <3> DEFINE done == AfterSettling(p, [Ensured(e) EXCEPT !.status = "success"])
    <3>1. payment'[p] = [done EXCEPT !.recovered = done.recovered \/ p \in NewlyRecovered(e)]
      BY <1>3, <2>1 DEF CaptureEvent
    <3>2. done \in GoodRow /\ done.status \in CapturedStatuses
      BY <1>3, <2>1, CaptureMoves DEF Moves
    <3> HIDE DEF done
    <3> QED  BY <1>3, <3>1, <3>2 DEF Captured, GoodRow, PaymentRow
  <2>2. CASE LateEvent(e)
    <3>1. ~ CanTransition(Ensured(e).status, "success")
      BY <1>3, <2>2 DEF LateEvent, Target, CaptureTypes
    <3>2. Ensured(e).status \in PaymentStatuses \ {"absent"} /\ Ensured(e) \in GoodRow
      BY EnsuredFacts, EnsuredMoves DEF Moves, GoodRow, PaymentRow
    <3>3. Ensured(e).status = "refunded"
      BY <3>1, <3>2 DEF CanTransition, Allowed, PaymentStatuses
    <3>4. payment'[p] = Ensured(e)
      BY <1>1, <1>3, <2>2 DEF LateEvent, IInv
    <3> QED  BY <1>3, <3>3, <3>4 DEF Captured, CapturedStatuses
  <2> QED  BY <1>3, <2>1, <2>2 DEF ApplyEvent, ProgressEvent, RefundAmountChanged, RefundNoted,
               RefundRepeated, RefundHeld, RefundSettled, ProcessedRefund, RefundArrives,
               RefundTypes, CaptureTypes
<1>4. CASE p = e.payment /\ e.type \notin CaptureTypes
  <2>1. Ensured(e).status \in CapturedStatuses => Captured(p)
    BY <1>4, EnsuredFacts DEF Captured, CapturedStatuses
  <2>2. CASE payment' = [payment EXCEPT ![p] = Ensured(e)] \/ payment' = [payment EXCEPT ![e.payment] = Ensured(e)]
    <3>1. payment'[p] = Ensured(e)
      BY <1>4, <2>2 DEF IInv
    <3> QED  BY <1>1, <1>4, <2>1, <3>1 DEF Captured
  <2>3. CASE ProgressEvent(e)
    <3>1. Ensured(e) \in PaymentRow /\ Target(e.type) \notin CapturedStatuses
      BY <2>3, EnsuredFacts DEF GoodRow, ProgressEvent, Target, PaymentTypes, CaptureTypes, CapturedStatuses
    <3>2. payment'[p] = [Ensured(e) EXCEPT !.status = Target(e.type)]
      BY <1>1, <1>4, <2>3 DEF ProgressEvent, IInv
    <3>3. payment'[p].status \notin CapturedStatuses
      BY <3>1, <3>2 DEF PaymentRow
    <3> QED  BY <3>3, <1>1, <1>4 DEF Captured
  <2>4. CASE RefundSettled(e)
    <3>1. Captured(p)
      BY <2>1, <2>4 DEF RefundSettled
    <3> QED  BY <3>1, <1>1
  <2> QED  BY <1>4, <2>2, <2>3, <2>4 DEF ApplyEvent, LateEvent, CaptureEvent, RefundAmountChanged,
               RefundNoted, RefundRepeated, RefundHeld
<1> QED  BY <1>2, <1>3, <1>4

\* The history does not meddle with the ledger.
LEMMA HistoryInductive == HistorySpec => []IInv
<1>1. HistoryInit => IInv
  BY InitIInv DEF HistoryInit
<1>2. IInv /\ [HistoryNext]_historyVars => IInv'
  <2>1. [HistoryNext]_historyVars => [Next]_vars
    BY DEF HistoryNext, historyVars, Next
  <2> QED  BY <2>1, NextIInv
<1> QED  BY <1>1, <1>2, PTL DEF HistorySpec

(***************************************************************************)
(* A payment is captured exactly when a capture event of it was delivered, *)
(* in whatever order, and however often, the events arrive.                *)
(***************************************************************************)
THEOREM CapturesAreKept == HistorySpec => []CaptureNeverLost
<1>1. HistoryInit => CaptureNeverLost
  BY DEF HistoryInit, Init, CaptureNeverLost, Captured, NoPayment, CapturedStatuses
<1>2. IInv /\ CaptureNeverLost /\ [HistoryNext]_historyVars => CaptureNeverLost'
  <2> SUFFICES ASSUME IInv, CaptureNeverLost, [HistoryNext]_historyVars PROVE CaptureNeverLost'
    OBVIOUS
  <2>1. ASSUME NEW e \in Events, ApplyEvent(e), delivered' = delivered \cup {e}
        PROVE  CaptureNeverLost'
    <3>1. ASSUME NEW p \in Payments
          PROVE  Captured(p)' <=> \E d \in delivered' : d.payment = p /\ d.type \in CaptureTypes
      BY <2>1, CaptureStep DEF CaptureNeverLost
    <3> QED  BY <3>1 DEF CaptureNeverLost
  <2>2. CASE UNCHANGED historyVars
    BY <2>2 DEF historyVars, vars, CaptureNeverLost, Captured
  <2> QED  BY <2>1, <2>2 DEF HistoryNext
<1> QED  BY <1>1, <1>2, HistoryInductive, PTL DEF HistorySpec

------------------------------------------------------------------------------
(* The refinement.                                                         *)

\* What the abstract ledger sees of a payment row.
Seen(row) == [phase |-> IF row.status = "absent" THEN "unknown"
                        ELSE IF row.status \in CapturedStatuses THEN "captured"
                        ELSE "open",
              amount |-> row.amount, refunded |-> row.refunded]

\* The abstract state, before and after a step, payment by payment.
LEMMA MoneySeen ==
    /\ Money = [p \in Payments |-> Seen(payment[p])]
    /\ Money' = [p \in Payments |-> Seen(payment'[p])]
  BY DEF Money, Seen, Captured

(***************************************************************************)
(* Every event is a step of the abstract ledger, or leaves the money as it *)
(* is.                                                                     *)
(***************************************************************************)
LEMMA EventRefines ==
    ASSUME NEW e \in Events, IInv, ApplyEvent(e)
    PROVE  Abstract!Next \/ UNCHANGED Money
<1> DEFINE p == e.payment
           old == payment[p]
           new == payment'[p]
<1>1. p \in Payments
  BY EventsAssumption DEF CanonicalEvent
<1>2. old \in GoodRow /\ new \in GoodRow /\ Moves(old, new)
  BY <1>1, PaymentRowStep
<1>3. ASSUME NEW q \in Payments, q # p
      PROVE  Seen(payment'[q]) = Seen(payment[q])
  BY <1>3, PaymentRowStep DEF Seen
<1>4. /\ \A q \in Payments : Money[q] = Seen(payment[q])
      /\ \A q \in Payments : Money'[q] = Seen(payment'[q])
      /\ Money' = [Money EXCEPT ![p] = Money'[p]]
  BY <1>1, <1>3, MoneySeen
<1>5. Abstract!OnlyChanges(p)
  BY <1>4 DEF Abstract!OnlyChanges
<1>6. Money[p] = Seen(old) /\ Money'[p] = Seen(new)
  BY <1>1, <1>4
<1>7. /\ Seen(new).amount = new.amount /\ Seen(new).refunded = new.refunded
      /\ Seen(old).amount = old.amount /\ Seen(old).refunded = old.refunded
      /\ Seen(old).phase = "unknown" <=> old.status = "absent"
      /\ Seen(old).phase = "captured" <=> old.status \in CapturedStatuses
      /\ Seen(new).phase = IF new.status \in CapturedStatuses THEN "captured" ELSE "open"
      /\ old.status # "absent" /\ old.status \notin CapturedStatuses
            => Seen(old).phase = "open"
      /\ Seen(old).phase = "open" => old.status # "absent"
  BY <1>2 DEF Seen, CapturedStatuses, Moves
<1>8. /\ old.refunded \in Nat /\ new.refunded \in Nat
      /\ old.amount \in Nat /\ new.amount \in Nat
      /\ new.refunded <= new.amount /\ old.refunded <= new.refunded
      /\ old.status # "absent" => new.amount = old.amount
      /\ new.refunded > 0 => new.status \in CapturedStatuses
      /\ old.refunded > 0 => old.status \in CapturedStatuses
      /\ old.status \in CapturedStatuses => new.status \in CapturedStatuses
  BY <1>2 DEF GoodRow, PaymentRow, Moves
<1> HIDE DEF p, old, new
<1>9. CASE old.status \in CapturedStatuses
  <2>1. Abstract!Credit(p)
    BY <1>5, <1>6, <1>7, <1>8, <1>9 DEF Abstract!Credit, CapturedStatuses
  <2> QED  BY <2>1, <1>1 DEF Abstract!Next
<1>10. CASE old.status \notin CapturedStatuses /\ new.status \in CapturedStatuses
  <2>1. Abstract!Capture(p)
    BY <1>5, <1>6, <1>7, <1>8, <1>10 DEF Abstract!Capture
  <2> QED  BY <2>1, <1>1 DEF Abstract!Next
<1>11. CASE old.status = "absent" /\ new.status \notin CapturedStatuses
  <2>1. Abstract!Learn(p)
    BY <1>5, <1>6, <1>7, <1>8, <1>11 DEF Abstract!Learn
  <2> QED  BY <2>1, <1>1 DEF Abstract!Next
<1>12. CASE /\ old.status # "absent" /\ old.status \notin CapturedStatuses
            /\ new.status \notin CapturedStatuses
  <2>1. new.refunded = 0 /\ old.refunded = 0 /\ new.amount = old.amount
    BY <1>8, <1>12
  <2>2. Seen(new) = Seen(old)
    BY <2>1, <1>2, <1>12 DEF Seen, Moves
  <2>3. UNCHANGED Money
    BY <2>2, <1>1, <1>3, <1>4, <1>6, MoneySeen
  <2> QED  BY <2>3
<1> QED  BY <1>9, <1>10, <1>11, <1>12

(***************************************************************************)
(* The state machine implements the abstract ledger: amounts are fixed,    *)
(* capture is for good, and only a captured payment is refunded, within    *)
(* its amount.                                                             *)
(***************************************************************************)
THEOREM Refinement == Spec => ImplementsCaptureLedger
<1>1. Init => Abstract!Init
  BY MoneySeen DEF Init, NoPayment, Seen, Abstract!Init
<1>2. IInv /\ [Next]_vars => [Abstract!Next]_Money
  <2> SUFFICES ASSUME IInv, [Next]_vars PROVE [Abstract!Next]_Money
    OBVIOUS
  <2>1. CASE UNCHANGED vars
    BY <2>1, MoneySeen DEF vars
  <2>2. ASSUME NEW e \in Events, ApplyEvent(e) PROVE Abstract!Next \/ UNCHANGED Money
    BY <2>2, EventRefines
  <2> QED  BY <2>1, <2>2 DEF Next
<1> QED  BY <1>1, <1>2, Inductive, PTL DEF Spec, ImplementsCaptureLedger, Abstract!Spec

------------------------------------------------------------------------------
(* Paid orders.                                                            *)

\* A provider's payment belongs to one order: its events name no other.
OneOrder ==
    \A e, f \in Events :
        e.payment = f.payment /\ e.order # None /\ f.order # None => e.order = f.order

\* The order of a payment row was named by an event, and an order that is not paid
\* has had nothing paid.
PaidInv ==
    /\ IInv
    /\ \A p \in Payments : payment[p].order # None =>
          \E e \in Events : e.payment = p /\ e.order = payment[p].order
    /\ \A o \in Orders : order[o].status # "paid" => order[o].paid = 0
    /\ PaidOrderWasCaptured

\* An event completes a row by the order that it names itself.
LEMMA EnsuredNamesOrder ==
    ASSUME OneOrder, PaidInv, NEW e \in Events
    PROVE  /\ Ensured(e).order # None =>
                \E f \in Events : f.payment = e.payment /\ f.order = Ensured(e).order
           /\ OrderOf(e) = Ensured(e).order
<1> DEFINE old == payment[e.payment]
<1>1. e.payment \in Payments /\ old \in PaymentRow
  BY EventsAssumption DEF CanonicalEvent, PaidInv, IInv, GoodRow
<1>2. Ensured(e).order = IF old.status = "absent" \/ old.order = None THEN e.order ELSE old.order
  BY <1>1 DEF Ensured, PaymentRow
<1>3. old.order # None => \E f \in Events : f.payment = e.payment /\ f.order = old.order
  BY <1>1 DEF PaidInv
<1>4. e.order # None /\ old.order # None => e.order = old.order
  BY <1>3 DEF OneOrder
<1> HIDE DEF old
<1> QED  BY <1>2, <1>3, <1>4 DEF OrderOf

\* An event leaves the payment that it names with the order of the ensured row.
LEMMA EnsuredOrderKept ==
    ASSUME NEW e \in Events, IInv, ApplyEvent(e)
    PROVE  payment'[e.payment].order = Ensured(e).order
<1>1. e.payment \in Payments /\ payment \in [Payments -> GoodRow]
  BY EventsAssumption DEF CanonicalEvent, IInv
<1>2. Ensured(e) \in PaymentRow
  BY EnsuredFacts DEF GoodRow
<1>3. CASE payment' = [payment EXCEPT ![e.payment] = Ensured(e)]
  BY <1>1, <1>3
<1>4. CASE ProgressEvent(e)
  BY <1>1, <1>2, <1>4 DEF ProgressEvent, PaymentRow
<1>5. CASE RefundSettled(e)
  <2>1. \A amount : Credited(Ensured(e), amount).order = Ensured(e).order
    BY <1>2 DEF Credited, PaymentRow
  <2> QED  BY <1>1, <1>5, <2>1 DEF RefundSettled
<1>6. CASE CaptureEvent(e)
  <2> DEFINE row  == [Ensured(e) EXCEPT !.status = "success"]
             done == AfterSettling(e.payment, row)
  <2>1. done.order = Ensured(e).order /\ DOMAIN done = DOMAIN Ensured(e)
    BY <1>2 DEF AfterSettling, PaymentRow
  <2>2. \E b : payment'[e.payment] = [done EXCEPT !.recovered = b]
    BY <1>1, <1>6 DEF CaptureEvent
  <2>3. \A b : [done EXCEPT !.recovered = b].order = done.order
    BY <1>2, <2>1 DEF PaymentRow
  <2> QED  BY <2>1, <2>2, <2>3
<1> QED  BY <1>3, <1>4, <1>5, <1>6
         DEF ApplyEvent, LateEvent, RefundAmountChanged, RefundNoted, RefundRepeated, RefundHeld

\* What an event does to an order: nothing that matters, or it pays it.
LEMMA OrderPaid ==
    ASSUME NEW e \in Events, IInv, ApplyEvent(e), NEW o \in Orders
    PROVE  \/ /\ order'[o].paid = order[o].paid
              /\ order'[o].status = "paid" <=> order[o].status = "paid"
           \/ /\ CaptureEvent(e) /\ o = OrderOf(e)
              /\ order'[o].status = "paid"
              /\ order'[o].paid = IF order[o].paid < Ensured(e).amount THEN Ensured(e).amount
                                  ELSE order[o].paid
<1>1. order[o] \in GoodOrder /\ order[o] \in OrderRow
  BY DEF IInv, GoodOrder
<1>2. Ensured(e) \in PaymentRow /\ e.orderAmount \in Nat
  BY EnsuredFacts, EventsAssumption DEF GoodRow, CanonicalEvent
<1> DEFINE new == EnsuredOrder(e, o)
<1>3. /\ new.paid = order[o].paid
      /\ new.status = "paid" <=> order[o].status = "paid"
      /\ new \in OrderRow
  BY <1>1, <1>2 DEF EnsuredOrder, NoOrder, GoodOrder, OrderRow, PaymentRow, Or
<1> HIDE DEF new
<1>4. CASE order'[o] \in {order[o], new}
  BY <1>3, <1>4
<1>5. CASE CaptureEvent(e)
  <2>1. CASE o # OrderOf(e)
    BY <1>4, <1>5, <2>1 DEF CaptureEvent
  <2>2. CASE o = OrderOf(e)
    <3>1. [Ensured(e) EXCEPT !.status = "success"].amount = Ensured(e).amount
      BY <1>2 DEF PaymentRow
    <3>2. order'[o] = [new EXCEPT !.status = "paid",
                                  !.paid = IF new.paid < Ensured(e).amount
                                           THEN Ensured(e).amount ELSE new.paid]
      BY <1>5, <2>2, <3>1 DEF CaptureEvent, new
    <3>3. \A x : /\ [new EXCEPT !.status = "paid", !.paid = x].status = "paid"
                 /\ [new EXCEPT !.status = "paid", !.paid = x].paid = x
      BY <1>3 DEF OrderRow
    <3> QED  BY <1>3, <1>5, <2>2, <3>2, <3>3
  <2> QED  BY <2>1, <2>2
<1>6. CASE LateEvent(e)
  BY <1>4, <1>6 DEF LateEvent
<1>7. CASE EnsureOrder(e)
  BY <1>4, <1>7 DEF EnsureOrder, new
<1> QED  BY <1>5, <1>6, <1>7
         DEF ApplyEvent, ProgressEvent, RefundAmountChanged, RefundNoted,
             RefundRepeated, RefundHeld, RefundSettled, ProcessedRefund, RefundArrives

\* A captured payment of an order stays one, in its amount.
LEMMA PaymentOfOrderKept ==
    ASSUME NEW e \in Events, IInv, ApplyEvent(e), NEW p \in Payments,
           NEW o \in Orders, Captured(p), payment[p].order = o
    PROVE  /\ payment'[p].status \in CapturedStatuses /\ payment'[p].order = o
           /\ payment'[p].amount = payment[p].amount
<1>1. o # None /\ payment[p].status # "absent"
  BY EventsAssumption DEF Captured, CapturedStatuses
<1> QED  BY <1>1, PaymentRowStep DEF Moves, Captured

(***************************************************************************)
(* Where the events of a payment name one order, every paid order was paid *)
(* by a captured payment of that order, in the amount paid.                *)
(***************************************************************************)
THEOREM PaidOrders == OneOrder => (Spec => []PaidOrderWasCaptured)
<1> SUFFICES ASSUME OneOrder PROVE Spec => []PaidOrderWasCaptured
  OBVIOUS
<1>1. Init => PaidInv
  BY InitIInv DEF Init, PaidInv, NoPayment, NoOrder, PaidOrderWasCaptured
<1>2. ASSUME PaidInv, NEW e \in Events, ApplyEvent(e) PROVE PaidInv'
  <2>1. IInv /\ IInv' /\ e.payment \in Payments
    BY <1>2, PaymentsStep, OrdersStep, RefundsStep, EventsAssumption
       DEF IInv, PaidInv, CanonicalEvent
  <2>2. ASSUME NEW p \in Payments, payment'[p].order # None
        PROVE  \E f \in Events : f.payment = p /\ f.order = payment'[p].order
    <3>1. CASE p = e.payment
      BY <1>2, <2>1, <2>2, <3>1, EnsuredNamesOrder, EnsuredOrderKept
    <3>2. CASE p # e.payment
      BY <1>2, <2>1, <2>2, <3>2, PaymentRowStep DEF PaidInv
    <3> QED  BY <3>1, <3>2
  <2>3. ASSUME NEW o \in Orders
        PROVE  /\ order'[o].status # "paid" => order'[o].paid = 0
               /\ order'[o].status = "paid" =>
                    \E p \in Payments : /\ payment'[p].status \in CapturedStatuses
                                        /\ payment'[p].order = o
                                        /\ payment'[p].amount = order'[o].paid
    <3>1. ASSUME order[o].status = "paid", order'[o].paid = order[o].paid
          PROVE  \E p \in Payments : /\ payment'[p].status \in CapturedStatuses
                                     /\ payment'[p].order = o
                                     /\ payment'[p].amount = order'[o].paid
      <4>1. PICK p \in Payments : /\ Captured(p) /\ payment[p].order = o
                                  /\ payment[p].amount = order[o].paid
        BY <1>2, <3>1 DEF PaidInv, PaidOrderWasCaptured
      <4> QED  BY <1>2, <2>1, <3>1, <4>1, PaymentOfOrderKept
    <3>2. CASE /\ order'[o].paid = order[o].paid
               /\ order'[o].status = "paid" <=> order[o].status = "paid"
      BY <1>2, <3>1, <3>2 DEF PaidInv
    <3>3. CASE /\ CaptureEvent(e) /\ o = OrderOf(e)
               /\ order'[o].status = "paid"
               /\ order'[o].paid = IF order[o].paid < Ensured(e).amount THEN Ensured(e).amount
                                   ELSE order[o].paid
      <4> DEFINE p == e.payment
      <4>1. payment'[p].order = o
        BY <1>2, <2>1, <3>3, EnsuredNamesOrder, EnsuredOrderKept
      <4>2. payment'[p].status \in CapturedStatuses /\ payment'[p].amount = Ensured(e).amount
        <5> DEFINE row  == [Ensured(e) EXCEPT !.status = "success"]
                   done == AfterSettling(p, row)
        <5>1. /\ row \in PaymentRow /\ row.amount = Ensured(e).amount
              /\ done.status \in CapturedStatuses /\ Moves(payment[p], done)
          BY <2>1, <3>3, CaptureMoves, EnsuredFacts DEF GoodRow, PaymentRow
        <5>2. done.amount = row.amount /\ done \in PaymentRow
          <6>1. done \in PaymentRow
            BY <5>1 DEF Moves, GoodRow
          <6>2. done.amount = row.amount
            BY <5>1 DEF AfterSettling, PaymentRow
          <6> QED  BY <6>1, <6>2
        <5>3. \E b : payment'[p] = [done EXCEPT !.recovered = b]
          BY <2>1, <3>3 DEF CaptureEvent
        <5> HIDE DEF row, done
        <5>4. \A b : /\ [done EXCEPT !.recovered = b].status = done.status
                     /\ [done EXCEPT !.recovered = b].amount = done.amount
          BY <5>2 DEF PaymentRow
        <5> QED  BY <5>1, <5>2, <5>3, <5>4
      <4>3. CASE order[o].paid < Ensured(e).amount
        BY <2>1, <3>3, <4>1, <4>2, <4>3
      <4>4. CASE ~ (order[o].paid < Ensured(e).amount) /\ order[o].status = "paid"
        BY <3>1, <3>3, <4>4
      <4>5. CASE ~ (order[o].paid < Ensured(e).amount) /\ order[o].status # "paid"
        <5>1. order[o].paid = 0 /\ Ensured(e).amount \in Nat
          BY <1>2, <2>1, <4>5, EnsuredFacts DEF PaidInv, GoodRow, PaymentRow
        <5>2. Ensured(e).amount = 0
          BY <4>5, <5>1
        <5> QED  BY <2>1, <3>3, <4>1, <4>2, <5>1, <5>2
      <4> QED  BY <3>3, <4>3, <4>4, <4>5
    <3> QED  BY <1>2, <2>1, <3>2, <3>3, OrderPaid
  <2> QED  BY <2>1, <2>2, <2>3 DEF PaidInv, PaidOrderWasCaptured, Captured
<1>3. PaidInv /\ [Next]_vars => PaidInv'
  <2>1. CASE UNCHANGED vars
    BY <2>1, NextIInv DEF vars, PaidInv, PaidOrderWasCaptured, Captured
  <2> QED  BY <1>2, <2>1 DEF Next
<1>4. PaidInv => PaidOrderWasCaptured
  BY DEF PaidInv
<1> QED  BY <1>1, <1>3, <1>4, PTL DEF Spec

------------------------------------------------------------------------------
(* What the ledger keeps.                                                  *)

\* A row that exists has an amount.
Positive ==
    /\ \A p \in Payments : payment[p].status # "absent" => payment[p].amount > 0
    /\ \A o \in Orders : order[o].status # "absent" => order[o].amount > 0

\* What a step of the ledger does not change.
LedgerKeeps ==
    /\ \A p \in Payments :
          /\ payment[p].status \in CapturedStatuses => payment'[p].status \in CapturedStatuses
          /\ payment[p].status # "absent" => payment'[p].amount = payment[p].amount
          /\ payment[p].order # None => payment'[p].order = payment[p].order
    /\ \A o \in Orders :
          /\ order[o].status = "paid" => order'[o].status = "paid"
          /\ order[o].status # "absent" => order'[o].amount = order[o].amount

\* The row that an event finds or creates has an amount.
LEMMA EnsuredPositive ==
    ASSUME NEW e \in Events, IInv, Positive
    PROVE  Ensured(e).amount \in Nat \ {0} /\ Ensured(e) \in PaymentRow
<1>1. /\ e.payment \in Payments /\ e.amount \in Nat \ {0} /\ e.paymentAmount \in Nat
      /\ e.order \in Orders \cup {None} /\ e.group \in Groups
  BY EventsAssumption, AmountsAssumption DEF CanonicalEvent
<1>2. payment[e.payment] \in GoodRow
  BY <1>1 DEF IInv
<1>3. Ensured(e) \in PaymentRow
  BY EnsuredFacts DEF GoodRow
<1>4. CASE payment[e.payment].status = "absent"
  <2>1. Ensured(e).amount = Or(e.paymentAmount, e.amount)
    BY <1>4 DEF Ensured
  <2> QED  BY <2>1, <1>1, <1>3 DEF Or
<1>5. CASE payment[e.payment].status # "absent"
  <2>1. Ensured(e).amount = payment[e.payment].amount
    BY <1>2, <1>5, EnsuredFacts
  <2>2. payment[e.payment].amount > 0 /\ payment[e.payment].amount \in Nat
    BY <1>1, <1>2, <1>5 DEF Positive, GoodRow, PaymentRow
  <2> QED  BY <2>1, <2>2, <1>3
<1> QED  BY <1>4, <1>5

\* An event leaves the payment it names with the amount of the ensured row.
LEMMA AmountStep ==
    ASSUME NEW e \in Events, IInv, ApplyEvent(e)
    PROVE  payment'[e.payment].amount = Ensured(e).amount
<1>1. e.payment \in Payments /\ payment \in [Payments -> GoodRow]
  BY EventsAssumption DEF CanonicalEvent, IInv
<1>2. Ensured(e) \in PaymentRow
  BY EnsuredFacts DEF GoodRow
<1>3. CASE payment' = [payment EXCEPT ![e.payment] = Ensured(e)]
  BY <1>1, <1>3
<1>4. CASE ProgressEvent(e)
  BY <1>1, <1>2, <1>4 DEF ProgressEvent, PaymentRow
<1>5. CASE RefundSettled(e)
  <2>1. payment'[e.payment] = IF Fits(Ensured(e).refunded, EnsuredRefund(e).amount, Ensured(e).amount)
                              THEN Credited(Ensured(e), EnsuredRefund(e).amount) ELSE Ensured(e)
    BY <1>1, <1>5 DEF RefundSettled
  <2>2. \A amount : Credited(Ensured(e), amount).amount = Ensured(e).amount
    BY <1>2 DEF Credited, PaymentRow
  <2> QED  BY <2>1, <2>2
<1>6. CASE CaptureEvent(e)
  <2> DEFINE row  == [Ensured(e) EXCEPT !.status = "success"]
             done == AfterSettling(e.payment, row)
  <2>1. row.amount = Ensured(e).amount /\ DOMAIN row = DOMAIN Ensured(e)
    BY <1>2 DEF PaymentRow
  <2>2. done.amount = row.amount /\ DOMAIN done = DOMAIN row
    BY <1>2 DEF AfterSettling, PaymentRow
  <2>3. \E b : payment'[e.payment] = [done EXCEPT !.recovered = b]
    BY <1>1, <1>6 DEF CaptureEvent
  <2>4. \A b : [done EXCEPT !.recovered = b].amount = done.amount
    BY <1>2, <2>1, <2>2 DEF PaymentRow
  <2> QED  BY <2>1, <2>2, <2>3, <2>4
<1> QED  BY <1>3, <1>4, <1>5, <1>6
         DEF ApplyEvent, LateEvent, RefundAmountChanged, RefundNoted, RefundRepeated, RefundHeld

\* What one event does to an order.
LEMMA OrderRowStep ==
    ASSUME NEW e \in Events, IInv, Positive, ApplyEvent(e), NEW o \in Orders
    PROVE  /\ order[o].status = "paid" => order'[o].status = "paid"
           /\ order[o].status # "absent" => order'[o].amount = order[o].amount
           /\ order'[o].status # "absent" => order'[o].amount > 0
<1>1. order \in [Orders -> OrderRow] /\ order[o] \in OrderRow
  BY DEF IInv, GoodOrder
<1>2. Ensured(e).amount \in Nat \ {0} /\ e.orderAmount \in Nat
  BY EnsuredPositive, EventsAssumption DEF CanonicalEvent
<1> DEFINE new == EnsuredOrder(e, o)
<1>3. /\ new \in OrderRow
      /\ new.amount > 0
      /\ order[o].status = "paid" => new.status = "paid"
      /\ order[o].status # "absent" => new.amount = order[o].amount
  <2>1. CASE order[o].status = "absent"
    <3>1. Or(e.orderAmount, Ensured(e).amount) \in Nat \ {0}
      BY <1>2 DEF Or
    <3>2. PICK x \in Nat \ {0} : new = [NoOrder EXCEPT !.status = "created", !.amount = x]
      BY <2>1, <3>1 DEF EnsuredOrder
    <3> HIDE DEF new
    <3>3. new = [status |-> "created", amount |-> x, paid |-> 0]
      BY <3>2 DEF NoOrder
    <3> QED  BY <2>1, <3>3 DEF OrderRow
  <2>2. CASE order[o].status # "absent"
    <3>1. order[o].amount \in Nat \ {0}
      BY <1>1, <2>2 DEF Positive, OrderRow
    <3>2. new = [order[o] EXCEPT !.amount = Or(order[o].amount, Ensured(e).amount)]
      BY <2>2 DEF EnsuredOrder
    <3>3. Or(order[o].amount, Ensured(e).amount) = order[o].amount
      BY <3>1 DEF Or
    <3> HIDE DEF new
    <3> QED  BY <1>1, <2>2, <3>1, <3>2, <3>3 DEF OrderRow
  <2> QED  BY <2>1, <2>2
<1>4. CASE order'[o] = order[o]
  BY <1>4 DEF Positive
<1>5. CASE order'[o] = new
  <2> HIDE DEF new
  <2> QED  BY <1>3, <1>5
<1>6. CASE CaptureEvent(e) /\ o = OrderOf(e)
  <2>1. \E paid : order'[o] = [new EXCEPT !.status = "paid", !.paid = paid]
    BY <1>6 DEF CaptureEvent
  <2>2. \A paid : /\ [new EXCEPT !.status = "paid", !.paid = paid].status = "paid"
                  /\ [new EXCEPT !.status = "paid", !.paid = paid].amount = new.amount
    <3> HIDE DEF new
    <3> QED  BY <1>3 DEF OrderRow
  <2> HIDE DEF new
  <2> QED  BY <1>3, <2>1, <2>2
<1>7. CASE EnsureOrder(e)
  <2>1. order'[o] \in {order[o], new}
    BY <1>7 DEF EnsureOrder
  <2> QED  BY <2>1, <1>4, <1>5
<1>8. CASE CaptureEvent(e) /\ o # OrderOf(e)
  BY <1>4, <1>8 DEF CaptureEvent
<1>9. CASE LateEvent(e)
  BY <1>4, <1>9 DEF LateEvent
<1> QED  BY <1>6, <1>7, <1>8, <1>9
         DEF ApplyEvent, ProgressEvent, RefundAmountChanged, RefundNoted,
             RefundRepeated, RefundHeld, RefundSettled, ProcessedRefund, RefundArrives

\* The ledger keeps its invariant, its positive amounts, and what requests read.
LEMMA LedgerStep ==
    ASSUME IInv, Positive, [Next]_vars
    PROVE  IInv' /\ Positive' /\ LedgerKeeps
<1>1. IInv'
  BY NextIInv
<1>2. CASE UNCHANGED vars
  BY <1>1, <1>2 DEF vars, Positive, LedgerKeeps
<1>3. ASSUME NEW e \in Events, ApplyEvent(e)
      PROVE  Positive' /\ LedgerKeeps
  <2>1. ASSUME NEW p \in Payments
        PROVE  /\ payment[p].status \in CapturedStatuses => payment'[p].status \in CapturedStatuses
               /\ payment[p].status # "absent" => payment'[p].amount = payment[p].amount
               /\ payment[p].order # None => payment'[p].order = payment[p].order
    BY <1>3, PaymentRowStep DEF Moves
  <2>2. ASSUME NEW p \in Payments, payment'[p].status # "absent"
        PROVE  payment'[p].amount > 0
    <3>1. CASE p = e.payment
      BY <1>3, <3>1, AmountStep, EnsuredPositive
    <3>2. CASE p # e.payment
      <4>1. payment'[p].status = payment[p].status /\ payment'[p].amount = payment[p].amount
        BY <1>3, <3>2, PaymentRowStep
      <4> QED  BY <4>1, <2>2 DEF Positive
    <3> QED  BY <3>1, <3>2
  <2>3. \A o \in Orders :
           /\ order[o].status = "paid" => order'[o].status = "paid"
           /\ order[o].status # "absent" => order'[o].amount = order[o].amount
           /\ order'[o].status # "absent" => order'[o].amount > 0
    BY <1>3, OrderRowStep
  <2> QED  BY <2>1, <2>2, <2>3 DEF Positive, LedgerKeeps
<1> QED  BY <1>1, <1>2, <1>3 DEF Next

\* Whatever checkout does, the ledger takes a step of its own or none.
LEMMA LedgerUnderCheckout == [CheckoutNext]_checkoutVars => [Next]_vars
  BY DEF CheckoutNext, checkoutVars, ProviderEvent, VerifyLooks, Verify, VerifyCollides,
         FulfilLooks, Fulfil, FulfilNothing

------------------------------------------------------------------------------
(* The invariant.                                                          *)

\* In these tables the payment is captured, of the order and in full, the order
\* is paid, and the provider has signed for the pair.
Judged(p, o, pay, ord) ==
    /\ <<o, p>> \in Signed
    /\ pay[p].status \in CapturedStatuses
    /\ pay[p].order = o
    /\ ord[o].status = "paid"
    /\ ord[o].amount = pay[p].amount

\* What a callback has read and will be judged by is still so in these tables.
ReadsTrue(call, pay, ord) ==
    call.phase = "verify" =>
        /\ call.order \in Orders /\ call.payment \in Payments
        /\ call.signed => <<call.order, call.payment>> \in Signed
        /\ call.paymentRow.status = "success" =>
              /\ pay[call.payment].status \in CapturedStatuses
              /\ pay[call.payment].amount = call.paymentRow.amount
        /\ call.paymentRow.order # None => pay[call.payment].order = call.paymentRow.order
        /\ call.orderRow.status = "paid" =>
              /\ ord[call.order].status = "paid"
              /\ ord[call.order].amount = call.orderRow.amount
              /\ call.orderRow.amount > 0

Verified(o) == [status |-> "verified", order |-> o]

Typed ==
    /\ proof \in [Payments -> Proof]
    /\ latest \in [Orders -> Payments \cup {None}]
    /\ fulfilment \in [Orders -> Fulfilment]
    /\ confirmed \subseteq Orders \X Payments
    /\ handler \in [Handlers -> Call]

ReadsHold == \A h \in Handlers : ReadsTrue(handler[h], payment, order)

\* A valid proof is of a payment that is good for its own order, which need not
\* be the order of the proof.
ProofsHold ==
    \A p \in Payments :
        /\ proof[p].status # "none" => proof[p].order \in Orders
        /\ proof[p].status = "verified" => \E o \in Orders : Judged(p, o, payment, order)

LatestHolds == \A o \in Orders : latest[o] # None => proof[latest[o]] = Verified(o)

FulfilmentsHold ==
    \A o \in Orders : fulfilment[o] # NotFulfilled =>
        /\ fulfilment[o].payment \in Payments
        /\ Judged(fulfilment[o].payment, o, payment, order)
        /\ proof[fulfilment[o].payment] = Verified(o)

Sound == ReadsHold /\ ProofsHold /\ LatestHolds /\ FulfilmentsHold

CheckoutInv == IInv /\ Positive /\ Typed /\ Sound

\* The invariant implies what is promised.
LEMMA CheckoutInvImplies == CheckoutInv => CheckoutTypeOK /\ FulfilledWasProved
<1> SUFFICES ASSUME CheckoutInv PROVE CheckoutTypeOK /\ FulfilledWasProved
  OBVIOUS
<1>1. TypeOK
  BY IInvImplies DEF CheckoutInv
<1>2. CheckoutTypeOK
  BY <1>1 DEF CheckoutInv, Typed, CheckoutTypeOK
<1>3. FulfilledWasProved
  BY DEF CheckoutInv, Sound, FulfilmentsHold, FulfilledWasProved, Judged, Verified, Captured
<1> QED  BY <1>2, <1>3

\* A handler without a request has the type of a request.
LEMMA IdleIsCall == Idle \in Call /\ Idle.phase = "idle"
<1>1. NoOrder \in OrderRow /\ NoPayment \in PaymentRow /\ NoProof \in Proof
  BY DEF NoOrder, NoPayment, NoProof, OrderRow, PaymentRow, PaymentStatuses, Proof
<1> QED  BY <1>1 DEF Idle, Call

\* The empty tables satisfy the invariant.
LEMMA CheckoutInitInv == CheckoutInit => CheckoutInv
<1> SUFFICES ASSUME CheckoutInit PROVE CheckoutInv
  OBVIOUS
<1>1. IInv
  BY InitIInv DEF CheckoutInit
<1>2. Positive
  BY DEF CheckoutInit, Init, Positive, NoPayment, NoOrder
<1>3. Typed
  BY IdleIsCall DEF CheckoutInit, Typed, NoProof, Proof, NotFulfilled, Fulfilment
<1>4. Sound
  BY IdleIsCall DEF CheckoutInit, Sound, ReadsHold, ReadsTrue, ProofsHold, LatestHolds,
                    FulfilmentsHold, NoProof
<1> QED  BY <1>1, <1>2, <1>3, <1>4 DEF CheckoutInv

------------------------------------------------------------------------------
(* What was true when it was read stays true.                              *)

\* A payment that is good for an order stays so.
LEMMA JudgedStays ==
    ASSUME LedgerKeeps, NEW p \in Payments, NEW o \in Orders, Judged(p, o, payment, order)
    PROVE  Judged(p, o, payment', order')
<1>1. payment[p].status # "absent" /\ order[o].status # "absent" /\ payment[p].order # None
  BY EventsAssumption DEF Judged, CapturedStatuses
<1> QED  BY <1>1 DEF Judged, LedgerKeeps

\* What a request has read stays true of the tables.
LEMMA ReadsStayTrue ==
    ASSUME LedgerKeeps, NEW call, ReadsTrue(call, payment, order)
    PROVE  ReadsTrue(call, payment', order')
<1>1. \A p \in Payments : payment[p].status \in CapturedStatuses => payment[p].status # "absent"
  BY DEF CapturedStatuses
<1> QED  BY <1>1 DEF ReadsTrue, LedgerKeeps

\* A callback that is accepted is of a payment that is good for its order.
LEMMA ConfirmedIsJudged ==
    ASSUME NEW call, call.phase = "verify", ReadsTrue(call, payment, order), Confirms(call)
    PROVE  /\ call.order \in Orders /\ call.payment \in Payments
           /\ Judged(call.payment, call.order, payment, order)
<1>1. call.order # None
  BY EventsAssumption DEF ReadsTrue
<1>2. call.orderRow.amount = call.paymentRow.amount
  BY DEF Confirms, ReadsTrue
<1> QED  BY <1>1, <1>2 DEF Confirms, ReadsTrue, Judged

------------------------------------------------------------------------------
(* The steps.  In each, the ledger keeps what it has; what is left to see  *)
(* is what becomes of the evidence and of the request.                     *)

\* A step that leaves the evidence and the requests alone.
LEMMA SoundStays ==
    ASSUME CheckoutInv, LedgerKeeps, UNCHANGED <<evidence, handler>>
    PROVE  Typed' /\ Sound'
<1> USE DEF CheckoutInv, Sound, evidence
<1>1. Typed'
  BY DEF Typed
<1>2. ReadsHold'
  BY ReadsStayTrue DEF ReadsHold
<1>3. ProofsHold'
  BY JudgedStays DEF ProofsHold
<1>4. LatestHolds'
  BY DEF LatestHolds
<1>5. FulfilmentsHold'
  BY JudgedStays DEF FulfilmentsHold
<1> QED  BY <1>1, <1>2, <1>3, <1>4, <1>5

\* A request that ends.
LEMMA Finishes ==
    ASSUME Typed, LedgerKeeps, ReadsHold, NEW h \in Handlers, Finish(h)
    PROVE  handler' \in [Handlers -> Call] /\ ReadsHold'
<1>1. handler' \in [Handlers -> Call]
  BY IdleIsCall DEF Finish, Typed
<1>2. ASSUME NEW g \in Handlers PROVE ReadsTrue(handler'[g], payment', order')
  <2>1. CASE g = h
    BY <2>1, IdleIsCall DEF Finish, Typed, ReadsTrue
  <2>2. CASE g # h
    <3>1. handler'[g] = handler[g]
      BY <2>2 DEF Finish, Typed
    <3> QED  BY <3>1, ReadsStayTrue DEF ReadsHold
  <2> QED  BY <2>1, <2>2
<1> QED  BY <1>1, <1>2 DEF ReadsHold

\* A request that begins: the tables are what it reads.
LEMMA LooksStep ==
    ASSUME CheckoutInv, UNCHANGED <<vars, evidence>>, LedgerKeeps, NEW h \in Handlers,
           NEW call \in Call, ReadsTrue(call, payment, order),
           handler' = [handler EXCEPT ![h] = call]
    PROVE  Typed' /\ Sound'
<1> USE DEF CheckoutInv, Sound, evidence, vars
<1>1. Typed'
  BY DEF Typed
<1>2. ReadsHold'
  <2>1. ASSUME NEW g \in Handlers PROVE ReadsTrue(handler'[g], payment', order')
    <3>1. handler'[g] = IF g = h THEN call ELSE handler[g]
      BY DEF Typed
    <3> QED  BY <3>1 DEF ReadsHold, ReadsTrue
  <2> QED  BY <2>1 DEF ReadsHold
<1>3. ProofsHold'
  BY JudgedStays DEF ProofsHold
<1>4. LatestHolds'
  BY DEF LatestHolds
<1>5. FulfilmentsHold'
  BY JudgedStays DEF FulfilmentsHold
<1> QED  BY <1>1, <1>2, <1>3, <1>4, <1>5

\* A callback reads the payment and the order.
LEMMA VerifyLooksStep ==
    ASSUME CheckoutInv, LedgerKeeps, NEW h \in Handlers, NEW o \in Orders, NEW p \in Payments,
           NEW signed \in BOOLEAN, VerifyLooks(h, o, p, signed)
    PROVE  Typed' /\ Sound'
<1> DEFINE call == [Idle EXCEPT !.phase = "verify", !.order = o, !.payment = p,
                                !.signed = signed, !.orderRow = order[o],
                                !.paymentRow = payment[p], !.proofRow = proof[p]]
<1>1. /\ call.phase = "verify" /\ call.order = o /\ call.payment = p /\ call.signed = signed
      /\ call.orderRow = order[o] /\ call.paymentRow = payment[p]
  BY DEF Idle
<1>2. order[o] \in OrderRow /\ payment[p] \in PaymentRow /\ proof[p] \in Proof
  BY IInvImplies DEF CheckoutInv, Typed, TypeOK
<1>3. handler' = [handler EXCEPT ![h] = call] /\ UNCHANGED <<vars, evidence>>
      /\ (signed => <<o, p>> \in Signed)
  BY DEF VerifyLooks
<1>4. call \in Call
  BY <1>2, IdleIsCall DEF Call
<1> HIDE DEF call
<1>5. order[o].status = "paid" => order[o].amount > 0
  BY DEF CheckoutInv, Positive
<1>6. ReadsTrue(call, payment, order)
  BY <1>1, <1>3, <1>5 DEF ReadsTrue, CapturedStatuses
<1> QED  BY <1>3, <1>4, <1>6, LooksStep

\* A fulfilment reads the payment.
LEMMA FulfilLooksStep ==
    ASSUME CheckoutInv, LedgerKeeps, NEW h \in Handlers, NEW p \in Payments,
           NEW key \in IdempotencyKeys, FulfilLooks(h, p, key)
    PROVE  Typed' /\ Sound'
<1> DEFINE call == [Idle EXCEPT !.phase = "fulfil", !.payment = p, !.key = key,
                                !.paymentRow = payment[p]]
<1>1. call.phase = "fulfil"
  BY DEF Idle
<1>2. payment[p] \in PaymentRow
  BY IInvImplies DEF CheckoutInv, TypeOK
<1>3. handler' = [handler EXCEPT ![h] = call] /\ UNCHANGED <<vars, evidence>>
  BY DEF FulfilLooks
<1>4. call \in Call
  BY <1>2, IdleIsCall DEF Call
<1> HIDE DEF call
<1>5. ReadsTrue(call, payment, order)
  BY <1>1 DEF ReadsTrue
<1> QED  BY <1>3, <1>4, <1>5, LooksStep

\* The second of two first callbacks of a payment fails.
LEMMA VerifyCollidesStep ==
    ASSUME CheckoutInv, LedgerKeeps, NEW h \in Handlers, VerifyCollides(h)
    PROVE  Typed' /\ Sound'
<1> USE DEF CheckoutInv, Sound, VerifyCollides, evidence
<1>1. handler' \in [Handlers -> Call] /\ ReadsHold'
  BY Finishes
<1>2. Typed'
  BY <1>1 DEF Typed
<1>3. ProofsHold' /\ LatestHolds'
  BY JudgedStays DEF ProofsHold, LatestHolds
<1>4. FulfilmentsHold'
  BY JudgedStays DEF FulfilmentsHold
<1> QED  BY <1>1, <1>2, <1>3, <1>4

\* A fulfilment that is refused or repeated writes nothing.
LEMMA FulfilNothingStep ==
    ASSUME CheckoutInv, LedgerKeeps, NEW h \in Handlers, FulfilNothing(h)
    PROVE  Typed' /\ Sound'
<1> USE DEF CheckoutInv, Sound, FulfilNothing, evidence
<1>1. handler' \in [Handlers -> Call] /\ ReadsHold'
  BY Finishes
<1>2. Typed'
  BY <1>1 DEF Typed
<1>3. ProofsHold' /\ LatestHolds'
  BY JudgedStays DEF ProofsHold, LatestHolds
<1>4. FulfilmentsHold'
  BY JudgedStays DEF FulfilmentsHold
<1> QED  BY <1>1, <1>2, <1>3, <1>4

\* What a callback records: a valid proof stays as it is.
LEMMA RecordedFacts ==
    ASSUME NEW old \in Proof, old.status # "none" => old.order \in Orders,
           NEW o \in Orders, NEW valid \in BOOLEAN
    PROVE  /\ Recorded(old, o, valid) \in Proof
           /\ Recorded(old, o, valid).status # "none"
           /\ Recorded(old, o, valid).order \in Orders
           /\ old.status = "verified" => Recorded(old, o, valid) = old
           /\ Recorded(old, o, valid).status = "verified" => old.status = "verified" \/ valid
           /\ valid => Recorded(old, o, valid) = Verified(Recorded(old, o, valid).order)
<1>1. CASE old.status = "none"
  BY <1>1 DEF Recorded, Proof, Verified
<1>2. CASE old.status = "rejected" /\ valid
  BY <1>2 DEF Recorded, Proof, Verified
<1>3. CASE old.status = "rejected" /\ ~valid
  BY <1>3 DEF Recorded, Proof, Verified
<1>4. CASE old.status = "verified"
  BY <1>4 DEF Recorded, Proof, Verified
<1> QED  BY <1>1, <1>2, <1>3, <1>4 DEF Proof

\* A callback writes its proof.
LEMMA VerifyStep ==
    ASSUME CheckoutInv, LedgerKeeps, NEW h \in Handlers, Verify(h)
    PROVE  Typed' /\ Sound'
<1> DEFINE call  == handler[h]
           p     == call.payment
           valid == Confirms(call)
           new   == Recorded(proof[p], call.order, valid)
<1>1. /\ call.phase = "verify" /\ ReadsTrue(call, payment, order)
      /\ call.order \in Orders /\ p \in Payments /\ proof[p] \in Proof
      /\ proof[p].status # "none" => proof[p].order \in Orders
  BY DEF Verify, CheckoutInv, Typed, Sound, ReadsHold, ReadsTrue, ProofsHold
<1>2. valid \in BOOLEAN
  BY DEF Confirms
<1>3. /\ proof' = [proof EXCEPT ![p] = new]
      /\ Finish(h) /\ UNCHANGED <<vars, fulfilment>>
  BY DEF Verify
<1>4. /\ new \in Proof /\ new.status # "none" /\ new.order \in Orders
      /\ proof[p].status = "verified" => new = proof[p]
      /\ new.status = "verified" => proof[p].status = "verified" \/ valid
      /\ valid => new = Verified(new.order)
  <2> HIDE DEF valid, call
  <2> QED  BY <1>1, <1>2, RecordedFacts
<1>5. /\ proof' \in [Payments -> Proof] /\ proof'[p] = new
      /\ \A q \in Payments : q # p => proof'[q] = proof[q]
  BY <1>1, <1>3, <1>4 DEF CheckoutInv, Typed
<1>6. \/ latest' = latest
      \/ valid /\ latest' = [latest EXCEPT ![new.order] = p]
  BY <1>5 DEF Verify
<1>7. confirmed' \subseteq Orders \X Payments
  BY <1>1 DEF Verify, CheckoutInv, Typed
<1>8. valid => Judged(p, call.order, payment, order)
  BY <1>1, ConfirmedIsJudged
<1>9. handler' \in [Handlers -> Call] /\ ReadsHold'
  BY <1>3, Finishes DEF CheckoutInv, Sound
<1> HIDE DEF valid, new, p
<1>10. Typed'
  BY <1>1, <1>3, <1>4, <1>5, <1>6, <1>7, <1>9 DEF Typed, CheckoutInv
<1>11. ProofsHold'
  <2>1. ASSUME NEW q \in Payments
        PROVE  /\ proof'[q].status # "none" => proof'[q].order \in Orders
               /\ proof'[q].status = "verified" => \E o \in Orders : Judged(q, o, payment, order)
    <3>1. CASE q # p
      BY <3>1, <1>5 DEF CheckoutInv, Sound, ProofsHold
    <3>2. CASE q = p /\ valid
      BY <3>2, <1>1, <1>4, <1>5, <1>8
    <3>3. CASE q = p /\ ~valid
      BY <3>3, <1>1, <1>4, <1>5 DEF CheckoutInv, Sound, ProofsHold
    <3> QED  BY <3>1, <3>2, <3>3
  <2> QED  BY <2>1, JudgedStays DEF ProofsHold
<1>12. LatestHolds'
  <2>1. ASSUME NEW o \in Orders, latest'[o] # None PROVE proof'[latest'[o]] = Verified(o)
    <3>1. CASE valid /\ o = new.order /\ latest'[o] = p
      BY <3>1, <1>4, <1>5
    <3>2. CASE latest'[o] = latest[o]
      <4>1. latest[o] \in Payments /\ proof[latest[o]] = Verified(o)
        BY <2>1, <3>2 DEF CheckoutInv, Typed, Sound, LatestHolds
      <4> QED  BY <4>1, <3>2, <1>4, <1>5 DEF Verified
    <3>3. latest'[o] = latest[o] \/ (valid /\ o = new.order /\ latest'[o] = p)
      BY <1>1, <1>4, <1>6 DEF CheckoutInv, Typed
    <3> QED  BY <3>1, <3>2, <3>3
  <2> QED  BY <2>1 DEF LatestHolds
<1>13. FulfilmentsHold'
  <2>1. ASSUME NEW o \in Orders, fulfilment'[o] # NotFulfilled
        PROVE  /\ fulfilment'[o].payment \in Payments
               /\ Judged(fulfilment'[o].payment, o, payment', order')
               /\ proof'[fulfilment'[o].payment] = Verified(o)
    <3>1. fulfilment'[o] = fulfilment[o]
      BY <1>3
    <3>2. /\ fulfilment[o].payment \in Payments
          /\ Judged(fulfilment[o].payment, o, payment, order)
          /\ proof[fulfilment[o].payment] = Verified(o)
      BY <2>1, <3>1 DEF CheckoutInv, Sound, FulfilmentsHold
    <3>3. proof'[fulfilment[o].payment] = Verified(o)
      BY <3>2, <1>4, <1>5 DEF Verified
    <3> QED  BY <3>1, <3>2, <3>3, JudgedStays
  <2> QED  BY <2>1 DEF FulfilmentsHold
<1> QED  BY <1>9, <1>10, <1>11, <1>12, <1>13 DEF Sound

\* A fulfilment is recorded for an order whose proof it has found.
LEMMA FulfilStep ==
    ASSUME CheckoutInv, LedgerKeeps, NEW h \in Handlers, NEW p \in Payments, Fulfil(h, p)
    PROVE  Typed' /\ Sound'
<1> DEFINE o == OrderRead(h)
           new == [payment |-> p, key |-> handler[h].key]
<1>1. /\ o # None /\ latest[o] = p /\ p # None /\ payment[p].order = o
      /\ fulfilment' = [fulfilment EXCEPT ![o] = new]
      /\ Finish(h) /\ UNCHANGED <<vars, proof, latest, confirmed>>
  BY DEF Fulfil, MayFulfil, ProofsOf
<1>2. o \in Orders /\ new \in Fulfilment
  <2>1. handler[h] \in Call
    BY DEF CheckoutInv, Typed
  <2>2. handler[h].paymentRow \in PaymentRow /\ handler[h].key \in IdempotencyKeys \cup {None}
    BY <2>1 DEF Call
  <2> QED  BY <2>2, <1>1 DEF OrderRead, PaymentRow, Fulfilment
<1>3. proof[p] = Verified(o)
  BY <1>1, <1>2 DEF CheckoutInv, Sound, LatestHolds
<1>4. Judged(p, o, payment, order)
  <2>1. PICK q \in Orders : Judged(p, q, payment, order)
    BY <1>3 DEF CheckoutInv, Sound, ProofsHold, Verified
  <2>2. q = o
    BY <2>1, <1>1 DEF Judged
  <2> QED  BY <2>1, <2>2
<1>5. handler' \in [Handlers -> Call] /\ ReadsHold'
  BY <1>1, Finishes DEF CheckoutInv, Sound
<1> HIDE DEF o, new
<1>6. Typed'
  <2>1. fulfilment' \in [Orders -> Fulfilment]
    BY <1>1, <1>2 DEF CheckoutInv, Typed
  <2> QED  BY <2>1, <1>1, <1>5 DEF CheckoutInv, Typed
<1>7. ProofsHold' /\ LatestHolds'
  BY <1>1, JudgedStays DEF CheckoutInv, Sound, ProofsHold, LatestHolds
<1>8. FulfilmentsHold'
  <2>1. ASSUME NEW q \in Orders, fulfilment'[q] # NotFulfilled
        PROVE  /\ fulfilment'[q].payment \in Payments
               /\ Judged(fulfilment'[q].payment, q, payment, order)
               /\ proof[fulfilment'[q].payment] = Verified(q)
    <3>1. CASE q = o
      <4>1. fulfilment'[q] = new
        BY <3>1, <1>1, <1>2 DEF CheckoutInv, Typed
      <4>2. new.payment = p
        BY DEF new
      <4> QED  BY <3>1, <4>1, <4>2, <1>3, <1>4
    <3>2. CASE q # o
      <4>1. fulfilment'[q] = fulfilment[q]
        BY <3>2, <1>1 DEF CheckoutInv, Typed
      <4> QED  BY <4>1, <2>1 DEF CheckoutInv, Sound, FulfilmentsHold
    <3> QED  BY <3>1, <3>2
  <2> QED  BY <2>1, <1>1, JudgedStays DEF FulfilmentsHold
<1> QED  BY <1>5, <1>6, <1>7, <1>8 DEF Sound

------------------------------------------------------------------------------
(* The theorems.                                                           *)

\* Every step keeps the invariant.
LEMMA CheckoutStep ==
    ASSUME CheckoutInv, [CheckoutNext]_checkoutVars
    PROVE  CheckoutInv'
<1>1. IInv' /\ Positive' /\ LedgerKeeps
  BY LedgerUnderCheckout, LedgerStep DEF CheckoutInv
<1>2. CASE UNCHANGED checkoutVars
  BY <1>1, <1>2, SoundStays DEF CheckoutInv, checkoutVars
<1>3. CASE ProviderEvent
  BY <1>1, <1>3, SoundStays DEF CheckoutInv, ProviderEvent
<1>4. ASSUME NEW h \in Handlers, NEW o \in Orders, NEW p \in Payments, NEW signed \in BOOLEAN,
             VerifyLooks(h, o, p, signed)
      PROVE  CheckoutInv'
  BY <1>1, <1>4, VerifyLooksStep DEF CheckoutInv
<1>5. ASSUME NEW h \in Handlers, Verify(h) PROVE CheckoutInv'
  BY <1>1, <1>5, VerifyStep DEF CheckoutInv
<1>6. ASSUME NEW h \in Handlers, VerifyCollides(h) PROVE CheckoutInv'
  BY <1>1, <1>6, VerifyCollidesStep DEF CheckoutInv
<1>7. ASSUME NEW h \in Handlers, NEW p \in Payments, NEW key \in IdempotencyKeys,
             FulfilLooks(h, p, key)
      PROVE  CheckoutInv'
  BY <1>1, <1>7, FulfilLooksStep DEF CheckoutInv
<1>8. ASSUME NEW h \in Handlers, NEW p \in Payments, Fulfil(h, p) PROVE CheckoutInv'
  BY <1>1, <1>8, FulfilStep DEF CheckoutInv
<1>9. ASSUME NEW h \in Handlers, FulfilNothing(h) PROVE CheckoutInv'
  BY <1>1, <1>9, FulfilNothingStep DEF CheckoutInv
<1> QED  BY <1>2, <1>3, <1>4, <1>5, <1>6, <1>7, <1>8, <1>9 DEF CheckoutNext

(***************************************************************************)
(* The invariant holds of every behaviour of checkout over the ledger.     *)
(***************************************************************************)
THEOREM CheckoutInductive == CheckoutSpec => []CheckoutInv
<1> QED  BY CheckoutInitInv, CheckoutStep, PTL DEF CheckoutSpec

(***************************************************************************)
(* Whatever is proved about the ledger holds of it under checkout.         *)
(***************************************************************************)
THEOREM CheckoutKeepsLedger == CheckoutSpec => Spec
<1>1. CheckoutInit => Init
  BY DEF CheckoutInit
<1> QED  BY <1>1, LedgerUnderCheckout, PTL DEF CheckoutSpec, Spec

(***************************************************************************)
(* What is fulfilled was proved: the order is paid, by the captured        *)
(* payment the fulfilment names, in full, and the provider signed for it,  *)
(* however out of date what the requests go by is.                         *)
(***************************************************************************)
THEOREM NothingUnproved == CheckoutSpec => []FulfilledWasProved
<1>1. CheckoutInv => FulfilledWasProved
  BY CheckoutInvImplies
<1> QED  BY <1>1, CheckoutInductive, PTL

(***************************************************************************)
(* Tables and requests always hold values of their types.                  *)
(***************************************************************************)
THEOREM CheckoutTypeCorrect == CheckoutSpec => []CheckoutTypeOK
<1>1. CheckoutInv => CheckoutTypeOK
  BY CheckoutInvImplies
<1> QED  BY <1>1, CheckoutInductive, PTL

(***************************************************************************)
(* A valid proof and a fulfilment are for good.                            *)
(***************************************************************************)
THEOREM EvidenceStays == CheckoutSpec => EvidenceIsFinal
<1> DEFINE Kept ==
      /\ \A p \in Payments : proof[p].status = "verified" => proof'[p] = proof[p]
      /\ \A o \in Orders : fulfilment[o] # NotFulfilled => fulfilment'[o] = fulfilment[o]
<1>1. ASSUME CheckoutInv, NEW h \in Handlers, Verify(h)
      PROVE  Kept
  <2> DEFINE p == handler[h].payment
  <2>1. \E valid \in BOOLEAN :
           proof' = [proof EXCEPT ![p] = Recorded(proof[p], handler[h].order, valid)]
    BY <1>1 DEF Verify, Confirms
  <2>2. \A old, o, valid : old.status = "verified" => Recorded(old, o, valid) = old
    BY DEF Recorded
  <2>3. proof \in [Payments -> Proof] /\ fulfilment' = fulfilment
    BY <1>1 DEF CheckoutInv, Typed, Verify
  <2> QED  BY <2>1, <2>2, <2>3
<1>2. ASSUME CheckoutInv, NEW h \in Handlers, NEW p \in Payments, Fulfil(h, p)
      PROVE  Kept
  BY <1>2 DEF Fulfil, Fulfilled, CheckoutInv, Typed
<1>3. CheckoutInv /\ [CheckoutNext]_checkoutVars => [Kept]_checkoutVars
  BY <1>1, <1>2 DEF CheckoutNext, checkoutVars, evidence, ProviderEvent, VerifyLooks,
                    VerifyCollides, FulfilLooks, FulfilNothing
<1> QED  BY <1>3, CheckoutInductive, PTL DEF CheckoutSpec, EvidenceIsFinal

==============================================================================
