-------------------------- MODULE WebhookInboxProofs --------------------------
(***************************************************************************)
(* Proofs about WebhookInbox, for every set of deliveries, handlers and    *)
(* workers, however many requests are sent and processes crash.            *)
(*                                                                         *)
(* What a handler has read of a row may be out of date when it acts on it. *)
(* The argument is that what it concludes from it stays true: a row that   *)
(* was there is still there, and what was processed then has been applied. *)
(***************************************************************************)
EXTENDS WebhookInbox, SequenceTheorems, TLAPS

(***************************************************************************)
(* What the handlers have read is still true of the inbox, and a worker    *)
(* that applies or has failed has something it applies or failed on.       *)
(***************************************************************************)
ReadStaysTrue ==
    \A h \in Handlers :
        /\ handler[h].phase # "idle" => handler[h].item \in Deliveries
        /\ handler[h].phase = "looked" /\ handler[h].seen # "absent"
              => inbox[handler[h].item] # "absent"
        /\ handler[h].phase = "looked" /\ handler[h].seen = "processed"
              => applied[handler[h].item] > 0

WorkInHand ==
    \A w \in Workers :
        worker[w].phase \in {"applying", "failed"} => worker[w].item \in Deliveries

\* Whatever was received or applied has a row.
RowsKept ==
    /\ \A d \in Range(received) : inbox[d] # "absent"
    /\ \A d \in Deliveries : applied[d] > 0 => inbox[d] # "absent"

IInv ==
    /\ TypeOK
    /\ AppliedOnce
    /\ MarkedMeansApplied
    /\ AckedIsStored
    /\ WaitsOnce
    /\ ReadStaysTrue
    /\ WorkInHand
    /\ RowsKept

HandlerState ==
    [phase : {"idle", "looked", "applying"}, item : Deliveries \cup {None},
     seen : InboxStatuses, known : BOOLEAN]

WorkerState ==
    [phase : {"idle", "next", "applying", "failed"}, batch : SUBSET Deliveries,
     item : Deliveries \cup {None}, known : BOOLEAN]

(***************************************************************************)
(* Inserting a delivery that has not been received keeps the waiting line  *)
(* free of repetitions.                                                    *)
(***************************************************************************)
LEMMA AppendNew ==
    ASSUME NEW s \in Seq(Deliveries), IsInjective(s),
           NEW d \in Deliveries, d \notin Range(s)
    PROVE  /\ Append(s, d) \in Seq(Deliveries)
           /\ IsInjective(Append(s, d))
           /\ Range(Append(s, d)) = Range(s) \cup {d}
<1> DEFINE t == Append(s, d)
<1>1. /\ t \in Seq(Deliveries) /\ DOMAIN t = 1 .. Len(s)+1 /\ DOMAIN s = 1 .. Len(s)
      /\ Len(s) \in Nat /\ t[Len(s)+1] = d /\ \A i \in 1 .. Len(s) : t[i] = s[i]
  OBVIOUS
<1> HIDE DEF t
<1>2. Range(t) = Range(s) \cup {d}
  <2>1. ASSUME NEW x \in Range(t) PROVE x \in Range(s) \cup {d}
    BY <1>1 DEF Range
  <2>2. Range(s) \subseteq Range(t)
    BY <1>1 DEF Range
  <2>3. d \in Range(t)
    BY <1>1 DEF Range
  <2> QED  BY <2>1, <2>2, <2>3
<1>3. ASSUME NEW a \in DOMAIN t, NEW b \in DOMAIN t, t[a] = t[b] PROVE a = b
  <2>1. CASE a \in DOMAIN s /\ b \in DOMAIN s
    BY <2>1, <1>1, <1>3 DEF IsInjective
  <2>2. CASE a = Len(s)+1 /\ b \in DOMAIN s
    BY <2>2, <1>1, <1>3 DEF Range
  <2>3. CASE a \in DOMAIN s /\ b = Len(s)+1
    BY <2>3, <1>1, <1>3 DEF Range
  <2> QED  BY <2>1, <2>2, <2>3, <1>1
<1> QED  BY <1>1, <1>2, <1>3 DEF IsInjective, t

(***************************************************************************)
(* The worker's turn to the next delivery leaves it in a proper state.     *)
(***************************************************************************)
LEMMA DoneWithKeeps ==
    ASSUME TypeOK, WorkInHand, NEW w \in Workers, NEW d \in Deliveries, DoneWith(w, d)
    PROVE  /\ worker' \in [Workers -> WorkerState]
           /\ WorkInHand'
<1> DEFINE left == IF worker[w].batch = {d} THEN IdleWorker
                   ELSE [IdleWorker EXCEPT !.phase = "next", !.batch = worker[w].batch \ {d}]
<1>1. worker' = [worker EXCEPT ![w] = left]
  BY DEF DoneWith
<1>2. left \in WorkerState /\ left.phase \in {"idle", "next"}
  <2>1. worker[w].batch \subseteq Deliveries
    BY DEF TypeOK
  <2> QED  BY <2>1 DEF IdleWorker, WorkerState
<1> HIDE DEF left
<1>3. worker' \in [Workers -> WorkerState]
  BY <1>1, <1>2 DEF TypeOK, WorkerState
<1>4. WorkInHand'
  BY <1>1, <1>2 DEF TypeOK, WorkInHand
<1> QED  BY <1>3, <1>4

(***************************************************************************)
(* Rows and effects only grow: what is stored stays stored, what is        *)
(* applied stays applied, and what has no row was not applied.             *)
(***************************************************************************)
Grows ==
    \A d \in Deliveries : /\ inbox[d] # "absent" => inbox'[d] # "absent"
                          /\ applied[d] > 0 => applied'[d] > 0

\* A handler's next state agrees with the next inbox.
Agrees(x) ==
    /\ x.phase # "idle" => x.item \in Deliveries
    /\ x.phase = "looked" /\ x.seen # "absent" => inbox'[x.item] # "absent"
    /\ x.phase = "looked" /\ x.seen = "processed" => applied'[x.item] > 0

\* A handler's step keeps true what the handlers have concluded.
LEMMA HandlerKeeps ==
    ASSUME TypeOK, ReadStaysTrue, Grows, NEW h \in Handlers, NEW x \in HandlerState,
           Agrees(x), handler' = [handler EXCEPT ![h] = x]
    PROVE  /\ handler' \in [Handlers -> HandlerState]
           /\ ReadStaysTrue'
<1>1. handler' \in [Handlers -> HandlerState]
  BY DEF TypeOK, HandlerState
<1>2. ASSUME NEW g \in Handlers PROVE Agrees(handler'[g])
  <2>1. CASE g = h
    BY <2>1 DEF TypeOK, Agrees
  <2>2. CASE g # h
    <3>1. handler'[g] = handler[g]
      BY <2>2 DEF TypeOK
    <3> QED  BY <3>1 DEF Grows, Agrees, ReadStaysTrue
  <2> QED  BY <2>1, <2>2
<1> QED  BY <1>1, <1>2 DEF ReadStaysTrue, Agrees

\* What the handlers have concluded stays true when they do nothing.
LEMMA ReadKept ==
    ASSUME ReadStaysTrue, Grows, UNCHANGED handler
    PROVE  ReadStaysTrue'
BY DEF ReadStaysTrue, Grows

(***************************************************************************)
(* Applying a delivery that has no canonical event keeps the ledger and    *)
(* the inbox in agreement.                                                 *)
(***************************************************************************)
LEMMA ApplyKeeps ==
    ASSUME TypeOK, AppliedOnce, MarkedMeansApplied, WaitsOnce, RowsKept, InboxAssumption,
           NEW d \in Deliveries, d \notin canonical, Apply(d),
           inbox' = [inbox EXCEPT ![d] = "processed"], UNCHANGED received
    PROVE  /\ Grows
           /\ inbox' \in [Deliveries -> InboxStatuses] /\ inbox'[d] # "absent"
           /\ canonical' \subseteq Deliveries /\ applied' \in [Deliveries -> Nat]
           /\ payments' \subseteq Payments
           /\ AppliedOnce' /\ MarkedMeansApplied' /\ WaitsOnce' /\ RowsKept'
<1>1. /\ inbox'[d] = "processed" /\ \A e \in Deliveries \ {d} : inbox'[e] = inbox[e]
      /\ applied'[d] = applied[d] + 1 /\ \A e \in Deliveries \ {d} : applied'[e] = applied[e]
      /\ canonical' = canonical \cup {d} /\ applied[d] = 0
  BY DEF Apply, TypeOK, AppliedOnce
<1>2. /\ inbox' \in [Deliveries -> InboxStatuses]
      /\ canonical' \subseteq Deliveries /\ applied' \in [Deliveries -> Nat]
      /\ payments' \subseteq Payments
  BY DEF Apply, TypeOK, InboxStatuses, Done, InboxAssumption
<1>3. Range(received) \subseteq Deliveries
  BY DEF TypeOK, Range
<1>4. Grows
  BY <1>1 DEF Grows
<1>5. AppliedOnce' /\ MarkedMeansApplied'
  BY <1>1 DEF AppliedOnce, MarkedMeansApplied, Done
<1>6. WaitsOnce' /\ RowsKept'
  BY <1>1, <1>3 DEF WaitsOnce, RowsKept
<1> QED  BY <1>1, <1>2, <1>4, <1>5, <1>6

(***************************************************************************)
(* What a request does keeps the invariant.                                *)
(***************************************************************************)
LEMMA RequestKeeps ==
    ASSUME IInv, InboxAssumption, NEW h \in Handlers,
           \/ \E d \in Deliveries : Deliver(h, d)
           \/ HandlerStep(h) \/ CrashHandler(h)
    PROVE  IInv'
<1> USE DEF IInv
<1>1. IdleHandler \in HandlerState /\ Agrees(IdleHandler)
  BY DEF IdleHandler, HandlerState, InboxStatuses, Agrees
<1>2. handler[h] \in HandlerState /\ (handler[h].phase # "idle" => handler[h].item \in Deliveries)
  BY DEF TypeOK, HandlerState, ReadStaysTrue
<1>3. ASSUME NEW d \in Deliveries, Deliver(h, d) PROVE IInv'
  <2> DEFINE x == [IdleHandler EXCEPT !.phase = "looked", !.item = d, !.seen = inbox[d]]
  <2>1. x \in HandlerState
    BY DEF IdleHandler, HandlerState, TypeOK
  <2>2. Grows /\ handler' = [handler EXCEPT ![h] = x]
    BY <1>3 DEF Deliver, KeepLedger, Grows
  <2>3. Agrees(x)
    BY <1>3 DEF Deliver, KeepLedger, IdleHandler, Agrees, MarkedMeansApplied, Done
  <2>4. handler' \in [Handlers -> HandlerState] /\ ReadStaysTrue'
    <3> HIDE DEF x
    <3> QED  BY <2>1, <2>2, <2>3, HandlerKeeps
  <2>5. sends' \in 0 .. MaxSends
    <3>1. sends \in 0 .. MaxSends /\ MaxSends \in Nat
      BY DEF TypeOK, InboxAssumption
    <3>2. sends < MaxSends /\ sends' = sends + 1
      BY <1>3 DEF Deliver
    <3> QED  BY <3>1, <3>2
  <2> QED
    BY <1>3, <2>4, <2>5 DEF Deliver, KeepLedger, TypeOK, HandlerState, AppliedOnce,
        MarkedMeansApplied, AckedIsStored, WaitsOnce, WorkInHand, RowsKept
<1>4. CASE FailDirect(h) \/ CrashHandler(h)
  <2>1. Grows /\ handler' = [handler EXCEPT ![h] = IdleHandler]
    BY <1>4 DEF FailDirect, CrashHandler, KeepLedger, Grows
  <2>2. handler' \in [Handlers -> HandlerState] /\ ReadStaysTrue'
    BY <1>1, <2>1, HandlerKeeps
  <2>3. crashes' \in 0 .. MaxCrashes
    BY <1>4 DEF FailDirect, CrashHandler, TypeOK, InboxAssumption
  <2> QED
    BY <1>4, <2>2, <2>3 DEF FailDirect, CrashHandler, KeepLedger, TypeOK, HandlerState,
        AppliedOnce, MarkedMeansApplied, AckedIsStored, WaitsOnce, WorkInHand, RowsKept
<1>5. CASE BeginDirect(h)
  <2> DEFINE found == PaymentOf[handler[h].item] \in payments
             x     == [handler[h] EXCEPT !.phase = "applying", !.known = found]
  <2>1. x \in HandlerState
    <3>1. found \in BOOLEAN
      OBVIOUS
    <3> HIDE DEF found
    <3> QED  BY <3>1, <1>2 DEF HandlerState
  <2>2. Grows /\ handler' = [handler EXCEPT ![h] = x]
    BY <1>5, <1>2 DEF BeginDirect, Insert, KeepLedger, Grows, HandlerState, TypeOK
  <2>3. Agrees(x)
    BY <1>2, <1>5 DEF BeginDirect, Insert, Agrees, HandlerState
  <2>4. handler' \in [Handlers -> HandlerState] /\ ReadStaysTrue'
    <3> HIDE DEF x
    <3> QED  BY <2>1, <2>2, <2>3, HandlerKeeps
  <2> QED
    BY <1>5, <2>4 DEF BeginDirect, Insert, KeepLedger, TypeOK, HandlerState, AppliedOnce,
        MarkedMeansApplied, AckedIsStored, WaitsOnce, WorkInHand, RowsKept
<1>6. ASSUME AnswerKnown(h) \/ LosesRace(h) \/ Accept(h) \/ CommitDirect(h)
      PROVE  /\ handler[h].item \in Deliveries
             /\ handler' = [handler EXCEPT ![h] = IdleHandler]
             /\ acked' \in {acked, acked \cup {handler[h].item}}
             /\ UNCHANGED <<sends, worker, crashes>>
  BY <1>2, <1>6 DEF AnswerKnown, LosesRace, Accept, CommitDirect, Insert, Answer
<1>7. ASSUME AnswerKnown(h) \/ LosesRace(h) \/ Accept(h) \/ CommitDirect(h), Grows
      PROVE  handler' \in [Handlers -> HandlerState] /\ ReadStaysTrue'
  BY <1>1, <1>6, <1>7, HandlerKeeps
<1>8. CASE AnswerKnown(h)
  <2> DEFINE d == handler[h].item
  <2>1. /\ d \in Deliveries /\ inbox[d] # "absent"
        /\ handler[h].seen = "processed" => applied[d] > 0
    BY <1>8, <1>6 DEF AnswerKnown, ReadStaysTrue
  <2>2. inbox' = [inbox EXCEPT ![d] = IF handler[h].seen = "processed" THEN "duplicate"
                                      ELSE inbox[d]]
    BY <1>8 DEF AnswerKnown, KnownStatus
  <2>3. UNCHANGED <<canonical, applied, payments, received>>
    BY <1>8 DEF AnswerKnown, KeepLedger
  <2> HIDE DEF d
  <2>4. inbox' \in [Deliveries -> InboxStatuses]
    BY <2>1, <2>2 DEF TypeOK, InboxStatuses, Done
  <2>5. \A e \in Deliveries : /\ inbox[e] # "absent" => inbox'[e] # "absent"
                              /\ inbox'[e] = "received" => inbox[e] = "received"
                              /\ inbox'[e] \in Done => inbox[e] \in Done \/ applied[e] > 0
    BY <2>1, <2>2 DEF TypeOK, Done
  <2>6. handler' \in [Handlers -> HandlerState] /\ ReadStaysTrue'
    BY <1>8, <1>7, <2>3, <2>5 DEF Grows
  <2>7. TypeOK'
    BY <1>8, <1>6, <2>3, <2>4, <2>6 DEF TypeOK, HandlerState
  <2>8. AckedIsStored'
    BY <1>8, <1>6, <2>1, <2>5 DEF AckedIsStored, TypeOK, d
  <2>9. RowsKept'
    BY <2>3, <2>5 DEF RowsKept, TypeOK, Range
  <2>10. AppliedOnce' /\ MarkedMeansApplied' /\ WaitsOnce' /\ WorkInHand'
    BY <1>8, <1>6, <2>3, <2>5 DEF AppliedOnce, MarkedMeansApplied, WaitsOnce, WorkInHand
  <2> QED  BY <2>6, <2>7, <2>8, <2>9, <2>10
<1>9. CASE LosesRace(h)
  <2>1. /\ UNCHANGED <<canonical, applied, payments, received, inbox>>
        /\ inbox[handler[h].item] # "absent"
    BY <1>9 DEF LosesRace, KeepLedger
  <2>2. handler' \in [Handlers -> HandlerState] /\ ReadStaysTrue'
    BY <1>9, <1>7, <2>1 DEF Grows
  <2> QED
    BY <1>9, <1>6, <2>1, <2>2 DEF TypeOK, HandlerState, AppliedOnce, MarkedMeansApplied,
        AckedIsStored, WaitsOnce, WorkInHand, RowsKept
<1>10. CASE Accept(h)
  <2> DEFINE d == handler[h].item
  <2>1. /\ d \in Deliveries /\ inbox[d] = "absent"
        /\ inbox' = [inbox EXCEPT ![d] = "received"]
        /\ received' = Append(received, d)
        /\ UNCHANGED <<canonical, applied, payments>>
    BY <1>10, <1>6 DEF Accept, KeepLedger
  <2> HIDE DEF d
  <2>2. d \notin Range(received) /\ applied[d] = 0
    BY <2>1 DEF RowsKept, TypeOK
  <2>3. /\ received' \in Seq(Deliveries) /\ IsInjective(received')
        /\ Range(received') = Range(received) \cup {d}
    BY <2>1, <2>2, AppendNew DEF TypeOK, WaitsOnce
  <2>4. inbox' \in [Deliveries -> InboxStatuses]
    BY <2>1 DEF TypeOK, InboxStatuses
  <2>5. inbox'[d] = "received" /\ \A e \in Deliveries \ {d} : inbox'[e] = inbox[e]
    BY <2>1 DEF TypeOK
  <2>6. handler' \in [Handlers -> HandlerState] /\ ReadStaysTrue'
    BY <1>10, <1>7, <2>1, <2>5 DEF Grows
  <2>7. TypeOK'
    BY <1>10, <1>6, <2>1, <2>3, <2>4, <2>6 DEF TypeOK, HandlerState
  <2>8. AckedIsStored'
    BY <1>10, <1>6, <2>5 DEF AckedIsStored, TypeOK, d
  <2>9. Range(received) \subseteq Deliveries
    BY DEF TypeOK, Range
  <2>10. RowsKept'
    BY <2>1, <2>3, <2>5, <2>9 DEF RowsKept
  <2>11. WaitsOnce'
    BY <2>1, <2>2, <2>3, <2>5 DEF WaitsOnce
  <2>12. AppliedOnce' /\ MarkedMeansApplied' /\ WorkInHand'
    BY <1>10, <1>6, <2>1, <2>5 DEF AppliedOnce, MarkedMeansApplied, WorkInHand, Done
  <2> QED  BY <2>6, <2>7, <2>8, <2>10, <2>11, <2>12
<1>11. CASE CommitDirect(h)
  <2> DEFINE d == handler[h].item
  <2>1. /\ d \in Deliveries /\ d \notin canonical /\ Apply(d)
        /\ inbox' = [inbox EXCEPT ![d] = "processed"] /\ UNCHANGED received
    BY <1>11, <1>6 DEF CommitDirect, Collides
  <2> HIDE DEF d
  <2>2. /\ Grows
        /\ inbox' \in [Deliveries -> InboxStatuses] /\ inbox'[d] # "absent"
        /\ canonical' \subseteq Deliveries /\ applied' \in [Deliveries -> Nat]
        /\ payments' \subseteq Payments
        /\ AppliedOnce' /\ MarkedMeansApplied' /\ WaitsOnce' /\ RowsKept'
    BY <2>1, ApplyKeeps
  <2>3. handler' \in [Handlers -> HandlerState] /\ ReadStaysTrue'
    BY <1>11, <1>7, <2>2
  <2>4. AckedIsStored'
    BY <1>11, <1>6, <2>2 DEF AckedIsStored, Grows, TypeOK, d
  <2>5. TypeOK' /\ WorkInHand'
    BY <1>11, <1>6, <2>1, <2>2, <2>3 DEF TypeOK, HandlerState, WorkInHand
  <2> QED  BY <2>2, <2>3, <2>4, <2>5
<1> QED
  BY <1>3, <1>4, <1>5, <1>8, <1>9, <1>10, <1>11 DEF HandlerStep

(***************************************************************************)
(* What a worker does keeps the invariant.                                 *)
(***************************************************************************)
LEMMA WorkKeeps ==
    ASSUME IInv, InboxAssumption, NEW w \in Workers, WorkerStep(w) \/ CrashWorker(w)
    PROVE  IInv'
<1> USE DEF IInv
<1> DEFINE d == worker[w].item
<1>1. worker[w] \in WorkerState
  BY DEF TypeOK, WorkerState
<1>2. ASSUME NEW x \in WorkerState, x.phase \in {"applying", "failed"} => x.item \in Deliveries,
             worker' = [worker EXCEPT ![w] = x]
      PROVE  worker' \in [Workers -> WorkerState] /\ WorkInHand'
  BY <1>2 DEF TypeOK, WorkerState, WorkInHand
<1>3. ASSUME worker' \in [Workers -> WorkerState], WorkInHand', crashes' \in 0 .. MaxCrashes,
             UNCHANGED <<inbox, received, canonical, applied, payments, acked, sends, handler>>
      PROVE  IInv'
  BY <1>3 DEF TypeOK, WorkerState, AppliedOnce, MarkedMeansApplied, AckedIsStored,
              WaitsOnce, ReadStaysTrue, RowsKept
<1> HIDE DEF d
<1>4. CASE TakeBatch(w)
  <2> DEFINE batch == Oldest(Pending, Limit)
             x == [IdleWorker EXCEPT !.phase = "next", !.batch = batch]
  <2>1. batch \subseteq Deliveries
    BY DEF Oldest, Pending
  <2>2. worker' = [worker EXCEPT ![w] = x]
    BY <1>4 DEF TakeBatch
  <2>3. x \in WorkerState /\ x.phase = "next"
    <3> HIDE DEF batch
    <3> QED  BY <2>1 DEF IdleWorker, WorkerState
  <2> HIDE DEF x
  <2>4. worker' \in [Workers -> WorkerState] /\ WorkInHand'
    BY <2>2, <2>3, <1>2
  <2> QED  BY <1>4, <2>4, <1>3 DEF TakeBatch, KeepLedger, TypeOK
<1>5. CASE SkipDone(w)
  <2>1. PICK e \in Deliveries : DoneWith(w, e)
    BY <1>5, <1>1 DEF SkipDone, Oldest, WorkerState
  <2>2. worker' \in [Workers -> WorkerState] /\ WorkInHand'
    BY <2>1, DoneWithKeeps
  <2> QED  BY <1>5, <2>2, <1>3 DEF SkipDone, KeepLedger, TypeOK
<1>6. CASE BeginItem(w)
  <2>1. PICK e \in Deliveries :
          worker' = [worker EXCEPT ![w].phase = "applying", ![w].item = e,
                                   ![w].known = PaymentOf[e] \in payments]
    BY <1>6, <1>1 DEF BeginItem, Oldest, WorkerState
  <2> DEFINE found == PaymentOf[e] \in payments
             x     == [worker[w] EXCEPT !.phase = "applying", !.item = e, !.known = found]
  <2>2. worker' = [worker EXCEPT ![w] = x]
    BY <2>1, <1>1 DEF WorkerState, TypeOK
  <2>3. found \in BOOLEAN
    OBVIOUS
  <2> HIDE DEF found
  <2>4. x \in WorkerState /\ x.item = e
    BY <1>1, <2>3 DEF WorkerState
  <2> HIDE DEF x
  <2>5. worker' \in [Workers -> WorkerState] /\ WorkInHand'
    BY <2>2, <2>4, <1>2
  <2> QED  BY <1>6, <2>5, <1>3 DEF BeginItem, KeepLedger, TypeOK
<1>7. CASE FailItem(w)
  <2> DEFINE x == [worker[w] EXCEPT !.phase = "failed"]
  <2>1. x \in WorkerState /\ x.item \in Deliveries /\ worker' = [worker EXCEPT ![w] = x]
    BY <1>7, <1>1 DEF FailItem, WorkerState, WorkInHand, TypeOK
  <2> HIDE DEF x
  <2>2. worker' \in [Workers -> WorkerState] /\ WorkInHand'
    BY <2>1, <1>2
  <2> QED  BY <1>7, <2>2, <1>3 DEF FailItem, KeepLedger, TypeOK
<1>8. CASE CrashWorker(w)
  <2>1. IdleWorker \in WorkerState /\ IdleWorker.phase = "idle"
    BY DEF IdleWorker, WorkerState
  <2>2. worker' \in [Workers -> WorkerState] /\ WorkInHand'
    BY <1>8, <2>1, <1>2 DEF CrashWorker
  <2>3. crashes' \in 0 .. MaxCrashes
    BY <1>8 DEF CrashWorker, TypeOK, InboxAssumption
  <2> QED  BY <1>8, <2>2, <2>3, <1>3 DEF CrashWorker, KeepLedger
<1>9. CASE CommitItem(w)
  <2>1. /\ d \in Deliveries /\ d \notin canonical /\ Apply(d)
        /\ inbox' = [inbox EXCEPT ![d] = "processed"] /\ DoneWith(w, d)
        /\ UNCHANGED <<received, acked, sends, handler, crashes>>
    BY <1>9 DEF CommitItem, Collides, WorkInHand, d
  <2>2. /\ Grows
        /\ inbox' \in [Deliveries -> InboxStatuses] /\ inbox'[d] # "absent"
        /\ canonical' \subseteq Deliveries /\ applied' \in [Deliveries -> Nat]
        /\ payments' \subseteq Payments
        /\ AppliedOnce' /\ MarkedMeansApplied' /\ WaitsOnce' /\ RowsKept'
    BY <2>1, ApplyKeeps
  <2>3. worker' \in [Workers -> WorkerState] /\ WorkInHand'
    BY <2>1, DoneWithKeeps
  <2>4. AckedIsStored' /\ ReadStaysTrue'
    BY <2>1, <2>2, ReadKept DEF AckedIsStored, Grows, TypeOK
  <2>5. TypeOK'
    BY <2>1, <2>2, <2>3 DEF TypeOK, WorkerState
  <2> QED  BY <2>2, <2>3, <2>4, <2>5
<1>10. CASE MarkDead(w)
  <2>1. /\ d \in Deliveries /\ DoneWith(w, d)
        /\ inbox' = [inbox EXCEPT ![d] = "dead"]
        /\ UNCHANGED <<canonical, applied, payments, received, acked, sends, handler, crashes>>
    BY <1>10 DEF MarkDead, KeepLedger, WorkInHand, d
  <2>2. inbox'[d] = "dead" /\ \A e \in Deliveries \ {d} : inbox'[e] = inbox[e]
    BY <2>1 DEF TypeOK
  <2>3. inbox' \in [Deliveries -> InboxStatuses] /\ Range(received) \subseteq Deliveries
    BY <2>1 DEF TypeOK, InboxStatuses, Range
  <2>4. worker' \in [Workers -> WorkerState] /\ WorkInHand'
    BY <2>1, DoneWithKeeps
  <2>5. TypeOK' /\ AckedIsStored' /\ AppliedOnce' /\ MarkedMeansApplied'
    BY <2>1, <2>2, <2>3, <2>4 DEF TypeOK, WorkerState, AckedIsStored, AppliedOnce,
        MarkedMeansApplied, Done
  <2>6. WaitsOnce' /\ RowsKept'
    BY <2>1, <2>2, <2>3 DEF WaitsOnce, RowsKept
  <2>7. ReadStaysTrue'
    BY <2>1, <2>2, ReadKept DEF Grows
  <2> QED  BY <2>4, <2>5, <2>6, <2>7
<1> QED
  BY <1>4, <1>5, <1>6, <1>7, <1>8, <1>9, <1>10 DEF WorkerStep

(***************************************************************************)
(* Every reachable state satisfies the inductive invariant.                *)
(***************************************************************************)
THEOREM Inductive == Spec => []IInv
<1> USE InboxAssumption
<1>1. Init => IInv
  <2> SUFFICES ASSUME Init PROVE IInv
    OBVIOUS
  <2>1. received = <<>> /\ received \in Seq(Deliveries) /\ DOMAIN received = {}
    BY DEF Init
  <2>2. IsInjective(received) /\ Range(received) = {}
    BY <2>1 DEF IsInjective, Range
  <2>3. TypeOK
    BY <2>1 DEF Init, TypeOK, InboxStatuses, Done, IdleHandler, IdleWorker, InboxAssumption
  <2>4. ReadStaysTrue /\ WorkInHand
    BY DEF Init, IdleHandler, IdleWorker, ReadStaysTrue, WorkInHand
  <2> QED
    BY <2>2, <2>3, <2>4 DEF Init, IInv, AppliedOnce, MarkedMeansApplied, AckedIsStored,
        WaitsOnce, RowsKept, Done
<1>2. IInv /\ [Next]_vars => IInv'
  <2> SUFFICES ASSUME IInv, [Next]_vars PROVE IInv'
    OBVIOUS
  <2>1. CASE Next
    BY <2>1, RequestKeeps, WorkKeeps DEF Next
  <2>2. CASE UNCHANGED vars
    BY <2>2 DEF vars, IInv, TypeOK, AppliedOnce, MarkedMeansApplied, AckedIsStored, WaitsOnce,
                ReadStaysTrue, WorkInHand, RowsKept
  <2> QED  BY <2>1, <2>2
<1> QED  BY <1>1, <1>2, PTL DEF Spec

(***************************************************************************)
(* Every variable always has its type.                                     *)
(***************************************************************************)
THEOREM TypeCorrect == Spec => []TypeOK
<1>1. IInv => TypeOK
  BY DEF IInv
<1> QED  BY <1>1, Inductive, PTL

(***************************************************************************)
(* No delivery is applied twice, however requests and workers interleave.  *)
(***************************************************************************)
THEOREM EffectivelyOnceApplied == Spec => []AppliedOnce
<1>1. IInv => AppliedOnce
  BY DEF IInv
<1> QED  BY <1>1, Inductive, PTL

(***************************************************************************)
(* A delivery that is marked processed or duplicate has been applied.      *)
(***************************************************************************)
THEOREM MarksAreTrue == Spec => []MarkedMeansApplied
<1>1. IInv => MarkedMeansApplied
  BY DEF IInv
<1> QED  BY <1>1, Inductive, PTL

(***************************************************************************)
(* A delivery that was answered is stored.                                 *)
(***************************************************************************)
THEOREM AnsweredStored == Spec => []AckedIsStored
<1>1. IInv => AckedIsStored
  BY DEF IInv
<1> QED  BY <1>1, Inductive, PTL

(***************************************************************************)
(* Deliveries wait once, and only before they are applied.                 *)
(***************************************************************************)
THEOREM WaitingLine == Spec => []WaitsOnce
<1>1. IInv => WaitsOnce
  BY DEF IInv
<1> QED  BY <1>1, Inductive, PTL

(***************************************************************************)
(* A stored delivery stays stored, and an applied one never waits again.   *)
(***************************************************************************)
THEOREM StoredForGood == Spec => NeverWaitsAgain
<1> DEFINE Step == \A d \in Deliveries :
                      /\ inbox[d] # "absent" => inbox'[d] # "absent"
                      /\ inbox'[d] = "received" => inbox[d] \in {"absent", "received"}
<1>1. IInv /\ [Next]_vars => [Step]_vars
  <2> SUFFICES ASSUME IInv, [Next]_vars PROVE Step
    OBVIOUS
  <2>1. inbox \in [Deliveries -> InboxStatuses]
    BY DEF IInv, TypeOK
  <2>2. CASE UNCHANGED inbox
    BY <2>2
  <2>3. ASSUME NEW h \in Handlers, HandlerStep(h), inbox' # inbox PROVE Step
    BY <2>1, <2>3 DEF HandlerStep, AnswerKnown, KnownStatus, LosesRace, Accept, BeginDirect,
        CommitDirect, FailDirect, Insert, IInv, ReadStaysTrue
  <2>4. ASSUME NEW w \in Workers, WorkerStep(w), inbox' # inbox PROVE Step
    BY <2>1, <2>4 DEF WorkerStep, TakeBatch, SkipDone, BeginItem, CommitItem, FailItem, MarkDead
  <2> QED
    BY <2>2, <2>3, <2>4 DEF Next, vars, Deliver, CrashHandler, CrashWorker
<1> QED  BY <1>1, Inductive, PTL DEF Spec, NeverWaitsAgain

------------------------------------------------------------------------------
(* WebhookInbox implements EffectivelyOnce.                                *)

\* What EffectivelyOnce sees of the inbox.
Seen == <<Stage, applied, acked>>

(***************************************************************************)
(* A step that at most gives one delivery a row, and answers for it, is    *)
(* one that accepts it, or has accepted it before.                         *)
(***************************************************************************)
LEMMA StoringAccepts ==
    ASSUME IInv, UNCHANGED applied, NEW d \in Deliveries, inbox'[d] # "absent",
           \A e \in Deliveries \ {d} : inbox'[e] = inbox[e],
           acked' \in {acked, acked \cup {d}}
    PROVE  Promise!Next
<1>1. applied[d] > 0 => inbox[d] # "absent"
  BY DEF IInv, RowsKept
<1>2. Stage'[d] # "new"
  BY DEF Stage
<1>3. Promise!AnswerSome
  BY <1>2 DEF Promise!AnswerSome
<1>4. CASE inbox[d] # "absent"
  <2>1. Stage' = Stage
    BY <1>4 DEF Stage
  <2> QED  BY <1>3, <2>1 DEF Promise!Next
<1>5. CASE inbox[d] = "absent"
  <2>1. ~ (applied[d] > 0)
    BY <1>1, <1>5
  <2>2. Stage[d] = "new" /\ Stage' = [Stage EXCEPT ![d] = "accepted"]
    BY <1>5, <2>1 DEF Stage
  <2>3. Promise!Accept(d)
    BY <2>2 DEF Promise!Accept
  <2> QED  BY <1>3, <2>3 DEF Promise!Next
<1> QED  BY <1>4, <1>5

(***************************************************************************)
(* A step that applies a delivery is the one that lets it take effect.     *)
(***************************************************************************)
LEMMA ApplyingTakes ==
    ASSUME IInv, NEW d \in Deliveries, d \notin canonical, Apply(d),
           inbox' = [inbox EXCEPT ![d] = "processed"],
           acked' \in {acked, acked \cup {d}}
    PROVE  Promise!Next
<1>1. applied[d] = 0 /\ applied' = [applied EXCEPT ![d] = 1]
  <2>1. applied[d] = 0
    BY DEF IInv, AppliedOnce
  <2>2. applied' = [applied EXCEPT ![d] = applied[d] + 1]
    BY DEF Apply
  <2> QED  BY <2>1, <2>2
<1>2. Stage[d] # "applied" /\ Stage' = [Stage EXCEPT ![d] = "applied"]
  <2>1. applied'[d] > 0 /\ ~ (applied[d] > 0)
    BY <1>1 DEF IInv, TypeOK
  <2>2. \A e \in Deliveries \ {d} : applied'[e] = applied[e] /\ inbox'[e] = inbox[e]
    BY <1>1 DEF IInv, TypeOK
  <2> QED  BY <2>1, <2>2 DEF Stage
<1>3. Promise!Take(d)
  BY <1>1, <1>2 DEF Promise!Take
<1>4. Promise!AnswerSome
  BY <1>2 DEF Promise!AnswerSome, Stage
<1> QED  BY <1>3, <1>4 DEF Promise!Next

(***************************************************************************)
(* The inbox and its workers keep the promise that providers rely on.      *)
(***************************************************************************)
THEOREM Refinement == Spec => ImplementsEffectivelyOnce
<1>1. Init => Promise!Init
  BY DEF Init, Promise!Init, Stage
<1>2. IInv /\ [Next]_vars => [Promise!Next]_Seen
  <2> SUFFICES ASSUME IInv, [Next]_vars PROVE [Promise!Next]_Seen
    OBVIOUS
  <2>1. CASE UNCHANGED <<inbox, applied, acked>>
    BY <2>1 DEF Seen, Stage
  <2>2. ASSUME NEW h \in Handlers, AnswerKnown(h) PROVE Promise!Next
    <3> DEFINE d == handler[h].item
    <3>1. d \in Deliveries /\ inbox[d] # "absent"
      BY <2>2 DEF AnswerKnown, IInv, ReadStaysTrue
    <3>2. inbox' = [inbox EXCEPT ![d] = IF handler[h].seen = "processed" THEN "duplicate"
                                        ELSE inbox[d]]
      BY <2>2 DEF AnswerKnown, KnownStatus
    <3>3. acked' \in {acked, acked \cup {d}} /\ UNCHANGED applied
      BY <2>2 DEF AnswerKnown, Answer, KeepLedger
    <3> HIDE DEF d
    <3>4. inbox'[d] # "absent" /\ \A e \in Deliveries \ {d} : inbox'[e] = inbox[e]
      BY <3>1, <3>2 DEF IInv, TypeOK
    <3> QED  BY <3>1, <3>3, <3>4, StoringAccepts
  <2>3. ASSUME NEW h \in Handlers, LosesRace(h) \/ Accept(h) PROVE Promise!Next
    <3> DEFINE d == handler[h].item
    <3>1. d \in Deliveries
      BY <2>3 DEF LosesRace, Accept, Insert, IInv, ReadStaysTrue
    <3>2. acked' \in {acked, acked \cup {d}} /\ UNCHANGED applied
      BY <2>3 DEF LosesRace, Accept, Answer, KeepLedger
    <3>3. inbox'[d] # "absent" /\ \A e \in Deliveries \ {d} : inbox'[e] = inbox[e]
      BY <2>3, <3>1 DEF LosesRace, Accept, IInv, TypeOK
    <3> HIDE DEF d
    <3> QED  BY <3>1, <3>2, <3>3, StoringAccepts
  <2>4. ASSUME NEW h \in Handlers, CommitDirect(h) PROVE Promise!Next
    <3> DEFINE d == handler[h].item
    <3>1. d \in Deliveries /\ d \notin canonical
      BY <2>4 DEF CommitDirect, Collides, IInv, ReadStaysTrue
    <3>2. /\ Apply(d) /\ inbox' = [inbox EXCEPT ![d] = "processed"]
          /\ acked' \in {acked, acked \cup {d}}
      BY <2>4 DEF CommitDirect, Answer
    <3> HIDE DEF d
    <3> QED  BY <3>1, <3>2, ApplyingTakes
  <2>5. ASSUME NEW w \in Workers, CommitItem(w) \/ MarkDead(w) PROVE Promise!Next
    <3> DEFINE d == worker[w].item
    <3>1. d \in Deliveries /\ UNCHANGED acked
      BY <2>5 DEF CommitItem, MarkDead, IInv, WorkInHand
    <3>2. CASE CommitItem(w)
      <4>1. d \notin canonical /\ Apply(d) /\ inbox' = [inbox EXCEPT ![d] = "processed"]
        BY <3>2 DEF CommitItem, Collides
      <4> HIDE DEF d
      <4> QED  BY <3>1, <4>1, ApplyingTakes
    <3>3. CASE MarkDead(w)
      <4>1. UNCHANGED applied /\ inbox' = [inbox EXCEPT ![d] = "dead"]
        BY <3>3 DEF MarkDead, KeepLedger
      <4> HIDE DEF d
      <4>2. inbox'[d] # "absent" /\ \A e \in Deliveries \ {d} : inbox'[e] = inbox[e]
        BY <3>1, <4>1 DEF IInv, TypeOK
      <4> QED  BY <3>1, <4>1, <4>2, StoringAccepts
    <3> QED  BY <2>5, <3>2, <3>3
  <2> QED
    BY <2>1, <2>2, <2>3, <2>4, <2>5 DEF Next, vars, HandlerStep, WorkerStep, Deliver,
        CrashHandler, CrashWorker, BeginDirect, FailDirect, TakeBatch, SkipDone, BeginItem,
        FailItem, KeepLedger
<1> QED  BY <1>1, <1>2, Inductive, PTL DEF Spec, Seen, ImplementsEffectivelyOnce, Promise!Spec

=============================================================================
