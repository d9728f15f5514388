------------------------- MODULE EventStreamProofs --------------------------
(***************************************************************************)
(* Proofs about EventStream, for every set of sessions and clients and     *)
(* every bound that satisfies StreamAssumption.                            *)
(***************************************************************************)
EXTENDS EventStream, NatFacts

(***************************************************************************)
(* The rows of a session that are not committed are of events that wait    *)
(* for its next hook or have been handed out by an earlier one; and every  *)
(* committed row is of an event that has been handed out.                  *)
(***************************************************************************)
EventList    == Seq(Nat)
SessionState == [rows : EventList, pending : EventList, webhooks : Nat]
OutboxRow    == [event : Nat, dispatched : BOOLEAN]

IInv ==
    /\ session \in [Sessions -> SessionState]
    /\ outbox \in Seq(OutboxRow)
    /\ events \in Nat
    /\ \A s \in Sessions : ToSet(session[s].rows) \subseteq published \cup ToSet(session[s].pending)
    /\ CommittedIsPublished

\* What the members of sequences are after they are extended.
LEMMA Members ==
    /\ \A s \in EventList, x \in Nat :
          Append(s, x) \in EventList /\ ToSet(Append(s, x)) = ToSet(s) \cup {x}
    /\ \A s, t \in EventList : s \o t \in EventList /\ ToSet(s \o t) = ToSet(s) \cup ToSet(t)
    /\ ToSet(<<>>) = {} /\ <<>> \in EventList
<1>1. ASSUME NEW s \in Seq(Nat), NEW x \in Nat
      PROVE  Append(s, x) \in Seq(Nat) /\ ToSet(Append(s, x)) = ToSet(s) \cup {x}
  <2>1. /\ Append(s, x) \in Seq(Nat) /\ Len(Append(s, x)) = Len(s) + 1
        /\ \A i \in 1 .. Len(s) : Append(s, x)[i] = s[i]
        /\ Append(s, x)[Len(s) + 1] = x
    OBVIOUS
  <2>2. DOMAIN s = 1 .. Len(s) /\ DOMAIN Append(s, x) = (1 .. Len(s)) \cup {Len(s) + 1}
    BY <2>1
  <2> QED  BY <2>1, <2>2 DEF ToSet
<1>2. ASSUME NEW s \in Seq(Nat), NEW t \in Seq(Nat)
      PROVE  s \o t \in Seq(Nat) /\ ToSet(s \o t) = ToSet(s) \cup ToSet(t)
  <2>1. /\ s \o t \in Seq(Nat) /\ Len(s \o t) = Len(s) + Len(t)
        /\ Len(s) \in Nat /\ Len(t) \in Nat
        /\ \A i \in 1 .. Len(s) : (s \o t)[i] = s[i]
        /\ \A i \in 1 .. Len(t) : (s \o t)[Len(s) + i] = t[i]
    OBVIOUS
  <2>2. /\ DOMAIN s = 1 .. Len(s) /\ DOMAIN t = 1 .. Len(t)
        /\ DOMAIN (s \o t) = 1 .. (Len(s) + Len(t))
    BY <2>1
  <2>3. ToSet(s) \subseteq ToSet(s \o t)
    BY <2>1, <2>2 DEF ToSet
  <2>4. ToSet(t) \subseteq ToSet(s \o t)
    <3>1. \A i \in 1 .. Len(t) : Len(s) + i \in 1 .. (Len(s) + Len(t))
      BY <2>1
    <3> QED  BY <2>1, <2>2, <3>1 DEF ToSet
  <2>5. ASSUME NEW i \in 1 .. (Len(s) + Len(t))
        PROVE  (s \o t)[i] \in ToSet(s) \cup ToSet(t)
    <3>1. CASE i <= Len(s)
      BY <2>1, <2>2, <3>1 DEF ToSet
    <3>2. CASE ~ (i <= Len(s))
      <4>1. PICK j \in 1 .. Len(t) : i = Len(s) + j
        <5>1. i - Len(s) \in 1 .. Len(t) /\ i = Len(s) + (i - Len(s))
          BY <2>1, <3>2
        <5> QED  BY <5>1
      <4> QED  BY <2>1, <2>2, <4>1 DEF ToSet
    <3> QED  BY <3>1, <3>2
  <2> QED  BY <2>1, <2>2, <2>3, <2>4, <2>5 DEF ToSet
<1>3. ToSet(<<>>) = {} /\ <<>> \in Seq(Nat)
  BY DEF ToSet
<1> QED  BY <1>1, <1>2, <1>3 DEF EventList

\* The rows of an outbox that grows.
LEMMA OutboxGrows ==
    ASSUME NEW s \in Seq(OutboxRow), NEW t \in Seq(OutboxRow)
    PROVE  /\ s \o t \in Seq(OutboxRow)
           /\ DOMAIN (s \o t) = 1 .. (Len(s) + Len(t))
           /\ \A i \in 1 .. (Len(s) + Len(t)) :
                 (s \o t)[i] = IF i <= Len(s) THEN s[i] ELSE t[i - Len(s)]
OBVIOUS

\* A session's state field by field.
LEMMA SessionFields ==
    ASSUME NEW state \in SessionState
    PROVE  /\ state.rows \in EventList /\ state.pending \in EventList /\ state.webhooks \in Nat
           /\ \A x : [state EXCEPT !.rows = x]
                      = [rows |-> x, pending |-> state.pending, webhooks |-> state.webhooks]
           /\ \A x : [state EXCEPT !.pending = x]
                      = [rows |-> state.rows, pending |-> x, webhooks |-> state.webhooks]
           /\ \A x : [state EXCEPT !.webhooks = x]
                      = [rows |-> state.rows, pending |-> state.pending, webhooks |-> x]
<1>1. ASSUME NEW x
      PROVE  [state EXCEPT !.rows = x]
                = [rows |-> x, pending |-> state.pending, webhooks |-> state.webhooks]
  BY DEF SessionState
<1>2. ASSUME NEW x
      PROVE  [state EXCEPT !.pending = x]
                = [rows |-> state.rows, pending |-> x, webhooks |-> state.webhooks]
  BY DEF SessionState
<1>3. ASSUME NEW x
      PROVE  [state EXCEPT !.webhooks = x]
                = [rows |-> state.rows, pending |-> state.pending, webhooks |-> x]
  BY DEF SessionState
<1>4. state.rows \in EventList /\ state.pending \in EventList /\ state.webhooks \in Nat
  BY DEF SessionState
<1> QED  BY <1>1, <1>2, <1>3, <1>4

\* The hook leaves nothing pending.
LEMMA HookEmpties ==
    ASSUME NEW state \in SessionState
    PROVE  /\ AfterHook(state) \in SessionState
           /\ AfterHook(state)
                = [rows |-> state.rows, pending |-> <<>>, webhooks |-> state.webhooks]
           /\ [AfterHook(state) EXCEPT !.rows = <<>>]
                = [rows |-> <<>>, pending |-> <<>>, webhooks |-> state.webhooks]
           /\ [AfterHook(state) EXCEPT !.rows = <<>>] \in SessionState
<1>1. AfterHook(state) = [rows |-> state.rows, pending |-> <<>>, webhooks |-> state.webhooks]
  BY SessionFields DEF AfterHook
<1>2. AfterHook(state) \in SessionState
  BY <1>1, SessionFields, Members DEF SessionState
<1>3. [AfterHook(state) EXCEPT !.rows = <<>>]
        = [rows |-> <<>>, pending |-> AfterHook(state).pending,
           webhooks |-> AfterHook(state).webhooks]
  BY <1>2, SessionFields
<1>4. /\ AfterHook(state).pending = <<>> /\ AfterHook(state).webhooks = state.webhooks
  BY <1>1
<1> QED  BY <1>1, <1>2, <1>3, <1>4, SessionFields, Members DEF SessionState

\* A session that commits, and whose pending events are handed out, keeps the invariant.
LEMMA CommitStep ==
    ASSUME IInv, NEW s \in Sessions, NEW state \in SessionState, Commits(s, state),
           ToSet(state.rows) \subseteq published \cup ToSet(state.pending), events' \in Nat
    PROVE  IInv'
<1>1. /\ published' = published \cup ToSet(state.pending)
      /\ session' = [session EXCEPT ![s] = [AfterHook(state) EXCEPT !.rows = <<>>]]
      /\ outbox' = outbox \o [i \in 1 .. Len(state.rows) |-> Row(state.rows[i])]
  BY DEF Commits, Publish
<1> DEFINE new == [i \in 1 .. Len(state.rows) |-> Row(state.rows[i])]
<1>2. /\ state.rows \in EventList /\ Len(state.rows) \in Nat
      /\ \A i \in 1 .. Len(state.rows) : state.rows[i] \in Nat /\ state.rows[i] \in ToSet(state.rows)
  <2>1. state.rows \in Seq(Nat)
    BY SessionFields DEF EventList
  <2>2. ASSUME NEW r \in Seq(Nat)
        PROVE  /\ Len(r) \in Nat
               /\ \A i \in 1 .. Len(r) : r[i] \in Nat /\ r[i] \in ToSet(r)
    <3>1. DOMAIN r = 1 .. Len(r) /\ Len(r) \in Nat
      OBVIOUS
    <3> QED  BY <3>1 DEF ToSet
  <2> QED  BY <2>1, <2>2, SessionFields
<1>3. /\ new \in Seq(OutboxRow) /\ Len(new) = Len(state.rows)
      /\ \A i \in 1 .. Len(new) : new[i].event \in published'
  BY <1>1, <1>2 DEF Row, OutboxRow
<1> HIDE DEF new
<1>4. /\ outbox' \in Seq(OutboxRow)
      /\ CommittedIsPublished'
  <2>1. /\ outbox \in Seq(OutboxRow) /\ outbox' = outbox \o new
        /\ \A i \in 1 .. Len(outbox) : outbox[i].event \in published'
    BY <1>1 DEF IInv, CommittedIsPublished, new
  <2>2. /\ outbox' \in Seq(OutboxRow)
        /\ DOMAIN outbox' = 1 .. (Len(outbox) + Len(new))
    BY <1>3, <2>1, OutboxGrows
  <2>3. ASSUME NEW i \in 1 .. (Len(outbox) + Len(new))
        PROVE  outbox'[i].event \in published'
    <3>1. CASE i <= Len(outbox)
      BY <1>3, <2>1, <3>1, OutboxGrows
    <3>2. CASE ~ (i <= Len(outbox))
      <4>1. i - Len(outbox) \in 1 .. Len(new) /\ outbox'[i] = new[i - Len(outbox)]
        BY <1>3, <2>1, <3>2, OutboxGrows
      <4> QED  BY <1>3, <4>1
    <3> QED  BY <3>1, <3>2
  <2> QED  BY <2>2, <2>3 DEF CommittedIsPublished
<1>5. [AfterHook(state) EXCEPT !.rows = <<>>]
        = [rows |-> <<>>, pending |-> <<>>, webhooks |-> state.webhooks]
  BY HookEmpties
<1>6. session' \in [Sessions -> SessionState]
  BY <1>1, HookEmpties DEF IInv
<1>7. ASSUME NEW q \in Sessions
      PROVE  ToSet(session'[q].rows) \subseteq published' \cup ToSet(session'[q].pending)
  BY <1>1, <1>5, Members DEF IInv
<1> QED  BY <1>4, <1>6, <1>7 DEF IInv

\* A session gets new rows and pending events, and maybe hands out what was pending.
LEMMA SessionStep ==
    ASSUME IInv, NEW s \in Sessions, NEW state \in SessionState,
           session' = [session EXCEPT ![s] = state], outbox' = outbox, events' \in Nat,
           published \subseteq published',
           ToSet(state.rows) \subseteq published' \cup ToSet(state.pending)
    PROVE  IInv'
<1>1. session' \in [Sessions -> SessionState]
  BY DEF IInv
<1>2. ASSUME NEW q \in Sessions
      PROVE  ToSet(session'[q].rows) \subseteq published' \cup ToSet(session'[q].pending)
  <2>1. CASE q = s
    BY <2>1 DEF IInv
  <2>2. CASE q # s
    BY <2>2 DEF IInv
  <2> QED  BY <2>1, <2>2
<1> QED  BY <1>1, <1>2 DEF IInv, CommittedIsPublished

\* What publishing an event makes of a session.
LEMMA PublishedState ==
    ASSUME NEW state \in SessionState, NEW e \in Nat
    PROVE  /\ Published(state, e) \in SessionState
           /\ Published(state, e).webhooks = state.webhooks
           /\ Published(state, e).pending = Append(state.pending, e)
           /\ ToSet(Published(state, e).rows) = ToSet(state.rows) \cup {e}
           /\ ToSet(Published(state, e).pending) = ToSet(state.pending) \cup {e}
<1>1. Published(state, e) = [rows |-> Append(state.rows, e), pending |-> Append(state.pending, e),
                             webhooks |-> state.webhooks]
  <2> DEFINE half == [state EXCEPT !.rows = Append(@, e)]
  <2>1. /\ half = [rows |-> Append(state.rows, e), pending |-> state.pending,
                   webhooks |-> state.webhooks]
        /\ half \in SessionState
    <3>1. half = [rows |-> Append(state.rows, e), pending |-> state.pending,
                  webhooks |-> state.webhooks]
      BY SessionFields
    <3>2. Append(state.rows, e) \in EventList
      BY SessionFields, Members
    <3> HIDE DEF half
    <3> QED  BY <3>1, <3>2, SessionFields DEF SessionState
  <2>2. Published(state, e) = [half EXCEPT !.pending = Append(@, e)]
    BY DEF Published, Pending
  <2> HIDE DEF half
  <2> QED  BY <2>1, <2>2, SessionFields
<1>2. Append(state.rows, e) \in EventList /\ Append(state.pending, e) \in EventList
  BY SessionFields, Members
<1>3. Published(state, e) \in SessionState
  BY <1>1, <1>2, SessionFields DEF SessionState
<1> QED  BY <1>1, <1>3, Members, SessionFields

\* The rows of a session that publishes are covered if they were before.
LEMMA PublishedCovered ==
    ASSUME NEW state \in SessionState, NEW e \in Nat, NEW S,
           ToSet(state.rows) \subseteq S \cup ToSet(state.pending)
    PROVE  /\ Published(state, e) \in SessionState
           /\ ToSet(Published(state, e).rows) \subseteq S \cup ToSet(Published(state, e).pending)
<1>1. PICK new \in SessionState : new = Published(state, e)
  BY PublishedState
<1>2. PICK rows, pending : rows = ToSet(state.rows) /\ pending = ToSet(state.pending)
  OBVIOUS
<1>3. ToSet(new.rows) = rows \cup {e} /\ ToSet(new.pending) = pending \cup {e}
  BY <1>1, <1>2, PublishedState
<1> QED  BY <1>1, <1>2, <1>3

LEMMA StreamStep == IInv /\ [Next]_vars => IInv'
<1> SUFFICES ASSUME IInv, [Next]_vars PROVE IInv'
  OBVIOUS
<1>1. \A s \in Sessions : session[s] \in SessionState
  BY DEF IInv
<1>2. events \in Nat /\ New \in Nat
  BY DEF IInv, New
<1>3. ASSUME NEW s \in Sessions, RequestPublishes(s) PROVE IInv'
  <2>1. PICK old \in SessionState : old = session[s]
    BY <1>1
  <2>2. /\ session' = [session EXCEPT ![s] = Published(old, New)] /\ outbox' = outbox
        /\ events' \in Nat /\ published' = published
    BY <1>2, <1>3, <2>1 DEF RequestPublishes, Counts, IInv
  <2>3. PICK new \in SessionState : new = Published(old, New)
    <3>1. PICK x \in Nat : x = New
      BY <1>2
    <3> QED  BY <3>1, PublishedState
  <2>4. ToSet(new.rows) \subseteq published \cup ToSet(new.pending)
    <3>1. ToSet(old.rows) \subseteq published \cup ToSet(old.pending)
      BY <2>1 DEF IInv
    <3>2. PICK x \in Nat : x = New
      BY <1>2
    <3> QED  BY <2>3, <3>1, <3>2, PublishedCovered
  <2> QED  BY <2>2, <2>3, <2>4, SessionStep
<1>4. ASSUME NEW s \in Sessions, RequestCommits(s) PROVE IInv'
  BY <1>1, <1>2, <1>4, CommitStep DEF RequestCommits, IInv
<1>5. ASSUME NEW s \in Sessions, InjectionEnds(s) PROVE IInv'
  <2> DEFINE half == Published(session[s], New)
             state == [half EXCEPT !.webhooks = 0]
  <2>1. /\ half \in SessionState
        /\ ToSet(half.rows) \subseteq published \cup ToSet(half.pending)
    <3>1. session[s] \in SessionState
      BY <1>1
    <3>2. ToSet(session[s].rows) \subseteq published \cup ToSet(session[s].pending)
      BY DEF IInv
    <3>3. PICK x \in Nat, old \in SessionState : x = New /\ old = session[s]
      BY <1>2, <3>1
    <3> QED  BY <3>2, <3>3, PublishedCovered
  <2> HIDE DEF half
  <2>2. /\ state \in SessionState
        /\ ToSet(state.rows) \subseteq published \cup ToSet(state.pending)
    <3>1. state = [rows |-> half.rows, pending |-> half.pending, webhooks |-> 0]
      BY <2>1, SessionFields
    <3>2. state \in SessionState
      BY <2>1, <3>1, SessionFields DEF SessionState
    <3> QED  BY <2>1, <3>1, <3>2
  <2>3. Commits(s, state) /\ events' \in Nat
    BY <1>2, <1>5 DEF InjectionEnds, Counts, half
  <2> HIDE DEF state
  <2> QED  BY <2>2, <2>3, CommitStep
<1>6. ASSUME NEW s \in Sessions, Inject(s) PROVE IInv'
  <2> DEFINE old   == session[s]
             half  == Published(AfterHook(old), New)
             taken == [half EXCEPT !.webhooks = @ + 1]
             all   == [taken EXCEPT !.pending = old.pending \o @]
  <2>1. old \in SessionState /\ ToSet(old.rows) \subseteq published \cup ToSet(old.pending)
    BY <1>1 DEF IInv
  <2>2. AfterHook(old) = [rows |-> old.rows, pending |-> <<>>, webhooks |-> old.webhooks]
    BY <2>1, HookEmpties
  <2>3. /\ half \in SessionState
        /\ ToSet(half.rows) = ToSet(old.rows) \cup {New}
        /\ ToSet(half.pending) = {New}
    <3>1. PICK hooked \in SessionState : hooked = AfterHook(old)
      BY <2>1, HookEmpties
    <3>2. hooked.rows = old.rows /\ ToSet(hooked.pending) = {}
      BY <2>2, <3>1, Members
    <3> HIDE DEF old
    <3>3. PICK x \in Nat : x = New
      BY <1>2
    <3>4. /\ Published(hooked, x) \in SessionState
          /\ ToSet(Published(hooked, x).rows) = ToSet(hooked.rows) \cup {x}
          /\ ToSet(Published(hooked, x).pending) = ToSet(hooked.pending) \cup {x}
      BY PublishedState
    <3>5. half = Published(hooked, x)
      BY <3>1, <3>3
    <3> QED  BY <3>2, <3>3, <3>4, <3>5
  <2>4. /\ taken \in SessionState /\ taken.rows = half.rows /\ taken.pending = half.pending
    <3> HIDE DEF half
    <3>1. taken = [rows |-> half.rows, pending |-> half.pending, webhooks |-> half.webhooks + 1]
      BY <2>3, SessionFields
    <3>2. half.webhooks + 1 \in Nat
      BY <2>3, SessionFields
    <3> QED  BY <2>3, <3>1, <3>2, SessionFields DEF SessionState
  <2>5. /\ all \in SessionState /\ all.rows = taken.rows
        /\ ToSet(all.pending) = ToSet(old.pending) \cup ToSet(taken.pending)
    <3> HIDE DEF taken
    <3>1. old.pending \o taken.pending \in EventList
      BY <2>1, <2>4, Members, SessionFields
    <3>2. all = [rows |-> taken.rows, pending |-> old.pending \o taken.pending,
                 webhooks |-> taken.webhooks]
      BY <2>4, SessionFields
    <3> HIDE DEF all
    <3>3. all \in SessionState
      BY <2>4, <3>1, <3>2, SessionFields DEF SessionState
    <3> QED  BY <2>1, <2>4, <3>1, <3>2, <3>3, Members, SessionFields
  <2>6. CASE Commits(s, all) /\ events' \in Nat
    <3> HIDE DEF all, taken, half, old
    <3> QED  BY <2>1, <2>3, <2>4, <2>5, <2>6, CommitStep
  <2>7. CASE /\ Publish(old.pending) /\ session' = [session EXCEPT ![s] = taken]
             /\ outbox' = outbox /\ events' \in Nat
    <3> HIDE DEF all, taken, half, old
    <3> QED  BY <2>1, <2>3, <2>4, <2>7, SessionStep DEF Publish
  <2>8. events' \in Nat
    BY <1>2, <1>6 DEF Inject, Counts
  <2> QED  BY <1>6, <2>6, <2>7, <2>8 DEF Inject
<1>7. ASSUME NEW s \in Sessions, RollsBack(s) PROVE IInv'
  <2> DEFINE state == [AfterHook(session[s]) EXCEPT !.rows = <<>>]
  <2>1. state = [rows |-> <<>>, pending |-> <<>>, webhooks |-> session[s].webhooks]
    BY <1>1, HookEmpties
  <2>2. state \in SessionState /\ ToSet(state.rows) = {}
    BY <1>1, <2>1, HookEmpties, Members
  <2>3. /\ session' = [session EXCEPT ![s] = state] /\ outbox' = outbox
        /\ events' = events /\ published' = published
    BY <1>1, <1>7 DEF RollsBack, IInv
  <2> HIDE DEF state
  <2> QED  BY <1>2, <2>2, <2>3, SessionStep
<1>8. CASE DispatchOutbox
  <2>1. /\ UNCHANGED <<session, published, events>>
        /\ DOMAIN outbox' = DOMAIN outbox
        /\ \A i \in DOMAIN outbox :
              outbox'[i] \in {outbox[i], [outbox[i] EXCEPT !.dispatched = TRUE]}
    BY <1>8 DEF DispatchOutbox
  <2>2. \A i \in DOMAIN outbox : /\ outbox'[i] \in OutboxRow
                                 /\ outbox'[i].event = outbox[i].event
    <3> SUFFICES ASSUME NEW i \in DOMAIN outbox
                 PROVE  /\ outbox'[i] \in OutboxRow
                        /\ outbox'[i].event = outbox[i].event
      OBVIOUS
    <3>1. PICK row \in OutboxRow : row = outbox[i]
      BY DEF IInv
    <3>2. /\ [row EXCEPT !.dispatched = TRUE] \in OutboxRow
          /\ [row EXCEPT !.dispatched = TRUE].event = row.event
      BY DEF OutboxRow
    <3> QED  BY <2>1, <3>1, <3>2
  <2>3. outbox' \in Seq(OutboxRow)
    <3>1. PICK g : outbox' = [i \in DOMAIN outbox |-> g[i]]
      <4>1. PICK due : outbox' = [i \in DOMAIN outbox |->
               IF i \in due THEN [outbox[i] EXCEPT !.dispatched = TRUE] ELSE outbox[i]]
        BY <1>8 DEF DispatchOutbox
      <4> DEFINE h == [i \in DOMAIN outbox |->
               IF i \in due THEN [outbox[i] EXCEPT !.dispatched = TRUE] ELSE outbox[i]]
      <4>2. h = [i \in DOMAIN outbox |-> h[i]]
        OBVIOUS
      <4> HIDE DEF h
      <4>3. outbox' = h
        BY <4>1 DEF h
      <4> QED  BY <4>2, <4>3
    <3>2. DOMAIN outbox = 1 .. Len(outbox) /\ Len(outbox) \in Nat
      BY DEF IInv
    <3>3. \A i \in 1 .. Len(outbox) : g[i] \in OutboxRow
      BY <2>2, <3>1, <3>2
    <3>4. [i \in 1 .. Len(outbox) |-> g[i]] \in Seq(OutboxRow)
      BY <3>2, <3>3
    <3> QED  BY <3>1, <3>2, <3>4
  <2> QED  BY <2>1, <2>2, <2>3 DEF IInv, CommittedIsPublished
<1>9. CASE UNCHANGED <<session, outbox, published, events>>
  BY <1>9 DEF IInv, CommittedIsPublished
<1> QED  BY <1>3, <1>4, <1>5, <1>6, <1>7, <1>8, <1>9
         DEF Next, Subscribe, Unsubscribe, Receive, vars

LEMMA StreamInductive == Spec => []IInv
<1>1. Init => IInv
  BY Members DEF Init, IInv, CommittedIsPublished, Fresh, SessionState
<1> QED  BY <1>1, StreamStep, PTL DEF Spec

(***************************************************************************)
(* Every committed event has been handed to the clients that listened,     *)
(* however savepoints, batches, commits and rollbacks interleave.          *)
(***************************************************************************)
THEOREM CommitsArePublished == Spec => []CommittedIsPublished
<1>1. IInv => CommittedIsPublished
  BY DEF IInv
<1> QED  BY <1>1, StreamInductive, PTL

------------------------------------------------------------------------------
(* What a client sees.                                                     *)

QueueRow == [on : BOOLEAN, events : EventList]

Distinct(s) == \A i, j \in 1 .. Len(s) : i < j => s[i] # s[j]

\* An event that is not in a list is distinct from those in it.
LEMMA DistinctGrows ==
    ASSUME NEW s \in EventList, NEW x \in Nat, Distinct(s), x \notin ToSet(s)
    PROVE  Distinct(Append(s, x))
<1>1. s \in Seq(Nat)
  BY DEF EventList
<1>2. /\ Len(s) \in Nat /\ Len(Append(s, x)) = Len(s) + 1
      /\ \A i \in 1 .. Len(s) : Append(s, x)[i] = s[i] /\ s[i] # x
      /\ Append(s, x)[Len(s) + 1] = x
  BY <1>1 DEF ToSet
<1> DEFINE t == Append(s, x)
<1> HIDE DEF t
<1>3. \A i, j \in 1 .. Len(t) : i < j => t[i] # t[j]
  <2> SUFFICES ASSUME NEW i \in 1 .. Len(t), NEW j \in 1 .. Len(t), i < j PROVE t[i] # t[j]
    OBVIOUS
  <2>1. i \in 1 .. Len(s)
    BY <1>2 DEF t
  <2>2. CASE j \in 1 .. Len(s)
    BY <1>2, <2>1, <2>2 DEF t, Distinct
  <2>3. CASE j = Len(s) + 1
    BY <1>2, <2>1, <2>3 DEF t
  <2> QED  BY <1>2, <2>2, <2>3 DEF t
<1> QED  BY <1>3 DEF Distinct, t

\* An event that is taken from the queue, or put there.
LEMMA AppendMoves ==
    ASSUME NEW r \in EventList, NEW w \in EventList, NEW x \in Nat
    PROVE  r \o Append(w, x) = Append(r \o w, x)
BY DEF EventList

\* What a client has got and has waiting.
LEMMA GotMoves ==
    ASSUME NEW r \in EventList, NEW w \in EventList
    PROVE  /\ r \o w \in EventList /\ ToSet(r \o w) = ToSet(r) \cup ToSet(w)
           /\ r \o <<>> = r
           /\ Distinct(r \o w) => Distinct(r)
<1>1. r \in Seq(Nat) /\ w \in Seq(Nat) /\ EventList = Seq(Nat)
  BY DEF EventList
<1>2. Distinct(r \o w) => Distinct(r)
  <2>1. /\ Len(r) \in Nat /\ Len(w) \in Nat /\ Len(r \o w) = Len(r) + Len(w)
        /\ \A i \in 1 .. Len(r) : (r \o w)[i] = r[i]
    BY <1>1
  <2> DEFINE t == r \o w
  <2> HIDE DEF t
  <2> QED  BY <2>1 DEF Distinct, t
<1>3. r \o <<>> = r
  BY <1>1
<1> QED  BY <1>1, <1>2, <1>3, Members

LEMMA HeadMoves ==
    ASSUME NEW r \in EventList, NEW w \in EventList, w # <<>>
    PROVE  /\ Tail(w) \in EventList /\ Append(r, Head(w)) \in EventList
           /\ Append(r, Head(w)) \o Tail(w) = r \o w
<1>1. r \in Seq(Nat) /\ w \in Seq(Nat) /\ EventList = Seq(Nat)
  BY DEF EventList
<1>2. /\ Head(w) \in Nat /\ Tail(w) \in Seq(Nat) /\ Append(r, Head(w)) \in Seq(Nat)
      /\ Append(r, Head(w)) \o Tail(w) = r \o w
  BY <1>1
<1> QED  BY <1>1, <1>2

\* After the first so many of the events es a queue has what it had and some of them.
Takes(new, old, r, es, k) ==
    /\ new \in QueueRow
    /\ Distinct(r \o new.events)
    /\ \A x \in ToSet(new.events) : x \in ToSet(old.events) \/ \E i \in 1 .. k : es[i] = x

LEMMA PutTakes ==
    ASSUME NEW r \in EventList, NEW es \in EventList, NEW old \in QueueRow, NEW q,
           Distinct(es), ToSet(es) \cap (ToSet(r) \cup ToSet(old.events)) = {},
           NEW k \in 1 .. Len(es), Takes(q, old, r, es, k-1)
    PROVE  Takes(Put(q, es[k]), old, r, es, k)
<1> DEFINE e == es[k]
<1>1. /\ es \in Seq(Nat) /\ Len(es) \in Nat /\ e \in Nat /\ e \in ToSet(es)
      /\ \A i \in 1 .. (k-1) : es[i] # e
      /\ \A i \in 1 .. (k-1) : i \in 1 .. k
      /\ k \in 1 .. k
  BY DEF EventList, Distinct, ToSet
<1>2. q \in QueueRow /\ q.events \in EventList /\ Distinct(r \o q.events)
  BY DEF Takes, QueueRow
<1>3. e \notin ToSet(r) /\ e \notin ToSet(q.events)
  BY <1>1 DEF Takes
<1>4. CASE Put(q, e) = q
  BY <1>1, <1>2, <1>4 DEF Takes
<1>5. CASE Put(q, e) = [q EXCEPT !.events = Append(q.events, e)]
  <2>1. Append(q.events, e) \in EventList /\ ToSet(Append(q.events, e)) = ToSet(q.events) \cup {e}
    BY <1>1, <1>2, Members
  <2>2. Put(q, e) \in QueueRow /\ Put(q, e).events = Append(q.events, e)
    BY <1>2, <1>5, <2>1 DEF QueueRow
  <2>3. Distinct(r \o Append(q.events, e))
    <3>1. PICK w \in EventList, x \in Nat : w = q.events /\ x = e
      BY <1>1, <1>2
    <3> HIDE DEF e
    <3>2. /\ r \o w \in EventList /\ ToSet(r \o w) = ToSet(r) \cup ToSet(w)
          /\ r \o Append(w, x) = Append(r \o w, x)
      <4>1. r \o w \in EventList /\ ToSet(r \o w) = ToSet(r) \cup ToSet(w)
        BY <3>1, Members
      <4>2. r \o Append(w, x) = Append(r \o w, x)
        BY <3>1, AppendMoves
      <4> QED  BY <4>1, <4>2
    <3>3. x \notin ToSet(r \o w) /\ Distinct(r \o w)
      BY <1>2, <1>3, <3>1, <3>2
    <3> QED  BY <3>1, <3>2, <3>3, DistinctGrows
  <2> HIDE DEF e
  <2>4. \A x \in ToSet(q.events) \cup {e} : x \in ToSet(old.events) \/ \E i \in 1 .. k : es[i] = x
    BY <1>1 DEF Takes, e
  <2> QED  BY <2>1, <2>2, <2>3, <2>4 DEF Takes, e
<1>6. Put(q, e) = q \/ Put(q, e) = [q EXCEPT !.events = Append(q.events, e)]
  BY DEF Put
<1> QED  BY <1>4, <1>5, <1>6

(***************************************************************************)
(* The fold by which a batch of events enters a queue: it goes through the *)
(* events from the first to the last.                                      *)
(***************************************************************************)
\* g is what the queue becomes after each set of the events' places.
Fills(g, q, es) ==
    g = [s \in SUBSET DOMAIN es |->
           IF s = {} THEN q ELSE Put(g[s \ {Max(s)}], es[Max(s)])]

LEMMA MaxTaken ==
    ASSUME NEW n \in Nat, NEW s \in SUBSET (1 .. n), s # {}
    PROVE  /\ Max(s) \in s /\ s \ {Max(s)} \in SUBSET (1 .. n)
           /\ Cardinality(s) \in Nat /\ Cardinality(s \ {Max(s)}) = Cardinality(s) - 1
<1>1. IsFiniteSet(s)
  <2>1. IsFiniteSet(1 .. n)
    BY FS_Interval
  <2> QED  BY <2>1, FS_Subset
<1>2. \E x \in s : \A y \in s : x >= y
  <2>1. s \subseteq Nat /\ \A x \in s : x <= n
    OBVIOUS
  <2>2. PICK x \in s : \A y \in s : y <= x
    BY <2>1, GreatestNat
  <2>3. \A y \in s : x >= y
    BY <2>1, <2>2
  <2> QED  BY <2>3
<1>3. Max(s) \in s
  BY <1>2 DEF Max
<1> QED  BY <1>1, <1>3, FS_CardinalityType, FS_RemoveElement

LEMMA FillsExist ==
    ASSUME NEW q, NEW es \in EventList
    PROVE  \E g : Fills(g, q, es)
<1> DEFINE n == Len(es)
           S == 1 .. n
           Then(h, s) == IF s = {} THEN q ELSE Put(h[s \ {Max(s)}], es[Max(s)])
           FillsTo(h, k) == \A s \in SUBSET S : Cardinality(s) <= k => h[s] = Then(h, s)
           Reached == {k \in 0 .. n : \E h : FillsTo(h, k)}
<1>1. n \in Nat /\ DOMAIN es = S
  BY DEF EventList
<1>2. \A s \in SUBSET S : IsFiniteSet(s) /\ Cardinality(s) \in 0 .. n
  <2>1. IsFiniteSet(S) /\ Cardinality(S) = n
    <3> HIDE DEF n
    <3> QED  BY <1>1, FS_Interval
  <2> HIDE DEF S, n
  <2> QED  BY <2>1, <1>1, FS_Subset, FS_CardinalityType
<1>3. 0 \in Reached
  <2> DEFINE h == [s \in SUBSET S |-> q]
  <2>1. \A s \in SUBSET S : Cardinality(s) <= 0 => s = {}
    <3> HIDE DEF S, n
    <3> QED  BY <1>1, <1>2, FS_EmptySet
  <2>2. FillsTo(h, 0)
    BY <2>1
  <2>3. 0 \in 0 .. n
    BY <1>1
  <2> HIDE DEF FillsTo, n, h, S
  <2> QED  BY <2>2, <2>3
<1>4. ASSUME NEW k \in 1 .. n, k-1 \in Reached
      PROVE  k \in Reached
  <2>1. PICK h : FillsTo(h, k-1)
    BY <1>4
  <2> DEFINE g == [s \in SUBSET S |-> IF Cardinality(s) <= k-1 THEN h[s] ELSE Then(h, s)]
  <2>2. ASSUME NEW s \in SUBSET S, Cardinality(s) <= k
        PROVE  g[s] = Then(g, s)
    <3>1. g[s] = Then(h, s)
      BY <2>1
    <3>2. CASE s # {}
      <4> DEFINE t == s \ {Max(s)}
      <4>1. t \in SUBSET S /\ Cardinality(s) \in Nat /\ Cardinality(t) = Cardinality(s) - 1
        BY <1>1, <3>2, MaxTaken
      <4>2. Cardinality(t) <= k-1
        BY <4>1, <2>2
      <4>3. g[t] = h[t]
        BY <4>1, <4>2
      <4> QED  BY <3>1, <3>2, <4>3
    <3> QED  BY <3>1, <3>2
  <2>3. FillsTo(g, k)
    BY <2>2
  <2> HIDE DEF g, FillsTo, n
  <2> QED  BY <2>3
<1>5. n \in Reached
  <2> HIDE DEF Reached, n
  <2> QED  BY <1>1, <1>3, <1>4, LoopInduction
<1>6. PICK h : FillsTo(h, n)
  BY <1>5
<1> DEFINE g == [s \in SUBSET S |-> h[s]]
<1>7. \A s \in SUBSET S : h[s] = Then(h, s)
  <2> HIDE DEF S, n, Then
  <2> QED  BY <1>1, <1>2, <1>6
<1>8. Fills(g, q, es)
  <2>1. ASSUME NEW s \in SUBSET S PROVE Then(h, s) = Then(g, s)
    <3>1. s # {} => s \ {Max(s)} \in SUBSET S
      OBVIOUS
    <3> QED  BY <3>1
  <2>2. g = [s \in SUBSET S |-> Then(g, s)]
    <3>1. g = [s \in SUBSET S |-> h[s]]
      OBVIOUS
    <3> HIDE DEF Then, S, g
    <3> QED  BY <3>1, <1>7, <2>1
  <2> HIDE DEF g
  <2> QED  BY <1>1, <2>2 DEF Fills
<1> QED  BY <1>8

\* A queue takes events that are new to it and its client at most once.
LEMMA FoldTakes ==
    ASSUME NEW r \in EventList, NEW es \in EventList, NEW q \in QueueRow,
           Distinct(es), Distinct(r \o q.events),
           ToSet(es) \cap (ToSet(r) \cup ToSet(q.events)) = {}
    PROVE  Takes(FoldLeft(Put, q, es), q, r, es, Len(es))
<1> DEFINE g == CHOOSE g : Fills(g, q, es)
           n == Len(es)
           Good == {k \in 0 .. n : Takes(g[1 .. k], q, r, es, k)}
<1>1. n \in Nat /\ DOMAIN es = 1 .. n
  BY DEF EventList
<1>2. FoldLeft(Put, q, es) = g[1 .. n]
  BY <1>1 DEF FoldLeft, MapThenFoldSet, Fills
<1>3. Fills(g, q, es)
  BY FillsExist
<1> HIDE DEF g
<1>4. \A s \in SUBSET (1 .. n) :
         g[s] = IF s = {} THEN q ELSE Put(g[s \ {Max(s)}], es[Max(s)])
  BY <1>1, <1>3 DEF Fills
<1>5. 0 \in Good
  <2>1. g[{}] = q /\ 1 .. 0 = {}
    <3>1. {} \in SUBSET (1 .. n) /\ 1 .. 0 = {}
      OBVIOUS
    <3> QED  BY <1>4, <3>1
  <2>2. Takes(q, q, r, es, 0)
    BY DEF Takes
  <2> QED  BY <1>1, <2>1, <2>2
<1>6. ASSUME NEW k \in 1 .. n, k-1 \in Good
      PROVE  k \in Good
  <2>1. Max(1 .. k) = k
    <3>1. Max(1 .. k) \in 1 .. k /\ \A y \in 1 .. k : Max(1 .. k) >= y
      <4>1. \E x \in 1 .. k : \A y \in 1 .. k : x >= y
        BY <1>1
      <4> QED  BY <4>1 DEF Max
    <3> QED  BY <3>1, <1>1
  <2>2. (1 .. k) \ {k} = 1 .. (k-1) /\ 1 .. k # {} /\ 1 .. k \in SUBSET (1 .. n) /\ k \in 0 .. n
    <3> HIDE DEF n
    <3> QED  BY <1>1
  <2>3. g[1 .. k] = Put(g[1 .. (k-1)], es[k])
    BY <1>4, <2>1, <2>2
  <2>4. Takes(g[1 .. (k-1)], q, r, es, k-1)
    BY <1>6
  <2>5. PICK last : last = g[1 .. (k-1)] /\ Takes(last, q, r, es, k-1)
    BY <2>4
  <2>6. Takes(Put(last, es[k]), q, r, es, k)
    <3> HIDE DEF Good
    <3> QED  BY <2>5, PutTakes
  <2> QED  BY <2>2, <2>3, <2>5, <2>6
<1>7. n \in Good
  <2> HIDE DEF Good, n
  <2> QED  BY <1>1, <1>5, <1>6, LoopInduction
<1> QED  BY <1>2, <1>7

(***************************************************************************)
(* No client has got or has waiting an event twice, and it has none that   *)
(* was not handed out; what waits in a session has been handed out by no   *)
(* hook and waits in no other session, and no session keeps it twice.      *)
(***************************************************************************)
Waiting(s) == ToSet(session[s].pending)

SeenInv ==
    /\ queue \in [Clients -> QueueRow]
    /\ received \in [Clients -> EventList]
    /\ published \subseteq 1 .. events
    /\ \A c \in Clients : /\ Distinct(received[c] \o queue[c].events)
                          /\ ToSet(received[c]) \cup ToSet(queue[c].events) \subseteq published
    /\ \A s \in Sessions : /\ Distinct(session[s].pending)
                           /\ Waiting(s) \subseteq (1 .. events) \ published
    /\ \A s, q \in Sessions : s # q => Waiting(s) \cap Waiting(q) = {}

\* The queues take the events D, which are handed out with this step.
HandsOut(D) ==
    /\ queue' \in [Clients -> QueueRow]
    /\ published' = published \cup D
    /\ \A c \in Clients : /\ Distinct(received[c] \o queue'[c].events)
                          /\ ToSet(queue'[c].events) \subseteq published'

LEMMA PublishHandsOut ==
    ASSUME SeenInv, NEW es \in EventList, Distinct(es), ToSet(es) \cap published = {}, Publish(es)
    PROVE  HandsOut(ToSet(es))
<1>1. /\ queue' = [c \in Clients |-> FoldLeft(Put, queue[c], es)]
      /\ published' = published \cup ToSet(es)
  BY DEF Publish
<1>2. Len(es) \in Nat /\ \A i \in 1 .. Len(es) : es[i] \in ToSet(es)
  BY DEF EventList, ToSet
<1>3. ASSUME NEW c \in Clients
      PROVE  /\ queue'[c] \in QueueRow
             /\ Distinct(received[c] \o queue'[c].events)
             /\ ToSet(queue'[c].events) \subseteq published'
  <2>1. PICK q \in QueueRow, r \in EventList : q = queue[c] /\ r = received[c]
    BY DEF SeenInv
  <2>2. /\ Distinct(r \o q.events)
        /\ ToSet(es) \cap (ToSet(r) \cup ToSet(q.events)) = {}
        /\ ToSet(q.events) \subseteq published
    BY <2>1 DEF SeenInv
  <2>3. Takes(FoldLeft(Put, q, es), q, r, es, Len(es))
    BY <2>1, <2>2, FoldTakes
  <2>4. PICK new : new = queue'[c] /\ Takes(new, q, r, es, Len(es))
    BY <1>1, <2>1, <2>3
  <2>5. new \in QueueRow /\ Distinct(r \o new.events)
    BY <2>4 DEF Takes
  <2>6. ToSet(new.events) \subseteq published \cup ToSet(es)
    BY <1>2, <2>2, <2>4 DEF Takes
  <2> QED  BY <1>1, <2>1, <2>4, <2>5, <2>6
<1>4. queue' \in [Clients -> QueueRow]
  <2>1. PICK g : queue' = [c \in Clients |-> g[c]]
    <3> DEFINE h == [c \in Clients |-> FoldLeft(Put, queue[c], es)]
    <3>1. h = [c \in Clients |-> h[c]]
      OBVIOUS
    <3>2. queue' = h
      BY <1>1
    <3> HIDE DEF h
    <3> QED  BY <3>1, <3>2
  <2> QED  BY <1>3, <2>1
<1> QED  BY <1>1, <1>3, <1>4 DEF HandsOut

\* A step that hands out nothing.
LEMMA NoneHandedOut ==
    ASSUME SeenInv, UNCHANGED <<queue, published>>
    PROVE  HandsOut({})
BY DEF SeenInv, HandsOut

\* A session hands out some of what waits in it and of what is new, and keeps some.
LEMMA SessionSees ==
    ASSUME IInv, SeenInv, NEW s \in Sessions, NEW D, NEW state \in SessionState,
           HandsOut(D), session' = [session EXCEPT ![s] = state], received' = received,
           events' \in Nat, events <= events',
           D \cup ToSet(state.pending) \subseteq Waiting(s) \cup ((events + 1) .. events'),
           Distinct(state.pending), D \cap ToSet(state.pending) = {}
    PROVE  SeenInv'
<1>1. /\ published \subseteq 1 .. events /\ Waiting(s) \subseteq (1 .. events) \ published
      /\ events \in Nat
  BY DEF IInv, SeenInv
<1>2. /\ 1 .. events \subseteq 1 .. events'
      /\ (events + 1) .. events' \subseteq (1 .. events') \ (1 .. events)
  BY <1>1
<1>3. published' = published \cup D /\ published' \subseteq 1 .. events'
  BY <1>1, <1>2 DEF HandsOut
<1>4. ASSUME NEW q \in Sessions
      PROVE  Waiting(q)' = IF q = s THEN ToSet(state.pending) ELSE Waiting(q)
  <2>1. session'[q] = IF q = s THEN state ELSE session[q]
    BY DEF IInv
  <2> QED  BY <2>1 DEF Waiting
<1>5. ASSUME NEW q \in Sessions
      PROVE  Distinct(session'[q].pending) /\ Waiting(q)' \subseteq (1 .. events') \ published'
  <2>1. CASE q = s
    <3>1. session'[q] = state
      BY <2>1 DEF IInv
    <3>2. ToSet(state.pending) \subseteq (1 .. events') \ published'
      BY <1>1, <1>2, <1>3
    <3> QED  BY <2>1, <3>1, <3>2, <1>4
  <2>2. CASE q # s
    <3>1. session'[q] = session[q]
      BY <2>2 DEF IInv
    <3>2. Waiting(q) \cap Waiting(s) = {} /\ Waiting(q) \subseteq (1 .. events) \ published
          /\ Distinct(session[q].pending)
      BY <2>2 DEF SeenInv
    <3>3. Waiting(q) \subseteq (1 .. events') \ published'
      BY <1>2, <1>3, <3>2
    <3> QED  BY <2>2, <3>1, <3>2, <3>3, <1>4
  <2> QED  BY <2>1, <2>2
<1>6. ASSUME NEW q \in Sessions, q # s PROVE Waiting(q) \cap ToSet(state.pending) = {}
  <2>1. Waiting(q) \cap Waiting(s) = {} /\ Waiting(q) \subseteq 1 .. events
    BY <1>6 DEF SeenInv
  <2> QED  BY <1>2, <2>1
<1>7. ASSUME NEW p \in Sessions, NEW q \in Sessions, p # q
      PROVE  Waiting(p)' \cap Waiting(q)' = {}
  <2>1. Waiting(p) \cap Waiting(q) = {}
    BY <1>7 DEF SeenInv
  <2> QED  BY <1>4, <1>6, <1>7, <2>1
<1>8. ASSUME NEW c \in Clients
      PROVE  /\ Distinct(received'[c] \o queue'[c].events)
             /\ ToSet(received'[c]) \cup ToSet(queue'[c].events) \subseteq published'
  BY <1>3 DEF SeenInv, HandsOut
<1>9. queue' \in [Clients -> QueueRow] /\ received' \in [Clients -> EventList]
  BY DEF SeenInv, HandsOut
<1> QED  BY <1>3, <1>5, <1>7, <1>8, <1>9 DEF SeenInv

\* A session that commits, and with that hands out all it has.
LEMMA CommitSees ==
    ASSUME IInv, SeenInv, NEW s \in Sessions, NEW state \in SessionState, Commits(s, state),
           Distinct(state.pending), events' \in Nat, events <= events',
           ToSet(state.pending) \subseteq Waiting(s) \cup ((events + 1) .. events')
    PROVE  SeenInv'
<1> DEFINE new == [AfterHook(state) EXCEPT !.rows = <<>>]
<1>1. new \in SessionState /\ new.pending = <<>>
  BY HookEmpties
<1>2. /\ Publish(state.pending) /\ session' = [session EXCEPT ![s] = new]
      /\ received' = received
  BY DEF Commits
<1> HIDE DEF new
<1>3. ToSet(state.pending) \cap published = {}
  <2>1. events \in Nat /\ published \subseteq 1 .. events /\ Waiting(s) \cap published = {}
    BY DEF IInv, SeenInv
  <2>2. ((events + 1) .. events') \cap (1 .. events) = {}
    BY <2>1
  <2> QED  BY <2>1, <2>2
<1>4. HandsOut(ToSet(state.pending))
  BY <1>2, <1>3, SessionFields, PublishHandsOut
<1>5. ToSet(new.pending) = {} /\ Distinct(new.pending)
  BY <1>1, Members DEF Distinct
<1> QED  BY <1>1, <1>2, <1>4, <1>5, SessionSees

\* A session's pending events before an event that is new.
LEMMA WaitingGrows ==
    ASSUME IInv, SeenInv, NEW s \in Sessions, NEW x \in Nat, x = New
    PROVE  /\ session[s] \in SessionState
           /\ session[s].pending \in EventList /\ Distinct(session[s].pending)
           /\ x \notin Waiting(s)
           /\ Append(session[s].pending, x) \in EventList
           /\ Distinct(Append(session[s].pending, x))
           /\ ToSet(Append(session[s].pending, x)) = Waiting(s) \cup {x}
<1>1. PICK state \in SessionState : state = session[s]
  BY DEF IInv
<1>2. PICK w \in EventList : w = state.pending
  BY SessionFields
<1>3. Distinct(w) /\ ToSet(w) = Waiting(s) /\ x \notin ToSet(w)
  <2>1. events \in Nat /\ Waiting(s) \subseteq 1 .. events /\ Distinct(session[s].pending)
    BY DEF IInv, SeenInv
  <2>2. x \notin 1 .. events
    BY <2>1 DEF New
  <2> QED  BY <1>1, <1>2, <2>1, <2>2 DEF Waiting
<1>4. /\ Append(w, x) \in EventList /\ ToSet(Append(w, x)) = ToSet(w) \cup {x}
      /\ Distinct(Append(w, x))
  BY <1>2, <1>3, Members, DistinctGrows
<1> QED  BY <1>1, <1>2, <1>3, <1>4

LEMMA SeenStep == IInv /\ SeenInv /\ [Next]_vars => SeenInv'
<1> SUFFICES ASSUME IInv, SeenInv, [Next]_vars PROVE SeenInv'
  OBVIOUS
<1>1. /\ events \in Nat /\ New \in Nat /\ New = events + 1
      /\ (events + 1) .. New = {New}
      /\ \A s \in Sessions : session[s] \in SessionState
  BY DEF IInv, New
<1>2. Counts => events' = New /\ events' \in Nat /\ events <= events'
  BY <1>1 DEF Counts
<1>3. ASSUME NEW s \in Sessions, RequestPublishes(s) PROVE SeenInv'
  <2>1. PICK old \in SessionState, x \in Nat : old = session[s] /\ x = New
    BY <1>1
  <2>2. PICK new \in SessionState : new = Published(old, x) /\ new.pending = Append(old.pending, x)
    BY <2>1, PublishedState
  <2>3. /\ session' = [session EXCEPT ![s] = new] /\ received' = received
        /\ UNCHANGED <<queue, published>> /\ Counts
    BY <1>3, <2>1, <2>2 DEF RequestPublishes, IInv
  <2>4. HandsOut({})
    BY <2>3, NoneHandedOut
  <2>5. Distinct(new.pending) /\ ToSet(new.pending) = Waiting(s) \cup {x}
    BY <2>1, <2>2, WaitingGrows
  <2> QED  BY <1>1, <1>2, <2>1, <2>3, <2>4, <2>5, SessionSees
<1>4. ASSUME NEW s \in Sessions, RequestCommits(s) PROVE SeenInv'
  <2>1. Commits(s, session[s]) /\ events' = events
    BY <1>4 DEF RequestCommits
  <2>2. Distinct(session[s].pending) /\ ToSet(session[s].pending) = Waiting(s)
    BY DEF SeenInv, Waiting
  <2> QED  BY <1>1, <2>1, <2>2, CommitSees
<1>5. ASSUME NEW s \in Sessions, InjectionEnds(s) PROVE SeenInv'
  <2>1. PICK old \in SessionState, x \in Nat : old = session[s] /\ x = New
    BY <1>1
  <2>2. PICK half \in SessionState : half = Published(old, x) /\ half.pending = Append(old.pending, x)
    BY <2>1, PublishedState
  <2> DEFINE state == [half EXCEPT !.webhooks = 0]
  <2>3. state \in SessionState /\ state.pending = half.pending
    <3>1. state = [rows |-> half.rows, pending |-> half.pending, webhooks |-> 0]
      BY SessionFields
    <3>2. state \in SessionState
      BY <3>1, SessionFields DEF SessionState
    <3> QED  BY <3>1, <3>2
  <2>4. Commits(s, state) /\ Counts
    BY <1>5, <2>1, <2>2 DEF InjectionEnds
  <2>5. Distinct(half.pending) /\ ToSet(half.pending) = Waiting(s) \cup {x}
    BY <2>1, <2>2, WaitingGrows
  <2> HIDE DEF state
  <2> QED  BY <1>1, <1>2, <2>1, <2>3, <2>4, <2>5, CommitSees
<1>6. ASSUME NEW s \in Sessions, Inject(s) PROVE SeenInv'
  <2>1. PICK old \in SessionState, x \in Nat : old = session[s] /\ x = New
    BY <1>1
  <2>2. PICK hooked \in SessionState : hooked = AfterHook(old) /\ hooked.pending = <<>>
    BY <2>1, HookEmpties
  <2>3. PICK half \in SessionState : half = Published(hooked, x) /\ half.pending = Append(<<>>, x)
    BY <2>2, PublishedState
  <2> DEFINE taken == [half EXCEPT !.webhooks = @ + 1]
             all   == [taken EXCEPT !.pending = old.pending \o @]
  <2>4. taken \in SessionState /\ taken.pending = Append(<<>>, x)
    <3>1. taken = [rows |-> half.rows, pending |-> half.pending, webhooks |-> half.webhooks + 1]
      BY SessionFields
    <3>2. half.webhooks + 1 \in Nat
      BY SessionFields
    <3> QED  BY <2>3, <3>1, <3>2, SessionFields DEF SessionState
  <2>5. /\ Distinct(Append(old.pending, x)) /\ Append(old.pending, x) \in EventList
        /\ ToSet(Append(old.pending, x)) = Waiting(s) \cup {x}
        /\ Distinct(old.pending) /\ old.pending \in EventList
        /\ ToSet(old.pending) = Waiting(s) /\ x \notin Waiting(s)
    BY <2>1, WaitingGrows DEF Waiting
  <2>6. all \in SessionState /\ all.pending = Append(old.pending, x)
    <3> HIDE DEF taken
    <3>1. old.pending \o Append(<<>>, x) = Append(old.pending, x)
      BY <2>5 DEF EventList
    <3>2. all = [rows |-> taken.rows, pending |-> old.pending \o taken.pending,
                 webhooks |-> taken.webhooks]
      BY <2>4, SessionFields
    <3>3. all.pending = Append(old.pending, x)
      BY <2>4, <3>1, <3>2
    <3> QED  BY <2>4, <2>5, <3>2, <3>3, SessionFields DEF SessionState
  <2>7. /\ Counts
        /\ \/ Commits(s, all)
           \/ /\ Publish(old.pending) /\ session' = [session EXCEPT ![s] = taken]
              /\ received' = received
    BY <1>6, <2>1, <2>2, <2>3 DEF Inject
  <2>8. CASE Commits(s, all)
    <3> HIDE DEF all
    <3> QED  BY <1>1, <1>2, <2>1, <2>5, <2>6, <2>7, <2>8, CommitSees
  <2>9. CASE /\ Publish(old.pending) /\ session' = [session EXCEPT ![s] = taken]
             /\ received' = received
    <3> HIDE DEF all, taken
    <3>1. ToSet(old.pending) \cap published = {}
      BY <2>5 DEF SeenInv
    <3>2. HandsOut(ToSet(old.pending))
      BY <2>5, <2>9, <3>1, PublishHandsOut
    <3>3. Distinct(taken.pending) /\ ToSet(taken.pending) = {x}
      <4>1. x \notin ToSet(<<>>) /\ Distinct(<<>>) /\ <<>> \in EventList
        BY Members DEF Distinct
      <4>2. Distinct(Append(<<>>, x)) /\ ToSet(Append(<<>>, x)) = ToSet(<<>>) \cup {x}
        BY <2>1, <4>1, DistinctGrows, Members
      <4> QED  BY <2>4, <4>2, Members
    <3>4. /\ ToSet(old.pending) \cup ToSet(taken.pending)
                \subseteq Waiting(s) \cup ((events + 1) .. events')
          /\ ToSet(old.pending) \cap ToSet(taken.pending) = {}
      BY <1>1, <1>2, <2>1, <2>5, <2>7, <3>3
    <3> QED  BY <1>2, <2>4, <2>7, <2>9, <3>2, <3>3, <3>4, SessionSees
  <2> QED  BY <2>7, <2>8, <2>9
<1>7. ASSUME NEW s \in Sessions, RollsBack(s) PROVE SeenInv'
  <2>1. PICK state \in SessionState : /\ state = [AfterHook(session[s]) EXCEPT !.rows = <<>>]
                                     /\ state.pending = <<>>
    <3>1. PICK old \in SessionState : old = session[s]
      BY <1>1
    <3> DEFINE new == [AfterHook(old) EXCEPT !.rows = <<>>]
    <3>2. new \in SessionState /\ new.pending = <<>>
      BY HookEmpties
    <3> QED  BY <3>1, <3>2
  <2>2. /\ session' = [session EXCEPT ![s] = state] /\ received' = received
        /\ UNCHANGED <<queue, published>> /\ events' = events
    BY <1>7, <2>1 DEF RollsBack, IInv
  <2>3. Distinct(<<>>) /\ ToSet(<<>>) = {}
    BY Members DEF Distinct
  <2>4. HandsOut({})
    BY <2>2, NoneHandedOut
  <2>5. events' \in Nat /\ events <= events'
    BY <1>1, <2>2
  <2> QED  BY <2>1, <2>2, <2>3, <2>4, <2>5, SessionSees
<1>8. ASSUME NEW c \in Clients, Subscribe(c) \/ Unsubscribe(c) PROVE SeenInv'
  <2>1. PICK on \in BOOLEAN : queue' = [queue EXCEPT ![c] = [on |-> on, events |-> <<>>]]
    BY <1>8 DEF Subscribe, Unsubscribe
  <2>2. UNCHANGED <<session, received, published, events>>
    BY <1>8 DEF Subscribe, Unsubscribe
  <2>3. [on |-> on, events |-> <<>>] \in QueueRow
    BY Members DEF QueueRow
  <2>4. queue' \in [Clients -> QueueRow]
    BY <2>1, <2>3 DEF SeenInv
  <2>5. ASSUME NEW d \in Clients
        PROVE  /\ Distinct(received[d] \o queue'[d].events)
               /\ ToSet(received[d]) \cup ToSet(queue'[d].events) \subseteq published
    <3>1. CASE d # c
      BY <2>1, <3>1 DEF SeenInv
    <3>2. CASE d = c
      <4>1. PICK r \in EventList, w \in EventList : r = received[c] /\ w = queue[c].events
        BY DEF SeenInv, QueueRow
      <4>2. Distinct(r) /\ r \o <<>> = r /\ ToSet(r) \subseteq published
        BY <4>1, GotMoves DEF SeenInv
      <4>3. queue'[d].events = <<>>
        BY <2>1, <3>2 DEF SeenInv
      <4> QED  BY <3>2, <4>1, <4>2, <4>3, Members
    <3> QED  BY <3>1, <3>2
  <2> QED  BY <2>2, <2>4, <2>5 DEF SeenInv, Waiting
<1>9. ASSUME NEW c \in Clients, Receive(c) PROVE SeenInv'
  <2>1. PICK r \in EventList, q \in QueueRow : r = received[c] /\ q = queue[c]
    BY DEF SeenInv
  <2>2. q.events \in EventList /\ q.events # <<>>
    BY <1>9, <2>1 DEF Receive, QueueRow
  <2>3. /\ Tail(q.events) \in EventList /\ Append(r, Head(q.events)) \in EventList
        /\ Append(r, Head(q.events)) \o Tail(q.events) = r \o q.events
    <3>1. PICK w \in EventList : w = q.events /\ w # <<>>
      BY <2>2
    <3> QED  BY <3>1, HeadMoves
  <2>4. /\ received' = [received EXCEPT ![c] = Append(r, Head(q.events))]
        /\ queue' = [queue EXCEPT ![c] = [q EXCEPT !.events = Tail(q.events)]]
        /\ UNCHANGED <<session, published, events>>
    BY <1>9, <2>1 DEF Receive, SeenInv
  <2>5. /\ [q EXCEPT !.events = Tail(q.events)] \in QueueRow
        /\ [q EXCEPT !.events = Tail(q.events)].events = Tail(q.events)
    BY <2>1, <2>3 DEF QueueRow
  <2>6. queue' \in [Clients -> QueueRow] /\ received' \in [Clients -> EventList]
    BY <2>3, <2>4, <2>5 DEF SeenInv
  <2>7. ToSet(Append(r, Head(q.events))) \cup ToSet(Tail(q.events)) \subseteq published
    <3>1. ToSet(Append(r, Head(q.events))) \cup ToSet(Tail(q.events)) = ToSet(r \o q.events)
      BY <2>3, Members
    <3>2. ToSet(r \o q.events) = ToSet(r) \cup ToSet(q.events)
      BY <2>1, <2>2, Members
    <3> QED  BY <2>1, <3>1, <3>2 DEF SeenInv
  <2>8. ASSUME NEW d \in Clients
        PROVE  /\ Distinct(received'[d] \o queue'[d].events)
               /\ ToSet(received'[d]) \cup ToSet(queue'[d].events) \subseteq published
    <3>1. CASE d # c
      BY <2>4, <3>1 DEF SeenInv
    <3>2. CASE d = c
      <4>1. received'[d] = Append(r, Head(q.events)) /\ queue'[d].events = Tail(q.events)
        BY <2>4, <2>5, <3>2 DEF SeenInv
      <4>2. Distinct(r \o q.events)
        BY <2>1 DEF SeenInv
      <4> QED  BY <2>3, <2>7, <4>1, <4>2
    <3> QED  BY <3>1, <3>2
  <2> QED  BY <2>4, <2>6, <2>8 DEF SeenInv, Waiting
<1>10. CASE UNCHANGED <<session, queue, received, published, events>>
  BY <1>10 DEF SeenInv, Waiting
<1> QED  BY <1>3, <1>4, <1>5, <1>6, <1>7, <1>8, <1>9, <1>10
         DEF Next, DispatchOutbox, vars

(***************************************************************************)
(* No client sees an event twice, whatever the hooks of savepoints,        *)
(* commits, rollbacks and batches hand out and in whatever order, and      *)
(* however clients come and go and lose what they have no room for.        *)
(***************************************************************************)
THEOREM NobodySeesTwice == Spec => []SeenOnce
<1>1. Init => SeenInv
  <2> SUFFICES ASSUME Init PROVE SeenInv
    OBVIOUS
  <2>1. <<>> \in EventList /\ ToSet(<<>>) = {} /\ Distinct(<<>>) /\ <<>> \o <<>> = <<>>
    BY Members DEF Distinct
  <2>2. [on |-> FALSE, events |-> <<>>] \in QueueRow
    BY <2>1 DEF QueueRow
  <2>3. \A s \in Sessions : session[s].pending = <<>>
    BY DEF Init, Fresh
  <2> QED  BY <2>1, <2>2, <2>3 DEF Init, SeenInv, Waiting
<1>2. SeenInv => SeenOnce
  <2> SUFFICES ASSUME SeenInv, NEW c \in Clients
               PROVE  \A i, j \in DOMAIN (received[c] \o queue[c].events) : i < j =>
                         (received[c] \o queue[c].events)[i] # (received[c] \o queue[c].events)[j]
    BY DEF SeenOnce
  <2>1. PICK r \in EventList, w \in EventList : r = received[c] /\ w = queue[c].events
    BY DEF SeenInv, QueueRow
  <2>2. PICK got \in EventList : got = r \o w
    BY <2>1, Members
  <2>3. Distinct(got) /\ DOMAIN got = 1 .. Len(got)
    BY <2>1, <2>2 DEF SeenInv, EventList
  <2> QED  BY <2>1, <2>2, <2>3 DEF Distinct
<1> QED  BY <1>1, <1>2, SeenStep, StreamInductive, PTL DEF Spec
=============================================================================
