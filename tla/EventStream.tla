----------------------------- MODULE EventStream -----------------------------
(***************************************************************************)
(* The outbox and the live event stream: services/bus.py, routers/stream.py*)
(* and the requests that publish - routers/incidents.py, routers/models.py,*)
(* which publish and commit, and routers/chaos.py, which takes many        *)
(* webhooks in one transaction - and the worker's dispatch_outbox.         *)
(*                                                                         *)
(* publish_outbox adds a row and keeps the event with the session; the     *)
(* hook after_commit hands it to the queues of the clients.  SQLAlchemy    *)
(* calls that hook also when a savepoint is released, and after_rollback   *)
(* also when one is rolled back: the hooks know no difference.             *)
(*                                                                         *)
(* The stream of one organization; payloads are the events' numbers.  A    *)
(* commit and its hook are one step.                                       *)
(***************************************************************************)
EXTENDS Naturals, Sequences, SequencesExt, FiniteSets

CONSTANTS
    Requests,       \* sessions of requests that publish and commit
    Injections,     \* sessions of chaos injections
    Clients,
    Batch,          \* webhooks an injection commits together: 250
    QueueSize,      \* events a slow client may have waiting: 200
    DispatchLimit,  \* rows a tick of the worker marks: 200
    Webhooks,       \* bound on the webhooks of an injection
    MaxEvents       \* bound on the events published

ASSUME StreamAssumption ==
    /\ Batch \in Nat \ {0} /\ QueueSize \in Nat /\ DispatchLimit \in Nat \ {0}
    /\ Webhooks \in Nat /\ MaxEvents \in Nat /\ Requests \cap Injections = {}

VARIABLES
    session,    \* each session: its new rows, its pending events, its webhooks
    outbox,     \* the committed outbox rows, in the order of their creation
    queue,      \* the queues of the clients that are subscribed
    received,   \* what each client has got
    published,  \* history: the events handed to the bus
    undone,     \* history: the events whose transaction was rolled back
    events      \* how many have been published

vars == <<session, outbox, queue, received, published, undone, events>>

Sessions == Requests \cup Injections

Fresh == [rows |-> <<>>, pending |-> <<>>, webhooks |-> 0]

\* An outbox row.
Row(e) == [event |-> e, dispatched |-> FALSE]

Init ==
    /\ session = [s \in Sessions |-> Fresh]
    /\ outbox = <<>>
    /\ queue = [c \in Clients |-> [on |-> FALSE, events |-> <<>>]]
    /\ received = [c \in Clients |-> <<>>]
    /\ published = {}
    /\ undone = {}
    /\ events = 0

------------------------------------------------------------------------------
(* The bus.                                                                *)

\* put_nowait: an event for which a queue has no room is dropped.
Put(q, e) == IF q.on /\ Len(q.events) < QueueSize THEN [q EXCEPT !.events = Append(@, e)] ELSE q

Publish(es) ==
    /\ queue' = [c \in Clients |-> FoldLeft(Put, queue[c], es)]
    /\ published' = published \cup ToSet(es)

\* A plausible bug: only the last event of a session is kept.
Pending_Last(es, e) == <<e>>

\* What a session keeps until the hook.
Pending(es, e) == Append(es, e)

\* publish_outbox in a session: the row is part of its transaction.
Published(s, e) == [s EXCEPT !.rows = Append(@, e), !.pending = Pending(@, e)]

\* A plausible bug: the events stay with the session.
AfterHook_Kept(s) == s

AfterHook(s) == [s EXCEPT !.pending = <<>>]

------------------------------------------------------------------------------
(* The sessions.                                                           *)

Counts == /\ events < MaxEvents
          /\ events' = events + 1

New == events + 1

\* A request publishes what it has done; it may publish more than once.
RequestPublishes(s) ==
    /\ s \in Requests
    /\ Counts
    /\ session' = [session EXCEPT ![s] = Published(@, New)]
    /\ UNCHANGED <<outbox, queue, received, published, undone>>

\* The transaction of a session ends, and what was pending goes out.
Commits(s, state) ==
    /\ outbox' = outbox \o [i \in 1 .. Len(state.rows) |-> Row(state.rows[i])]
    /\ Publish(state.pending)
    /\ session' = [session EXCEPT ![s] = [AfterHook(state) EXCEPT !.rows = <<>>]]
    /\ UNCHANGED <<received, undone>>

RequestCommits(s) ==
    /\ s \in Requests
    /\ session[s].rows # <<>>
    /\ Commits(s, session[s])
    /\ UNCHANGED events

\* A webhook of an injection is accepted and materialized: the savepoint of its
\* inbox row is released, which hands out what is pending, and then its own event
\* is published.  Every so many the injection commits.
Inject(s) ==
    LET released == AfterHook(session[s])
        taken    == [Published(released, New) EXCEPT !.webhooks = @ + 1]
    IN  /\ s \in Injections
        /\ session[s].webhooks < Webhooks
        /\ Counts
        /\ IF taken.webhooks % Batch = 0
           THEN Commits(s, [taken EXCEPT !.pending = session[s].pending \o @])
           ELSE /\ Publish(session[s].pending)
                /\ session' = [session EXCEPT ![s] = taken]
                /\ UNCHANGED <<outbox, received, undone>>

\* The injection announces itself and is over.
InjectionEnds(s) ==
    /\ s \in Injections
    /\ session[s].webhooks > 0
    /\ Counts
    /\ Commits(s, [Published(session[s], New) EXCEPT !.webhooks = 0])

\* Everything the transaction of a session has written is undone: a request that
\* fails, or a webhook that loses the race for its inbox row, after which the
\* injection goes on with the next.
RollsBack(s) ==
    /\ session[s].rows # <<>>
    /\ undone' = undone \cup ToSet(session[s].rows)
    /\ session' = [session EXCEPT ![s] = [AfterHook(@) EXCEPT !.rows = <<>>]]
    /\ UNCHANGED <<outbox, queue, received, published, events>>

------------------------------------------------------------------------------
(* The clients and the worker.                                             *)

Subscribe(c) ==
    /\ ~queue[c].on
    /\ queue' = [queue EXCEPT ![c] = [on |-> TRUE, events |-> <<>>]]
    /\ UNCHANGED <<session, outbox, received, published, undone, events>>

Unsubscribe(c) ==
    /\ queue[c].on
    /\ queue' = [queue EXCEPT ![c] = [on |-> FALSE, events |-> <<>>]]
    /\ UNCHANGED <<session, outbox, received, published, undone, events>>

\* The generator of the stream yields the next event.
Receive(c) ==
    /\ queue[c].events # <<>>
    /\ received' = [received EXCEPT ![c] = Append(@, Head(queue[c].events))]
    /\ queue' = [queue EXCEPT ![c].events = Tail(@)]
    /\ UNCHANGED <<session, outbox, published, undone, events>>

\* A plausible bug: the oldest rows are taken, whether dispatched or not.
Undispatched_Any(rows) == DOMAIN rows

Undispatched(rows) == {i \in DOMAIN rows : ~rows[i].dispatched}

\* The worker marks the oldest rows that are not marked.
DispatchOutbox ==
    LET due == {i \in Undispatched(outbox) :
                   Cardinality({j \in Undispatched(outbox) : j < i}) < DispatchLimit}
    IN  /\ due # {}
        /\ outbox' = [i \in DOMAIN outbox |->
                        IF i \in due THEN [outbox[i] EXCEPT !.dispatched = TRUE] ELSE outbox[i]]
        /\ UNCHANGED <<session, queue, received, published, undone, events>>

------------------------------------------------------------------------------
Next ==
    \/ \E s \in Sessions : \/ RequestPublishes(s) \/ RequestCommits(s)
                           \/ Inject(s) \/ InjectionEnds(s)
                           \/ RollsBack(s)
    \/ \E c \in Clients : Subscribe(c) \/ Unsubscribe(c) \/ Receive(c)
    \/ DispatchOutbox

\* The worker ticks for ever and a stream's generator runs while its client reads.
Fairness == WF_vars(DispatchOutbox) /\ \A c \in Clients : WF_vars(Receive(c))

Spec == Init /\ [][Next]_vars /\ Fairness

------------------------------------------------------------------------------
\* No client sees an event twice: a session has several hooks - of savepoints, of
\* commits, of batches - and each hands out only what no other has, while clients
\* come and go and lose what they have no room for.
SeenOnce ==
    \A c \in Clients :
        LET got == received[c] \o queue[c].events
        IN  \A i, j \in DOMAIN got : i < j => got[i] # got[j]

\* Whatever is committed has been handed to the clients that listened: a commit
\* forgets none of the events of its session.
CommittedIsPublished == \A i \in DOMAIN outbox : outbox[i].event \in published

\* Every committed row is marked at last, however many there are and however the
\* worker's share of a tick is bounded.
OutboxDrains == \A e \in 1 .. MaxEvents :
    (\E i \in DOMAIN outbox : outbox[i].event = e)
        ~> (\E i \in DOMAIN outbox : outbox[i] = [event |-> e, dispatched |-> TRUE])

\* Clients never receive what was rolled back (bus.py).
NoPhantom == \A c \in Clients : undone \cap ToSet(received[c]) = {}

==============================================================================
