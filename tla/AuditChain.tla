------------------------------ MODULE AuditChain ------------------------------
(***************************************************************************)
(* The audit trail of one organization: services/audit.py.                 *)
(*                                                                         *)
(* Every service appends records to it inside its own transaction.  A      *)
(* record holds the hash of its predecessor, and a checkpoint (AuditHead)  *)
(* the hash of the last record and their number.  No lock orders the       *)
(* writers: the key UNIQUE(organization_id, prev_hash) does, and a writer  *)
(* that runs into it tries again, a bounded number of times.               *)
(*                                                                         *)
(* Transactions read what is committed and what they wrote themselves; an  *)
(* insertion waits for the transaction that holds an equal key.  A hash is *)
(* modelled by what it hashes, the payloads up to the record's own, so     *)
(* that no two records of different history share one.                     *)
(***************************************************************************)
EXTENDS Naturals, Sequences, FiniteSets

CONSTANTS
    Writers,            \* the transactions' processes, and their payloads
    LegacyPayload,      \* the payload of records older than the checkpoint
    Retries,            \* _MAX_APPEND_RETRIES
    MaxLegacy,          \* bound on the records that precede the checkpoint
    MaxAppends,         \* bound on the records of one transaction
    MaxTransactions,    \* bound on the transactions begun
    MaxDeletions        \* bound on the times that rows are deleted

ASSUME AuditAssumption ==
    /\ LegacyPayload \notin Writers
    /\ Retries \in Nat \ {0} /\ MaxAppends \in Nat \ {0}
    /\ MaxLegacy \in Nat /\ MaxTransactions \in Nat /\ MaxDeletions \in Nat

VARIABLES
    rows,       \* the committed audit_records
    head,       \* the committed audit_heads row, or NoHead
    nextSeq,    \* the next value of the seq column
    tx,         \* each writer's transaction
    begun,      \* how many transactions were begun
    deleted,    \* how often rows were deleted behind the program's back
    overtaken,  \* history: a deletion gave an append in flight its place back
    verifier    \* a run of verify_chain and its result

vars == <<rows, head, nextSeq, tx, begun, deleted, overtaken, verifier>>

Payloads  == Writers \cup {LegacyPayload}
Hash      == Seq(Payloads)
Record    == [seq : Nat, prev : Hash, hash : Hash]
AuditHead == [hash : Hash, count : Nat]
NoHead    == [hash |-> <<>>, count |-> 0]

\* A transaction: what it has inserted and not committed, and of the append in
\* progress the head it has read, the hash and count it builds on, the number
\* of its record and of its attempts.
IdleTx == [phase |-> "idle", added |-> {}, head |-> NoHead, known |-> NoHead,
           prev |-> <<>>, count |-> 0, seq |-> 0, tries |-> 0, done |-> 0]

LegacyHash(n) == [i \in 1 .. n |-> LegacyPayload]

LegacyRows(n) ==
    {[seq |-> i, prev |-> LegacyHash(i - 1), hash |-> LegacyHash(i)] : i \in 1 .. n}

Init ==
    \E n \in 0 .. MaxLegacy :
        /\ rows = LegacyRows(n)
        /\ head = NoHead
        /\ nextSeq = n + 1
        /\ tx = [w \in Writers |-> IdleTx]
        /\ begun = 0
        /\ deleted = 0
        /\ overtaken = FALSE
        /\ verifier = [phase |-> "idle", rows |-> {}, late |-> FALSE]

\* The last of a set of records, by seq, and what verify_chain makes of them.
TailHash(S) ==
    IF S = {} THEN <<>>
    ELSE (CHOOSE r \in S : \A q \in S : q.seq <= r.seq).hash

Linked(S) == \A r \in S : r.prev = TailHash({q \in S : q.seq < r.seq})

\* A plausible bug: the checkpoint's count is not compared with the records.
Verified_PrefixOnly(S, h) == Linked(S)

Verified(S, h) ==
    /\ Linked(S)
    /\ h.count > 0 => Cardinality(S) = h.count /\ TailHash(S) = h.hash

------------------------------------------------------------------------------
(* append_audit, in a transaction of its caller.                           *)

Others(w) == Writers \ {w}

\* The rows a transaction sees.
Visible(w) == rows \cup tx[w].added

Set(w, t) == tx' = [tx EXCEPT ![w] = t]

Begin(w) ==
    /\ tx[w].phase \in {"idle", "failed"}
    /\ begun < MaxTransactions
    /\ begun' = begun + 1
    /\ Set(w, [IdleTx EXCEPT !.phase = "ready"])
    /\ UNCHANGED <<rows, head, nextSeq, deleted, overtaken, verifier>>

\* The checkpoint a query returns: the transaction's own, or the one committed.
\* A retry finds the object it has loaded before in the session and does not
\* look at the row again.
QueriedHead(w) ==
    IF tx[w].known # NoHead THEN tx[w].known
    ELSE IF tx[w].head # NoHead THEN tx[w].head
    ELSE head

ReadHead(w) ==
    LET h == QueriedHead(w)
    IN  /\ tx[w].phase = "ready"
        /\ tx[w].done < MaxAppends
        /\ Set(w, [tx[w] EXCEPT !.known = h, !.prev = h.hash, !.count = h.count,
                                !.phase = IF h = NoHead THEN "tail" ELSE "number"])
        /\ UNCHANGED <<rows, head, nextSeq, begun, deleted, overtaken, verifier>>

\* No checkpoint yet: the last record and the number of records are adopted, by
\* two queries.
ReadTail(w) ==
    /\ tx[w].phase = "tail"
    /\ Set(w, [tx[w] EXCEPT !.prev = TailHash(Visible(w)), !.phase = "count"])
    /\ UNCHANGED <<rows, head, nextSeq, begun, deleted, overtaken, verifier>>

CountTail(w) ==
    /\ tx[w].phase = "count"
    /\ Set(w, [tx[w] EXCEPT !.count = Cardinality(Visible(w)), !.phase = "number"])
    /\ UNCHANGED <<rows, head, nextSeq, begun, deleted, overtaken, verifier>>

\* The insertion begins: it takes a number, before it may have to wait.
TakeNumber(w) ==
    /\ tx[w].phase = "number"
    /\ Set(w, [tx[w] EXCEPT !.seq = nextSeq, !.phase = "insert"])
    /\ nextSeq' = nextSeq + 1
    /\ UNCHANGED <<rows, head, begun, deleted, overtaken, verifier>>

\* A plausible bug: no unique key on (organization_id, prev_hash).
Claimed_NoKey(S, prev) == FALSE

Claimed(S, prev) == \E r \in S : r.prev = prev

\* A transaction between two attempts, or two appends: nothing is left of what the
\* last one has built.
Between(added, h, known, tries, done) ==
    [phase |-> "ready", added |-> added, head |-> h, known |-> known, prev |-> <<>>,
     count |-> 0, seq |-> 0, tries |-> tries, done |-> done]

\* A plausible bug: nothing is rolled back, and what was inserted stays locked.
Lose_NoRollback(w) ==
    Set(w, [tx[w] EXCEPT !.tries = (@ + 1) % Retries,
                         !.phase = IF tx[w].tries + 1 = Retries THEN "failed" ELSE "ready"])

\* The savepoint is rolled back and the attempt counted; after the last one the
\* exception ends the caller's transaction.
Lose(w) ==
    LET t == tx[w] IN
    Set(w, IF t.tries + 1 = Retries THEN [IdleTx EXCEPT !.phase = "failed"]
           ELSE Between({r \in t.added : r.seq # t.seq}, t.head, t.known, t.tries + 1, t.done))

\* The record is inserted once no other transaction holds its position.
Insert(w) ==
    LET t == tx[w] IN
    /\ t.phase = "insert"
    /\ \A v \in Others(w) : ~Claimed(tx[v].added, t.prev)
    /\ IF Claimed(Visible(w), t.prev) THEN Lose(w)
       ELSE Set(w, [t EXCEPT !.phase = "checkpoint",
                             !.added = @ \cup {[seq |-> t.seq, prev |-> t.prev,
                                                hash |-> Append(t.prev, w)]}])
    /\ UNCHANGED <<rows, head, nextSeq, begun, deleted, overtaken, verifier>>

\* A plausible bug: the count of the checkpoint is left to a later job.
NewHead_StaleCount(w) ==
    [hash |-> Append(tx[w].prev, w), count |-> IF tx[w].count = 0 THEN 1 ELSE tx[w].count]

NewHead(w) == [hash |-> Append(tx[w].prev, w), count |-> tx[w].count + 1]

\* The checkpoint is inserted or moved, once no other transaction holds it.
Checkpoint(w) ==
    LET t == tx[w] IN
    /\ t.phase = "checkpoint"
    /\ \A v \in Others(w) : tx[v].head = NoHead
    /\ IF t.known = NoHead /\ head # NoHead THEN Lose(w)
       ELSE Set(w, Between(t.added, NewHead(w), NoHead, 0, t.done + 1))
    /\ UNCHANGED <<rows, head, nextSeq, begun, deleted, overtaken, verifier>>

Commit(w) ==
    /\ tx[w].phase = "ready"
    /\ tx[w].done > 0
    /\ rows' = rows \cup tx[w].added
    /\ head' = tx[w].head
    /\ Set(w, IdleTx)
    /\ UNCHANGED <<nextSeq, begun, deleted, overtaken, verifier>>

\* The caller fails, or its process ends: the transaction is rolled back.
Abort(w) ==
    /\ tx[w].phase \notin {"idle", "failed"}
    /\ Set(w, IdleTx)
    /\ UNCHANGED <<rows, head, nextSeq, begun, deleted, overtaken, verifier>>

------------------------------------------------------------------------------
(* verify_chain, and what it is there to find.                             *)

\* A verification leaves nothing behind, so one at a time is enough.
VerifyRows ==
    /\ verifier.phase = "idle"
    /\ verifier' = [phase |-> "rows", rows |-> rows, late |-> deleted > 0]
    /\ UNCHANGED <<rows, head, nextSeq, tx, begun, deleted, overtaken>>

\* The checkpoint is read by a query of its own, after the records.  What is said
\* of records that were read before any deletion is not asked about.
VerifyHead ==
    /\ verifier.phase = "rows"
    /\ verifier' =
          [phase |-> IF ~verifier.late THEN "idle"
                     ELSE IF Verified(verifier.rows, head) THEN "intact" ELSE "broken",
           rows |-> {}, late |-> verifier.late]
    /\ UNCHANGED <<rows, head, nextSeq, tx, begun, deleted, overtaken>>

\* An append in flight goes by the hash of the checkpoint it has loaded.
Awaits(w, r) == tx[w].known # NoHead /\ r.prev = tx[w].known.hash

\* Records that the checkpoint covers disappear from the table, whatever is being
\* appended at the time.  With the record that has taken the place an append in
\* flight goes by, that place is free for it again.
DeleteRecords ==
    /\ deleted < MaxDeletions
    /\ head # NoHead
    /\ \E S \in (SUBSET rows) \ {{}} :
          /\ rows' = rows \ S
          /\ overtaken' = (overtaken \/ \E w \in Writers, r \in S : Awaits(w, r))
    /\ deleted' = deleted + 1
    /\ UNCHANGED <<head, nextSeq, tx, begun, verifier>>

WriterStep(w) ==
    \/ ReadHead(w)
    \/ ReadTail(w)
    \/ CountTail(w)
    \/ TakeNumber(w)
    \/ Insert(w)
    \/ Checkpoint(w)
    \/ Commit(w)

Next ==
    \/ \E w \in Writers : Begin(w) \/ WriterStep(w) \/ Abort(w)
    \/ VerifyRows \/ VerifyHead
    \/ DeleteRecords

Spec == Init /\ [][Next]_vars

\* A transaction that has begun goes on.
FairSpec == Spec /\ \A w \in Writers : WF_vars(WriterStep(w))

------------------------------------------------------------------------------
(* Properties.                                                             *)

\* Every variable holds values of its type.
TypeOK ==
    /\ rows \in SUBSET Record
    /\ head \in AuditHead
    /\ nextSeq \in Nat
    /\ tx \in [Writers ->
          [phase : {"idle", "ready", "tail", "count", "number", "insert",
                    "checkpoint", "failed"},
           added : SUBSET Record, head : AuditHead, known : AuditHead, prev : Hash,
           count : Nat, seq : Nat, tries : 0 .. Retries - 1, done : 0 .. MaxAppends]]
    /\ begun \in 0 .. MaxTransactions
    /\ deleted \in 0 .. MaxDeletions
    /\ overtaken \in BOOLEAN
    /\ verifier \in [phase : {"idle", "rows", "intact", "broken"},
                     rows : SUBSET Record, late : BOOLEAN]

\* Whatever the writers' interleaving, retries and aborts, the committed records
\* are one chain in the order of their numbers - no fork (the fork guard), and no
\* record that was numbered before its predecessor - and the checkpoint agrees
\* with them whenever there is one: its number and hash were computed from what
\* another transaction may have changed since, and no lock protects them (the
\* tail guard).
CheckpointAgrees == deleted = 0 => Verified(rows, head)

\* Once records that the checkpoint covers are deleted, whichever they are and
\* whatever is being appended, no verification begun after that finds the chain
\* intact, however much is appended later - unless the deletion overtook an
\* append: one that was in flight and lost its place to a deleted record has it
\* back, and its checkpoint replaces the one that would have told.
DeletionDetected == verifier.late /\ ~overtaken => verifier.phase # "intact"

\* What the module's comment promises of every deletion (audit.py): false of the
\* code, by the overtaken append.
EveryDeletionDetected == verifier.late => verifier.phase # "intact"

\* Every transaction that has begun ends: writers that wait for each other's keys
\* never wait for ever, and one that loses does not try for ever.
EveryTransactionEnds ==
    \A w \in Writers :
        tx[w].phase \notin {"idle", "failed"} ~> tx[w].phase \in {"idle", "failed"}

\* The trail as the promised log: what the checkpoint stands for.
Trail == IF head # NoHead THEN head.hash ELSE TailHash(rows)

Promise == INSTANCE AppendOnlyLog WITH
    log <- Trail, Entries <- Payloads, overwritten <- overtaken

\* The checkpointed trail only ever grows at its end, whatever the writers
\* interleave and whatever is deleted, until a deletion overtakes an append.
ImplementsAppendOnlyLog == Promise!Spec

\* "the loser retries against the winner's head" (audit.py): no append fails
\* when fewer transactions compete than it has attempts.
LoserSucceeds == \A w \in Writers : tx[w].phase # "failed"

==============================================================================
