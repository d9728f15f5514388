---------------------------- MODULE EvidenceProofs ----------------------------
(***************************************************************************)
(* Proofs about what the system keeps as evidence: AuditChain, for every   *)
(* set of writers, every number of attempts and every bound; the file of   *)
(* ReliabilityLab, for every set of processes and runs; and the verdict of *)
(* Shops on the correct shop and on those that lack a control, for every   *)
(* sequence of coherent events.                                            *)
(*   The trail: no lock orders its writers.  What keeps the records one    *)
(* chain is that a writer whose reading is out of date is refused: either  *)
(* the key it wants is taken, or it finds the checkpoint it was about to   *)
(* insert.  One whose reading is current holds the end of the chain until  *)
(* it commits.  A deletion can give a key that was taken back to a writer  *)
(* that wants it: from then on (overtaken) only the types are kept.        *)
(*   The file: the lock, which dies with its holder, and the replacement,  *)
(* which is one step, keep what was read of the file the whole of it.      *)
(*   The verdict: what the correct shop has done is always backed by what  *)
(* it was told, so that no invariant it is judged by can object.  A shop   *)
(* that lacks a control has had the same effects, counted the same, and    *)
(* used the mandate alike, until one effect that the correct shop refuses  *)
(* makes it a shop some invariant objects to for good.                     *)
(***************************************************************************)
EXTENDS AuditChain, ReliabilityLab, Shops, NatFacts

------------------------------------------------------------------------------
(* The trail.                                                              *)

\* What the checkpoint says, or would say if it were taken of these records.
NowOf(S, h) == IF h # NoHead THEN h ELSE [hash |-> TailHash(S), count |-> Cardinality(S)]

\* The same as a transaction sees it.
TipOf(t, S, h) == IF t.head # NoHead THEN t.head ELSE NowOf(S, h)

\* The records are one chain, which the checkpoint describes.
Chain(S, h) == Linked(S) /\ Cardinality(S) = h.count /\ TailHash(S) = h.hash

Extends(long, short) == Len(short) < Len(long) /\ SubSeq(long, 1, Len(short)) = short

\* The record that a transaction has inserted and not counted yet, and those it has.
Inserted(t, w) == [seq |-> t.seq, prev |-> t.prev, hash |-> Append(t.prev, w)]
Counted(t, w)  == IF t.phase = "checkpoint" THEN t.added \ {Inserted(t, w)} ELSE t.added

Resting   == {"idle", "failed"}
Adopting  == {"tail", "count"}
Placing   == {"number", "insert", "checkpoint"}
Appending == Adopting \cup Placing

\* What a transaction goes by is not out of date.
Current(t, S, h) ==
    IF t.known = NoHead THEN h = NoHead ELSE \A r \in S : r.prev # t.prev

TxRow == [phase : Resting \cup Appending \cup {"ready"},
          added : SUBSET Record, head : AuditHead, known : AuditHead, prev : Hash,
          count : Nat, seq : Nat, tries : 0 .. Retries - 1, done : 0 .. MaxAppends]

\* What is so of a writer's transaction t.
Shape(t, w, n) ==
    /\ t \in TxRow /\ IsFiniteSet(t.added)
    /\ t.phase \in Resting => t.added = {} /\ t.head = NoHead /\ t.known = NoHead
    /\ t.head = NoHead => Counted(t, w) = {} /\ t.done = 0
    /\ t.phase \in Adopting => t.known = NoHead
    /\ t.phase \in Appending => /\ t.done < MaxAppends
                                /\ t.known = NoHead => t.head = NoHead
    /\ t.phase \in Placing /\ t.known # NoHead => t.prev = t.known.hash
    /\ t.phase = "checkpoint" => Inserted(t, w) \in t.added
    /\ \A r \in t.added : r.seq < n
    /\ t.phase \in {"insert", "checkpoint"} => /\ t.seq < n
                                               /\ \A r \in Counted(t, w) : r.seq < t.seq

\* What it holds of the end of the chain.
Holds(t, w, S, h, d) ==
    t.head # NoHead =>
        /\ \E r \in Counted(t, w) : r.prev = NowOf(S, h).hash
        /\ Extends(t.head.hash, NowOf(S, h).hash)
        /\ t.head.count = NowOf(S, h).count + Cardinality(Counted(t, w))
        /\ d = 0 => Chain(S \cup Counted(t, w), t.head)

\* What it has read, and what becomes of it when that is out of date.
Knows(t, S, h) ==
    /\ t.known # NoHead => t.known = TipOf(t, S, h) \/ \E r \in S : r.prev = t.known.hash
    /\ t.phase = "count" /\ h = NoHead => t.prev = NowOf(S, h).hash
    /\ t.phase = "checkpoint" => \A r \in S : r.prev # t.prev
    /\ t.phase \in Placing /\ Current(t, S, h) =>
          /\ t.prev = TipOf(t, S, h).hash /\ t.count = TipOf(t, S, h).count
          /\ t.phase # "number" => \A r \in S : r.seq < t.seq

Good(t, w, S, h, n, d) == Shape(t, w, n) /\ Holds(t, w, S, h, d) /\ Knows(t, S, h)

\* Two transactions hold no key in common, and one at most the checkpoint.
Apart(t, u) ==
    /\ \A r \in t.added, q \in u.added : r.prev # q.prev
    /\ t.head = NoHead \/ u.head = NoHead

Stored ==
    /\ rows \in SUBSET Record /\ IsFiniteSet(rows)
    /\ head \in AuditHead
    /\ head # NoHead => head.count > 0
    /\ nextSeq \in Nat
    /\ \A r \in rows : r.seq < nextSeq
    /\ begun \in 0 .. MaxTransactions
    /\ deleted \in 0 .. MaxDeletions
    /\ deleted = 0 => Chain(rows, NowOf(rows, head))
    /\ deleted > 0 => head # NoHead /\ Cardinality(rows) < head.count

Verifies ==
    /\ verifier \in [phase : {"idle", "rows", "intact", "broken"},
                     rows : SUBSET Record, late : BOOLEAN]
    /\ IsFiniteSet(verifier.rows)
    /\ verifier.late => verifier.phase # "intact"
    /\ verifier.late /\ verifier.phase = "rows" =>
          head # NoHead /\ Cardinality(verifier.rows) < head.count

Writing ==
    /\ tx \in [Writers -> TxRow]
    /\ \A w \in Writers : Good(tx[w], w, rows, head, nextSeq, deleted)
    /\ \A w, v \in Writers : w # v => Apart(tx[w], tx[v])

IInv == Stored /\ Verifies /\ Writing

\* What is so even after a deletion has overtaken an append, when nothing above is.
TrailTyped ==
    /\ rows \in SUBSET Record /\ IsFiniteSet(rows)
    /\ head \in AuditHead /\ nextSeq \in Nat
    /\ \A r \in rows : r.seq < nextSeq
    /\ begun \in 0 .. MaxTransactions
    /\ deleted \in 0 .. MaxDeletions
    /\ overtaken \in BOOLEAN
    /\ overtaken => deleted > 0
    /\ verifier \in [phase : {"idle", "rows", "intact", "broken"},
                     rows : SUBSET Record, late : BOOLEAN]
    /\ tx \in [Writers -> TxRow]
    /\ \A w \in Writers : /\ IsFiniteSet(tx[w].added)
                          /\ \A r \in tx[w].added : r.seq < nextSeq
                          /\ tx[w].phase \in {"insert", "checkpoint"} => tx[w].seq < nextSeq
                          /\ tx[w].phase \in Appending => tx[w].done < MaxAppends

Trustworthy == TrailTyped /\ (~overtaken => IInv)

------------------------------------------------------------------------------
(* Chains.                                                                 *)

\* The last of a set of records, by number, is in it.
LEMMA TailExists ==
    ASSUME NEW S \in SUBSET Record, NEW n \in Nat, \A r \in S : r.seq < n
    PROVE  TailHash(S) \in Hash
<1>1. CASE S = {}
  BY <1>1 DEF TailHash, Hash
<1>2. CASE S # {}
  <2> DEFINE Numbers == {r.seq : r \in S}
  <2>1. Numbers \subseteq Nat /\ Numbers # {} /\ \A x \in Numbers : x <= n
    BY <1>2 DEF Record
  <2>2. PICK x \in Numbers : \A y \in Numbers : y <= x
    <3> HIDE DEF Numbers
    <3> QED  BY <2>1, GreatestNat
  <2>3. \E r \in S : \A q \in S : q.seq <= r.seq
    BY <2>2
  <2>4. (CHOOSE r \in S : \A q \in S : q.seq <= r.seq) \in S
    BY <2>3
  <2> QED  BY <1>2, <2>4 DEF TailHash, Record
<1> QED  BY <1>1, <1>2

\* The record that all others precede is the last one.
LEMMA TailIsLast ==
    ASSUME NEW S \in SUBSET Record, NEW r \in S, \A q \in S \ {r} : q.seq < r.seq
    PROVE  TailHash(S) = r.hash
<1> DEFINE last(x) == \A q \in S : q.seq <= x.seq
<1>1. last(r)
  BY DEF Record
<1>2. \A x \in S : last(x) => x = r
  BY DEF Record
<1>3. (CHOOSE x \in S : last(x)) = r
  BY <1>1, <1>2
<1> QED  BY <1>3 DEF TailHash

\* A record at the end of a chain makes a chain.
LEMMA ChainGrows ==
    ASSUME NEW S \in SUBSET Record, IsFiniteSet(S), NEW h, h.count \in Nat, Chain(S, h),
           NEW r \in Record, r.prev = h.hash, \A q \in S : q.seq < r.seq
    PROVE  Chain(S \cup {r}, [hash |-> r.hash, count |-> h.count + 1])
<1> DEFINE T == S \cup {r}
<1>1. r \notin S /\ T \in SUBSET Record
  BY DEF Record
<1>2. Cardinality(T) = h.count + 1
  BY <1>1, FS_AddElement DEF Chain
<1>3. TailHash(T) = r.hash
  <2>1. r \in T /\ \A q \in T \ {r} : q.seq < r.seq
    OBVIOUS
  <2> HIDE DEF T
  <2> QED  BY <1>1, <2>1, TailIsLast
<1>4. ASSUME NEW q \in T PROVE q.prev = TailHash({x \in T : x.seq < q.seq})
  <2>1. CASE q = r
    <3>1. {x \in T : x.seq < r.seq} = S
      BY DEF Record
    <3> QED  BY <2>1, <3>1 DEF Chain
  <2>2. CASE q \in S
    <3>1. {x \in T : x.seq < q.seq} = {x \in S : x.seq < q.seq}
      BY <2>2 DEF Record
    <3> QED  BY <2>2, <3>1 DEF Chain, Linked
  <2> QED  BY <2>1, <2>2
<1> HIDE DEF T
<1>5. Linked(T)
  BY <1>4 DEF Linked
<1> QED  BY <1>2, <1>3, <1>5 DEF Chain, T

\* The empty trail and the records that are older than the checkpoint.
LEMMA LegacyChain ==
    ASSUME NEW n \in Nat
    PROVE  /\ LegacyRows(n) \in SUBSET Record /\ IsFiniteSet(LegacyRows(n))
           /\ \A r \in LegacyRows(n) : r.seq < n + 1
           /\ Chain(LegacyRows(n), [hash |-> LegacyHash(n), count |-> n])
<1> DEFINE row(i) == [seq |-> i, prev |-> LegacyHash(i - 1), hash |-> LegacyHash(i)]
           Older(i) == /\ LegacyRows(i) \in SUBSET Record /\ IsFiniteSet(LegacyRows(i))
                       /\ \A r \in LegacyRows(i) : r.seq < i + 1
                       /\ Chain(LegacyRows(i), [hash |-> LegacyHash(i), count |-> i])
           Proved == {i \in 0 .. n : Older(i)}
<1>1. 0 \in Proved
  <2>1. LegacyRows(0) = {} /\ LegacyHash(0) = <<>>
    BY DEF LegacyRows, LegacyHash
  <2> QED  BY <2>1, FS_EmptySet DEF Chain, Linked, TailHash
<1>2. ASSUME NEW i \in 1 .. n, i - 1 \in Proved PROVE i \in Proved
  <2>1. i \in Nat /\ i - 1 \in Nat /\ (i - 1) + 1 = i
    OBVIOUS
  <2>2. LegacyHash(i) \in Hash /\ LegacyHash(i - 1) \in Hash
    BY <2>1 DEF LegacyHash, Hash, Payloads
  <2>3. row(i) \in Record
    BY <2>1, <2>2 DEF Record
  <2>4. LegacyRows(i) = LegacyRows(i - 1) \cup {row(i)}
    <3>1. 1 .. i = (1 .. (i - 1)) \cup {i}
      BY <2>1
    <3> QED  BY <3>1 DEF LegacyRows
  <2>5. Older(i - 1)
    BY <1>2
  <2>6. Chain(LegacyRows(i), [hash |-> LegacyHash(i), count |-> i])
    <3> DEFINE h == [hash |-> LegacyHash(i - 1), count |-> i - 1]
    <3>1. row(i).prev = h.hash /\ row(i).hash = LegacyHash(i) /\ h.count \in Nat /\ h.count + 1 = i
          /\ row(i).seq = i
      BY <2>1
    <3>2. \A q \in LegacyRows(i - 1) : q.seq < i
      BY <2>5, <2>1
    <3> HIDE DEF h, row
    <3>3. Chain(LegacyRows(i - 1), h)
      BY <2>5 DEF h
    <3> QED  BY <2>3, <2>4, <2>5, <3>1, <3>2, <3>3, ChainGrows
  <2>7. LegacyRows(i) \in SUBSET Record /\ IsFiniteSet(LegacyRows(i))
    BY <2>3, <2>4, <2>5, FS_AddElement
  <2>8. \A r \in LegacyRows(i) : r.seq < i + 1
    BY <2>1, <2>4, <2>5 DEF Record
  <2> QED  BY <2>6, <2>7, <2>8
<1>3. 0 .. n \subseteq Proved
  <2> HIDE DEF Proved
  <2> QED  BY <1>1, <1>2, LoopInduction
<1> QED  BY <1>3

------------------------------------------------------------------------------
(* The sequences of payloads that hashes stand for.                        *)

\* A payload at the end of a history extends it and all that it extends.
LEMMA AppendExtends ==
    ASSUME NEW p \in Hash, NEW w \in Payloads
    PROVE  /\ Append(p, w) \in Hash /\ Append(p, w) # <<>>
           /\ Extends(Append(p, w), p)
           /\ \A q \in Hash : Extends(p, q) => Extends(Append(p, w), q)
<1>1. Append(p, w) \in Hash /\ Len(Append(p, w)) = Len(p) + 1 /\ Len(p) \in Nat
  BY DEF Hash
<1>2. \A i \in 1 .. Len(p) : Append(p, w)[i] = p[i]
  BY DEF Hash
<1>3. Append(p, w) # <<>>
  BY <1>1
<1>4. Extends(Append(p, w), p)
  <2>1. SubSeq(Append(p, w), 1, Len(p)) = p
    BY <1>1, <1>2 DEF Hash
  <2> QED  BY <1>1, <2>1 DEF Extends
<1>5. ASSUME NEW q \in Hash, Extends(p, q) PROVE Extends(Append(p, w), q)
  <2>1. Len(q) < Len(p) /\ SubSeq(p, 1, Len(q)) = q /\ Len(q) \in Nat
    BY <1>5 DEF Extends, Hash
  <2>2. \A i \in 1 .. Len(q) : Append(p, w)[i] = q[i]
    <3>1. \A i \in 1 .. Len(q) : q[i] = p[i]
      BY <2>1 DEF Hash
    <3> QED  BY <1>2, <2>1, <3>1
  <2>3. SubSeq(Append(p, w), 1, Len(q)) = q
    BY <1>1, <2>1, <2>2 DEF Hash
  <2> QED  BY <1>1, <2>1, <2>3 DEF Extends
<1> QED  BY <1>1, <1>3, <1>4, <1>5

------------------------------------------------------------------------------
(* A step of one writer that leaves what is committed alone.               *)

\* Numbers that are given out to others disturb no transaction.
LEMMA MoreNumbers ==
    ASSUME NEW t, NEW w, NEW S, NEW h, NEW d, NEW n \in Nat, NEW m \in Nat, n <= m,
           Good(t, w, S, h, n, d)
    PROVE  Good(t, w, S, h, m, d)
<1>1. t \in TxRow
  BY DEF Good, Shape
<1>2. \A r \in t.added : r.seq < m
  BY <1>1 DEF Good, Shape, TxRow, Record
<1>3. t.seq < n => t.seq < m
  BY <1>1 DEF TxRow
<1> QED  BY <1>1, <1>2, <1>3 DEF Good, Shape

\* A step of one writer keeps the invariant if the writer stays good and apart from the others.
LEMMA OwnStep ==
    ASSUME IInv, NEW w \in Writers, NEW t, tx' = [tx EXCEPT ![w] = t],
           UNCHANGED <<rows, head, deleted, verifier>>, begun' \in 0 .. MaxTransactions,
           nextSeq' \in Nat, nextSeq <= nextSeq',
           Good(t, w, rows, head, nextSeq', deleted),
           \A v \in Others(w) : Apart(t, tx[v])
    PROVE  IInv'
<1>1. Stored'
  <2>1. \A r \in rows : r.seq < nextSeq'
    BY DEF IInv, Stored, Record
  <2> QED  BY <2>1 DEF IInv, Stored
<1>2. Verifies'
  BY DEF IInv, Verifies
<1>3. Writing'
  <2>1. t \in TxRow /\ tx' \in [Writers -> TxRow]
    BY DEF IInv, Writing, Good, Shape
  <2>2. tx'[w] = t /\ \A v \in Others(w) : tx'[v] = tx[v]
    BY DEF IInv, Writing, Others
  <2>3. ASSUME NEW v \in Writers
        PROVE  Good(tx'[v], v, rows, head, nextSeq', deleted)
    <3>1. CASE v = w
      BY <2>2, <3>1
    <3>2. CASE v \in Others(w)
      BY <2>2, <3>2, MoreNumbers DEF IInv, Writing, Stored
    <3> QED  BY <3>1, <3>2 DEF Others
  <2>4. ASSUME NEW u \in Writers, NEW v \in Writers, u # v
        PROVE  Apart(tx'[u], tx'[v])
    <3>1. CASE u = w
      BY <2>2, <2>4, <3>1 DEF Others
    <3>2. CASE v = w
      BY <2>2, <2>4, <3>2 DEF Others, Apart
    <3>3. CASE u # w /\ v # w
      BY <2>2, <2>4, <3>3 DEF Others, IInv, Writing
    <3> QED  BY <3>1, <3>2, <3>3
  <2> QED  BY <2>1, <2>3, <2>4 DEF Writing
<1> QED  BY <1>1, <1>2, <1>3 DEF IInv

\* One that inserts nothing is still apart from the others.
LEMMA QuietStep ==
    ASSUME IInv, NEW w \in Writers, NEW t, tx' = [tx EXCEPT ![w] = t],
           UNCHANGED <<rows, head, deleted, verifier>>, begun' \in 0 .. MaxTransactions,
           nextSeq' \in Nat, nextSeq <= nextSeq',
           Good(t, w, rows, head, nextSeq', deleted),
           t.added \subseteq tx[w].added, t.head \in {NoHead, tx[w].head}
    PROVE  IInv'
<1>1. \A v \in Others(w) : Apart(t, tx[v])
  BY DEF IInv, Writing, Apart, Others
<1> QED  BY <1>1, OwnStep

\* What every step starts from.
LEMMA Facts ==
    ASSUME IInv, NEW w \in Writers
    PROVE  /\ tx[w] \in TxRow /\ Good(tx[w], w, rows, head, nextSeq, deleted)
           /\ rows \in SUBSET Record /\ IsFiniteSet(rows)
           /\ head \in AuditHead /\ nextSeq \in Nat /\ begun \in 0 .. MaxTransactions
           /\ TailHash(rows) \in Hash /\ Cardinality(rows) \in Nat
           /\ NowOf(rows, head) \in AuditHead
           /\ TipOf(tx[w], rows, head) \in AuditHead
<1>1. TailHash(rows) \in Hash
  BY TailExists DEF IInv, Stored
<1>2. Cardinality(rows) \in Nat
  BY FS_CardinalityType DEF IInv, Stored
<1>3. NowOf(rows, head) \in AuditHead
  BY <1>1, <1>2 DEF IInv, Stored, NowOf, AuditHead
<1>4. tx[w] \in TxRow
  BY DEF IInv, Writing
<1>5. TipOf(tx[w], rows, head) \in AuditHead
  BY <1>3, <1>4 DEF TipOf, TxRow
<1> QED  BY <1>1, <1>2, <1>3, <1>4, <1>5 DEF IInv, Stored, Writing

------------------------------------------------------------------------------
(* The steps of a writer, one after the other.                             *)

\* A transaction that has done nothing yet goes by nothing and holds nothing.
LEMMA IdleIsGood ==
    ASSUME AuditAssumption, NEW w, NEW S, NEW h, NEW n, NEW d, NEW t,
           t \in {IdleTx, [IdleTx EXCEPT !.phase = "ready"], [IdleTx EXCEPT !.phase = "failed"]}
    PROVE  Good(t, w, S, h, n, d) /\ t.added = {} /\ t.head = NoHead
<1>1. /\ t.phase \in Resting \cup {"ready"} /\ t.added = {} /\ t.head = NoHead
      /\ t.known = NoHead /\ t.prev = <<>> /\ t.count = 0 /\ t.seq = 0 /\ t.tries = 0
      /\ t.done = 0
  BY DEF IdleTx, Resting
<1>2. NoHead \in AuditHead /\ <<>> \in Hash /\ 0 \in 0 .. Retries - 1 /\ 0 \in 0 .. MaxAppends
  BY DEF NoHead, AuditHead, Hash, AuditAssumption
<1>3. t \in TxRow
  BY <1>2 DEF IdleTx, TxRow, Resting
<1>4. IsFiniteSet(t.added)
  BY <1>1, FS_EmptySet
<1>5. t.phase \notin Appending /\ t.phase \notin {"count", "checkpoint", "insert"}
  BY <1>1 DEF Resting, Appending, Adopting, Placing
<1>6. Counted(t, w) = {}
  BY <1>1, <1>5 DEF Counted
<1>7. Shape(t, w, n)
  BY <1>1, <1>3, <1>4, <1>5, <1>6 DEF Shape, Appending
<1>8. Holds(t, w, S, h, d) /\ Knows(t, S, h)
  BY <1>1, <1>5 DEF Holds, Knows, Appending
<1> QED  BY <1>1, <1>7, <1>8 DEF Good

\* A transaction that begins, fails or is rolled back keeps the invariant.
LEMMA IdleStep ==
    ASSUME AuditAssumption, IInv, NEW w \in Writers, NEW t,
           t \in {IdleTx, [IdleTx EXCEPT !.phase = "ready"], [IdleTx EXCEPT !.phase = "failed"]},
           tx' = [tx EXCEPT ![w] = t], begun' \in 0 .. MaxTransactions,
           UNCHANGED <<rows, head, nextSeq, deleted, verifier>>
    PROVE  IInv'
<1>1. Good(t, w, rows, head, nextSeq', deleted) /\ t.added = {} /\ t.head = NoHead
  BY IdleIsGood
<1>2. nextSeq' \in Nat /\ nextSeq <= nextSeq'
  BY DEF IInv, Stored
<1> QED  BY <1>1, <1>2, QuietStep

\* The beginning of a transaction.
LEMMA BeginKeeps ==
    ASSUME AuditAssumption, IInv, NEW w \in Writers, Begin(w)
    PROVE  IInv'
<1>1. begun' \in 0 .. MaxTransactions
  BY DEF Begin, IInv, Stored, AuditAssumption
<1> QED  BY <1>1, IdleStep DEF Begin, Set

\* The rollback of one.
LEMMA AbortKeeps ==
    ASSUME AuditAssumption, IInv, NEW w \in Writers, Abort(w)
    PROVE  IInv'
<1>1. begun' \in 0 .. MaxTransactions
  BY DEF Abort, IInv, Stored
<1> QED  BY <1>1, IdleStep DEF Abort, Set

\* append_audit reads the checkpoint, or what it has loaded of it before.
LEMMA ReadHeadKeeps ==
    ASSUME AuditAssumption, IInv, NEW w \in Writers, ReadHead(w)
    PROVE  IInv'
<1> DEFINE o == tx[w]
           h == QueriedHead(w)
           t == [o EXCEPT !.known = h, !.prev = h.hash, !.count = h.count,
                          !.phase = IF h = NoHead THEN "tail" ELSE "number"]
<1>0. /\ o.phase = "ready" /\ o.done < MaxAppends /\ tx' = [tx EXCEPT ![w] = t]
      /\ UNCHANGED <<rows, head, nextSeq, begun, deleted, verifier>>
  BY DEF ReadHead, Set
<1>1. o \in TxRow /\ Good(o, w, rows, head, nextSeq, deleted) /\ head \in AuditHead
  BY Facts
<1>2. h \in AuditHead
  BY <1>1 DEF QueriedHead, TxRow
<1>3. /\ t.phase = IF h = NoHead THEN "tail" ELSE "number"
      /\ t.known = h /\ t.prev = h.hash /\ t.count = h.count
      /\ t.added = o.added /\ t.head = o.head /\ t.done = o.done
  BY <1>1 DEF TxRow
<1>4. t \in TxRow
  BY <1>1, <1>2 DEF TxRow, AuditHead, Appending, Adopting, Placing
<1>5. h = NoHead => o.head = NoHead /\ o.known = NoHead
  BY DEF QueriedHead
<1>6. h # NoHead => h = TipOf(o, rows, head) \/ h = o.known
  BY DEF QueriedHead, TipOf, NowOf
<1> HIDE DEF t, h, o
<1>7. TipOf(t, rows, head) = TipOf(o, rows, head)
  BY <1>3 DEF TipOf
<1>8. Counted(t, w) = Counted(o, w)
  BY <1>0, <1>3 DEF Counted
<1>9. Shape(t, w, nextSeq)
  BY <1>0, <1>1, <1>3, <1>4, <1>5, <1>8 DEF Good, Shape, Resting, Adopting, Placing, Appending
<1>10. Holds(t, w, rows, head, deleted)
  BY <1>1, <1>3, <1>8 DEF Good, Holds
<1>11. h # NoHead => h = TipOf(o, rows, head) \/ \E r \in rows : r.prev = h.hash
  BY <1>1, <1>6 DEF Good, Knows
<1>12. Knows(t, rows, head)
  BY <1>3, <1>7, <1>11 DEF Knows, Current, Placing
<1>13. Good(t, w, rows, head, nextSeq', deleted)
  BY <1>0, <1>9, <1>10, <1>12 DEF Good
<1>14. begun' \in 0 .. MaxTransactions /\ nextSeq' \in Nat /\ nextSeq <= nextSeq'
  BY <1>0, Facts
<1> QED  BY <1>0, <1>3, <1>13, <1>14, QuietStep DEF o

\* append_audit adopts the last record of a trail without a checkpoint.
LEMMA ReadTailKeeps ==
    ASSUME AuditAssumption, IInv, NEW w \in Writers, ReadTail(w)
    PROVE  IInv'
<1> DEFINE o == tx[w]
           t == [o EXCEPT !.prev = TailHash(Visible(w)), !.phase = "count"]
<1>0. /\ o.phase = "tail" /\ tx' = [tx EXCEPT ![w] = t]
      /\ UNCHANGED <<rows, head, nextSeq, begun, deleted, verifier>>
  BY DEF ReadTail, Set
<1>1. o \in TxRow /\ Good(o, w, rows, head, nextSeq, deleted) /\ TailHash(rows) \in Hash
  BY Facts
<1>2. o.known = NoHead /\ o.head = NoHead /\ o.added = {}
  BY <1>0, <1>1 DEF Good, Shape, Adopting, Appending, Counted
<1>3. Visible(w) = rows
  BY <1>2 DEF Visible
<1>4. /\ t.phase = "count" /\ t.prev = TailHash(rows) /\ t.known = NoHead
      /\ t.added = {} /\ t.head = NoHead /\ t.done = o.done
  BY <1>1, <1>2, <1>3 DEF TxRow
<1>5. t \in TxRow
  BY <1>1, <1>3 DEF TxRow, Appending, Adopting
<1>6. o.done = 0 /\ o.done < MaxAppends
  BY <1>0, <1>1, <1>2 DEF Good, Shape, Appending, Adopting
<1> HIDE DEF t, o
<1>7. Shape(t, w, nextSeq)
  <2>1. IsFiniteSet(t.added) /\ Counted(t, w) = {}
    BY <1>4, FS_EmptySet DEF Counted
  <2> QED  BY <1>4, <1>5, <1>6, <2>1 DEF Shape, Resting, Adopting, Placing, Appending
<1>8. Holds(t, w, rows, head, deleted)
  BY <1>4 DEF Holds
<1>9. Knows(t, rows, head)
  BY <1>4 DEF Knows, NowOf, Placing
<1>10. Good(t, w, rows, head, nextSeq', deleted)
  BY <1>0, <1>7, <1>8, <1>9 DEF Good
<1>11. begun' \in 0 .. MaxTransactions /\ nextSeq' \in Nat /\ nextSeq <= nextSeq'
  BY <1>0, Facts
<1> QED  BY <1>0, <1>4, <1>10, <1>11, QuietStep DEF o

\* append_audit counts the records of a trail without a checkpoint.
LEMMA CountTailKeeps ==
    ASSUME AuditAssumption, IInv, NEW w \in Writers, CountTail(w)
    PROVE  IInv'
<1> DEFINE o == tx[w]
           t == [o EXCEPT !.count = Cardinality(Visible(w)), !.phase = "number"]
<1>0. /\ o.phase = "count" /\ tx' = [tx EXCEPT ![w] = t]
      /\ UNCHANGED <<rows, head, nextSeq, begun, deleted, verifier>>
  BY DEF CountTail, Set
<1>1. o \in TxRow /\ Good(o, w, rows, head, nextSeq, deleted) /\ Cardinality(rows) \in Nat
  BY Facts
<1>2. o.known = NoHead /\ o.head = NoHead /\ o.added = {}
  BY <1>0, <1>1 DEF Good, Shape, Adopting, Appending, Counted
<1>3. Visible(w) = rows
  BY <1>2 DEF Visible
<1>4. /\ t.phase = "number" /\ t.count = Cardinality(rows) /\ t.known = NoHead
      /\ t.added = {} /\ t.head = NoHead /\ t.done = o.done /\ t.prev = o.prev
  BY <1>1, <1>2, <1>3 DEF TxRow
<1>5. t \in TxRow
  BY <1>1, <1>3 DEF TxRow, Appending, Placing
<1>6. o.done = 0 /\ o.done < MaxAppends
  BY <1>0, <1>1, <1>2 DEF Good, Shape, Appending, Adopting
<1>7. head = NoHead => t.prev = NowOf(rows, head).hash
  BY <1>0, <1>1, <1>4 DEF Good, Knows
<1> HIDE DEF t, o
<1>8. Shape(t, w, nextSeq)
  <2>1. IsFiniteSet(t.added) /\ Counted(t, w) = {}
    BY <1>4, FS_EmptySet DEF Counted
  <2> QED  BY <1>4, <1>5, <1>6, <2>1 DEF Shape, Resting, Adopting, Placing, Appending
<1>9. Holds(t, w, rows, head, deleted)
  BY <1>4 DEF Holds
<1>10. Knows(t, rows, head)
  BY <1>4, <1>7 DEF Knows, TipOf, NowOf, Current
<1>11. Good(t, w, rows, head, nextSeq', deleted)
  BY <1>0, <1>8, <1>9, <1>10 DEF Good
<1>12. begun' \in 0 .. MaxTransactions /\ nextSeq' \in Nat /\ nextSeq <= nextSeq'
  BY <1>0, Facts
<1> QED  BY <1>0, <1>4, <1>11, <1>12, QuietStep DEF o

\* The number of a record is taken after all that its writer has read was numbered.
LEMMA TakeNumberKeeps ==
    ASSUME AuditAssumption, IInv, NEW w \in Writers, TakeNumber(w)
    PROVE  IInv'
<1> DEFINE o == tx[w]
           t == [o EXCEPT !.seq = nextSeq, !.phase = "insert"]
<1>0. /\ o.phase = "number" /\ tx' = [tx EXCEPT ![w] = t] /\ nextSeq' = nextSeq + 1
      /\ UNCHANGED <<rows, head, begun, deleted, verifier>>
  BY DEF TakeNumber, Set
<1>1. /\ o \in TxRow /\ Good(o, w, rows, head, nextSeq, deleted)
      /\ nextSeq \in Nat /\ rows \in SUBSET Record
  BY Facts
<1>2. /\ t.phase = "insert" /\ t.seq = nextSeq /\ t.known = o.known /\ t.prev = o.prev
      /\ t.count = o.count /\ t.added = o.added /\ t.head = o.head /\ t.done = o.done
  BY <1>1 DEF TxRow
<1>3. t \in TxRow
  BY <1>1 DEF TxRow, Appending, Placing
<1>4. \A r \in rows : r.seq < nextSeq
  BY DEF IInv, Stored
<1> HIDE DEF t, o
<1>5. Good(o, w, rows, head, nextSeq', deleted)
  BY <1>0, <1>1, MoreNumbers
<1>6. Counted(t, w) = o.added /\ Counted(o, w) = o.added
  BY <1>0, <1>2 DEF Counted
<1>7. TipOf(t, rows, head) = TipOf(o, rows, head) /\ Current(t, rows, head) = Current(o, rows, head)
  BY <1>2 DEF TipOf, Current
<1>8. Shape(t, w, nextSeq')
  <2>1. t.seq < nextSeq' /\ \A r \in o.added : r.seq < t.seq
    BY <1>0, <1>1, <1>2 DEF Good, Shape
  <2> QED  BY <1>0, <1>2, <1>3, <1>5, <1>6, <2>1 DEF Good, Shape, Resting, Adopting, Placing, Appending
<1>9. Holds(t, w, rows, head, deleted)
  BY <1>1, <1>2, <1>6 DEF Good, Holds
<1>10. Knows(t, rows, head)
  BY <1>0, <1>1, <1>2, <1>4, <1>7 DEF Good, Knows, Placing
<1>11. Good(t, w, rows, head, nextSeq', deleted)
  BY <1>8, <1>9, <1>10 DEF Good
<1>12. begun' \in 0 .. MaxTransactions /\ nextSeq' \in Nat /\ nextSeq <= nextSeq'
  BY <1>0, Facts
<1> QED  BY <1>0, <1>2, <1>11, <1>12, QuietStep DEF o

\* A lost attempt leaves only the records that were counted.
LEMMA LoseKeeps ==
    ASSUME AuditAssumption, IInv, NEW w \in Writers, Lose(w),
           tx[w].phase \in {"insert", "checkpoint"},
           UNCHANGED <<rows, head, nextSeq, begun, deleted, verifier>>
    PROVE  IInv'
<1> DEFINE o == tx[w]
           t == Between({r \in o.added : r.seq # o.seq}, o.head, o.known, o.tries + 1, o.done)
<1>1. begun' \in 0 .. MaxTransactions /\ nextSeq' \in Nat /\ nextSeq <= nextSeq'
  BY Facts
<1>2. CASE o.tries + 1 = Retries
  BY <1>1, <1>2, IdleStep DEF Lose, Set
<1>3. CASE o.tries + 1 # Retries
  <2>1. o \in TxRow /\ Good(o, w, rows, head, nextSeq, deleted)
    BY Facts
  <2>2. /\ t.phase = "ready" /\ t.tries = o.tries + 1
        /\ t.added = {r \in o.added : r.seq # o.seq}
        /\ t.known = o.known /\ t.head = o.head /\ t.done = o.done
    BY DEF Between
  <2>3. o.tries + 1 \in 0 .. Retries - 1
    BY <1>3, <2>1 DEF TxRow, AuditAssumption
  <2>4. t \in TxRow
    <3>1. <<>> \in Hash
      BY DEF Hash
    <3> QED  BY <2>1, <2>3, <3>1 DEF TxRow, Between
  <2>5. t.added = Counted(o, w)
    <3>1. \A r \in Counted(o, w) : r.seq < o.seq /\ r \in o.added
      BY <2>1 DEF Good, Shape, Counted
    <3>2. Counted(o, w) \subseteq t.added
      BY <2>1, <2>2, <3>1 DEF TxRow, Record
    <3>3. t.added \subseteq Counted(o, w)
      BY <2>2 DEF Counted, Inserted
    <3> QED  BY <3>2, <3>3
  <2>6. tx' = [tx EXCEPT ![w] = t]
    BY <1>3 DEF Lose, Set
  <2> HIDE DEF t, o
  <2>7. IsFiniteSet(t.added) /\ t.added \subseteq o.added
    BY <2>1, <2>2, FS_Subset DEF Good, Shape
  <2>8. Counted(t, w) = Counted(o, w)
    BY <2>2, <2>5 DEF Counted
  <2>9. Shape(t, w, nextSeq)
    BY <2>1, <2>2, <2>4, <2>7, <2>8 DEF Good, Shape, Resting, Adopting, Placing, Appending
  <2>10. Holds(t, w, rows, head, deleted)
    BY <2>1, <2>2, <2>8 DEF Good, Holds
  <2>11. Knows(t, rows, head)
    BY <2>1, <2>2 DEF Good, Knows, TipOf, Placing
  <2>12. Good(t, w, rows, head, nextSeq', deleted)
    BY <2>9, <2>10, <2>11 DEF Good
  <2> QED  BY <1>1, <2>2, <2>6, <2>7, <2>12, QuietStep DEF o
<1> QED  BY <1>2, <1>3

\* The unique key keeps the record apart from those of the others.
LEMMA InsertKeeps ==
    ASSUME AuditAssumption, IInv, NEW w \in Writers, Insert(w)
    PROVE  IInv'
<1> DEFINE o == tx[w]
           rec == [seq |-> o.seq, prev |-> o.prev, hash |-> Append(o.prev, w)]
           t == [o EXCEPT !.phase = "checkpoint", !.added = @ \cup {rec}]
<1>0. /\ o.phase = "insert"
      /\ \A v \in Others(w) : ~ Claimed(tx[v].added, o.prev)
      /\ UNCHANGED <<rows, head, nextSeq, begun, deleted, verifier>>
  BY DEF Insert
<1>1. CASE Claimed(Visible(w), o.prev)
  BY <1>0, <1>1, LoseKeeps DEF Insert
<1>2. CASE ~ Claimed(Visible(w), o.prev)
  <2>1. /\ o \in TxRow /\ Good(o, w, rows, head, nextSeq, deleted) /\ nextSeq \in Nat
        /\ begun' \in 0 .. MaxTransactions /\ nextSeq' \in Nat /\ nextSeq <= nextSeq'
    BY <1>0, Facts
  <2>2. /\ t.phase = "checkpoint" /\ t.added = o.added \cup {rec} /\ t.seq = o.seq
        /\ t.known = o.known /\ t.prev = o.prev /\ t.count = o.count
        /\ t.head = o.head /\ t.done = o.done
    BY <2>1 DEF TxRow
  <2>3. rec \in Record
    BY <2>1, AppendExtends DEF Record, TxRow, Payloads
  <2>4. t \in TxRow
    BY <2>1, <2>3 DEF TxRow, Appending, Placing
  <2>5. tx' = [tx EXCEPT ![w] = t]
    BY <1>2 DEF Insert, Set
  <2>6. rec.seq = o.seq /\ rec.prev = o.prev /\ Inserted(t, w) = rec
    BY <2>2 DEF Inserted
  <2>7. \A r \in rows : r.prev # o.prev
    BY <1>2 DEF Claimed, Visible
  <2> HIDE DEF t, o, rec
  <2>8. Counted(o, w) = o.added
    BY <1>0 DEF Counted
  <2>9. \A r \in o.added : r.seq < o.seq
    BY <1>0, <2>1, <2>8 DEF Good, Shape
  <2>10. Counted(t, w) = o.added
    <3>1. rec \notin o.added
      BY <2>1, <2>6, <2>9 DEF TxRow
    <3> QED  BY <2>2, <2>6, <3>1 DEF Counted
  <2>11. Shape(t, w, nextSeq')
    <3>1. IsFiniteSet(t.added)
      BY <2>1, <2>2, FS_AddElement DEF Good, Shape
    <3>2. o.seq < nextSeq'
      BY <1>0, <2>1 DEF Good, Shape
    <3>3. \A r \in t.added : r.seq < nextSeq'
      BY <1>0, <2>1, <2>2, <2>6, <3>2 DEF Good, Shape
    <3> QED  BY <1>0, <2>1, <2>2, <2>4, <2>6, <2>8, <2>9, <2>10, <3>1, <3>2, <3>3
             DEF Good, Shape, Resting, Adopting, Placing, Appending
  <2>12. Holds(t, w, rows, head, deleted)
    BY <2>1, <2>2, <2>8, <2>10 DEF Good, Holds
  <2>13. Knows(t, rows, head)
    <3>1. TipOf(t, rows, head) = TipOf(o, rows, head)
          /\ Current(t, rows, head) = Current(o, rows, head)
      BY <2>2 DEF TipOf, Current
    <3> QED  BY <1>0, <2>1, <2>2, <2>7, <3>1 DEF Good, Knows, Placing
  <2>14. Good(t, w, rows, head, nextSeq', deleted)
    BY <2>11, <2>12, <2>13 DEF Good
  <2>15. \A v \in Others(w) : Apart(t, tx[v])
    <3>1. ASSUME NEW v \in Others(w) PROVE Apart(o, tx[v])
      BY DEF IInv, Writing, Others, o
    <3> QED  BY <1>0, <2>2, <2>6, <3>1 DEF Apart, Claimed
  <2> QED  BY <1>0, <2>1, <2>5, <2>14, <2>15, OwnStep
<1> QED  BY <1>1, <1>2

\* A checkpoint is written by one whose reading is current only.
LEMMA CheckpointKeeps ==
    ASSUME AuditAssumption, IInv, NEW w \in Writers, Checkpoint(w)
    PROVE  IInv'
<1> DEFINE o == tx[w]
           new == NewHead(w)
           t == Between(o.added, new, NoHead, 0, o.done + 1)
           rec == Inserted(o, w)
           now == NowOf(rows, head)
           tip == TipOf(o, rows, head)
<1>0. /\ o.phase = "checkpoint"
      /\ \A v \in Others(w) : tx[v].head = NoHead
      /\ UNCHANGED <<rows, head, nextSeq, begun, deleted, verifier>>
  BY DEF Checkpoint
<1>1. CASE o.known = NoHead /\ head # NoHead
  BY <1>0, <1>1, LoseKeeps DEF Checkpoint
<1>2. CASE ~ (o.known = NoHead /\ head # NoHead)
  <2>1. /\ o \in TxRow /\ Good(o, w, rows, head, nextSeq, deleted) /\ nextSeq \in Nat
        /\ begun' \in 0 .. MaxTransactions /\ nextSeq' \in Nat /\ nextSeq <= nextSeq'
        /\ rows \in SUBSET Record /\ IsFiniteSet(rows) /\ now \in AuditHead /\ tip \in AuditHead
    BY <1>0, Facts
  <2>2. tx' = [tx EXCEPT ![w] = t]
    BY <1>2 DEF Checkpoint, Set
  <2>3. /\ new.hash = Append(o.prev, w) /\ new.count = o.count + 1 /\ new \in AuditHead
        /\ new # NoHead
    <3>1. o.prev \in Hash /\ o.count \in Nat /\ w \in Payloads
      BY <2>1 DEF TxRow, Payloads
    <3>2. Append(o.prev, w) \in Hash /\ Append(o.prev, w) # <<>>
      BY <3>1, AppendExtends
    <3>3. new.hash = Append(o.prev, w) /\ new.count = o.count + 1
      BY DEF NewHead
    <3>4. new \in AuditHead
      BY <3>1, <3>2 DEF NewHead, AuditHead
    <3>5. NoHead.hash = <<>>
      BY DEF NoHead
    <3> QED  BY <3>2, <3>3, <3>4, <3>5
  <2>4. /\ t.phase = "ready" /\ t.head = new /\ t.known = NoHead /\ t.done = o.done + 1
        /\ t.added = o.added
    BY DEF Between
  <2>5. o.done < MaxAppends
    BY <1>0, <2>1 DEF Good, Shape, Appending, Placing
  <2>6. o.done + 1 \in 0 .. MaxAppends /\ 0 \in 0 .. Retries - 1 /\ NoHead \in AuditHead
    <3>1. o.done \in 0 .. MaxAppends
      BY <2>1 DEF TxRow
    <3>2. NoHead \in AuditHead
      BY DEF NoHead, AuditHead, Hash
    <3> QED  BY <2>5, <3>1, <3>2 DEF AuditAssumption
  <2>7. t \in TxRow
    <3>1. <<>> \in Hash
      BY DEF Hash
    <3> HIDE DEF new
    <3> QED  BY <2>1, <2>3, <2>6, <3>1 DEF TxRow, Between
  <2>8. rec \in o.added /\ rec.seq = o.seq /\ rec.prev = o.prev /\ rec.hash = new.hash
    BY <1>0, <2>1, <2>3 DEF Good, Shape, Inserted
  <2>9. o.prev = tip.hash /\ o.count = tip.count /\ \A r \in rows : r.seq < o.seq
    BY <1>0, <1>2, <2>1 DEF Good, Knows, Current, Placing
  <2>10. tip = IF o.head # NoHead THEN o.head ELSE now
    BY DEF TipOf
  <2>11. Counted(o, w) = o.added \ {rec}
    BY <1>0 DEF Counted
  <2> HIDE DEF t, o, new, rec, now, tip
  <2>12. Counted(t, w) = o.added
    BY <2>4 DEF Counted
  <2>13. Shape(t, w, nextSeq')
    BY <1>0, <2>1, <2>3, <2>4, <2>7, <2>12 DEF Good, Shape, Resting, Adopting, Placing, Appending
  <2>14. Holds(t, w, rows, head, deleted)
    <3> DEFINE C == Counted(o, w)
    <3>1. /\ C \in SUBSET Record /\ IsFiniteSet(C) /\ rec \in Record /\ rec \notin C
          /\ o.added = C \cup {rec} /\ Cardinality(C) \in Nat
          /\ \A r \in C : r.seq < o.seq
      <4>1. IsFiniteSet(C)
        BY <2>1, <2>11, FS_RemoveElement DEF Good, Shape
      <4>2. \A r \in C : r.seq < o.seq
        BY <1>0, <2>1 DEF Good, Shape
      <4> QED  BY <2>1, <2>8, <2>11, <4>1, <4>2, FS_CardinalityType DEF TxRow
    <3>2. Cardinality(o.added) = Cardinality(C) + 1
      BY <3>1, FS_AddElement
    <3>3. \E r \in o.added : r.prev = now.hash
      <4>1. CASE o.head # NoHead
        BY <2>1, <3>1, <4>1 DEF Good, Holds, now
      <4>2. CASE o.head = NoHead
        BY <2>8, <2>9, <2>10, <4>2
      <4> QED  BY <4>1, <4>2
    <3>4. Extends(new.hash, now.hash)
      <4>1. Extends(Append(o.prev, w), o.prev)
            /\ \A q \in Hash : Extends(o.prev, q) => Extends(Append(o.prev, w), q)
        BY <2>1, AppendExtends DEF TxRow, Payloads
      <4>2. CASE o.head # NoHead
        <5>1. Extends(o.prev, now.hash)
          BY <2>1, <2>9, <2>10, <4>2 DEF Good, Holds, now
        <5> QED  BY <2>1, <2>3, <4>1, <5>1 DEF AuditHead
      <4>3. CASE o.head = NoHead
        BY <2>3, <2>9, <2>10, <4>1, <4>3
      <4> QED  BY <4>2, <4>3
    <3>5. o.head # NoHead => o.count = now.count + Cardinality(C)
      BY <2>1, <2>9, <2>10 DEF Good, Holds, now
    <3>6. o.head = NoHead => C = {} /\ Cardinality(C) = 0 /\ o.count = now.count
      BY <2>1, <2>9, <2>10, FS_EmptySet DEF Good, Shape
    <3>7. new.count = now.count + Cardinality(o.added)
      <4>1. now.count \in Nat /\ new.count = o.count + 1
        BY <2>1, <2>3 DEF AuditHead
      <4> QED  BY <3>1, <3>2, <3>5, <3>6, <4>1
    <3>8. ASSUME deleted = 0 PROVE Chain(rows \cup o.added, new)
      <4> DEFINE R == rows \cup C
      <4>1. Chain(R, tip)
        <5>1. CASE o.head # NoHead
          BY <2>1, <2>10, <3>8, <5>1 DEF Good, Holds
        <5>2. CASE o.head = NoHead
          <6>1. Chain(rows, now)
            BY <3>8 DEF IInv, Stored, now
          <6> QED  BY <2>10, <3>6, <5>2, <6>1
        <5> QED  BY <5>1, <5>2
      <4>2. R \in SUBSET Record /\ IsFiniteSet(R)
        BY <2>1, <3>1, FS_Union
      <4>3. \A q \in R : q.seq < rec.seq
        BY <2>8, <2>9, <3>1
      <4>4. tip.count \in Nat /\ rec.prev = tip.hash
        BY <2>1, <2>8, <2>9 DEF AuditHead
      <4> HIDE DEF R
      <4>5. Chain(R \cup {rec}, [hash |-> rec.hash, count |-> tip.count + 1])
        BY <3>1, <4>1, <4>2, <4>3, <4>4, ChainGrows
      <4>6. [hash |-> rec.hash, count |-> tip.count + 1].hash = new.hash
            /\ [hash |-> rec.hash, count |-> tip.count + 1].count = new.count
        BY <2>3, <2>8, <2>9
      <4>7. R \cup {rec} = rows \cup o.added
        BY <3>1 DEF R
      <4> QED  BY <4>5, <4>6, <4>7 DEF Chain
    <3> QED  BY <2>4, <2>12, <3>3, <3>4, <3>7, <3>8 DEF Holds, now
  <2>15. Knows(t, rows, head)
    BY <2>4 DEF Knows, Placing
  <2>16. Good(t, w, rows, head, nextSeq', deleted)
    BY <2>13, <2>14, <2>15, <1>0 DEF Good
  <2>17. \A v \in Others(w) : Apart(t, tx[v])
    <3>1. ASSUME NEW v \in Others(w) PROVE Apart(o, tx[v])
      BY DEF IInv, Writing, Others, o
    <3> QED  BY <1>0, <2>4, <3>1 DEF Apart
  <2> QED  BY <1>0, <2>1, <2>2, <2>16, <2>17, OwnStep
<1> QED  BY <1>1, <1>2

------------------------------------------------------------------------------
(* What is committed, checked and lost.                                    *)

\* The transaction that commits wrote the checkpoint: any other whose reading it
\* overtakes goes by a checkpoint that the new records continue.
LEMMA CommitKeeps ==
    ASSUME AuditAssumption, IInv, NEW w \in Writers, Commit(w)
    PROVE  IInv'
<1> DEFINE o == tx[w]
           now == NowOf(rows, head)
           R == rows \cup o.added
           h == o.head
<1>0. /\ o.phase = "ready" /\ o.done > 0
      /\ rows' = R /\ head' = h /\ tx' = [tx EXCEPT ![w] = IdleTx]
      /\ UNCHANGED <<nextSeq, begun, deleted, verifier>>
  BY DEF Commit, Set
<1>1. /\ o \in TxRow /\ Good(o, w, rows, head, nextSeq, deleted) /\ nextSeq \in Nat
      /\ rows \in SUBSET Record /\ IsFiniteSet(rows) /\ now \in AuditHead
      /\ head \in AuditHead /\ Cardinality(rows) \in Nat
  BY Facts
<1> HIDE DEF o, now
<1>2. Counted(o, w) = o.added
  BY <1>0 DEF Counted
<1>3. h # NoHead
  BY <1>0, <1>1 DEF Good, Shape
<1>4. /\ \E r \in o.added : r.prev = now.hash
      /\ h.count = now.count + Cardinality(o.added)
      /\ deleted = 0 => Chain(R, h)
  BY <1>1, <1>2, <1>3 DEF Good, Holds, now
<1>5. /\ IsFiniteSet(o.added) /\ Cardinality(o.added) \in Nat /\ Cardinality(o.added) > 0
      /\ h \in AuditHead /\ o.added \in SUBSET Record
  <2>1. IsFiniteSet(o.added) /\ h \in AuditHead /\ o.added \in SUBSET Record
    BY <1>1 DEF Good, Shape, TxRow
  <2>2. Cardinality(o.added) \in Nat /\ Cardinality(o.added) # 0
    BY <1>4, <2>1, FS_CardinalityType, FS_EmptySet
  <2> QED  BY <2>1, <2>2
<1>6. now.count \in Nat /\ h.count > now.count /\ h.count > 0
  BY <1>1, <1>4, <1>5 DEF AuditHead
<1>7. head # NoHead => now = head
  BY DEF now, NowOf
<1>8. Stored'
  <2>1. R \in SUBSET Record /\ IsFiniteSet(R) /\ Cardinality(R) \in Nat
        /\ Cardinality(R) <= Cardinality(rows) + Cardinality(o.added)
    <3>1. /\ IsFiniteSet(R)
          /\ Cardinality(R) =
                Cardinality(rows) + Cardinality(o.added) - Cardinality(rows \cap o.added)
      BY <1>1, <1>5, FS_Union
    <3>2. IsFiniteSet(rows \cap o.added)
      BY <1>1, FS_Subset
    <3>3. Cardinality(rows \cap o.added) \in Nat /\ Cardinality(R) \in Nat
      BY <3>1, <3>2, FS_CardinalityType
    <3> QED  BY <1>1, <1>5, <3>1, <3>3
  <2>2. \A r \in R : r.seq < nextSeq
    BY <1>1 DEF IInv, Stored, Good, Shape
  <2>3. deleted = 0 => Chain(R, NowOf(R, h))
    BY <1>3, <1>4 DEF NowOf
  <2>4. deleted > 0 => Cardinality(R) < h.count
    <3>1. deleted > 0 => head # NoHead /\ Cardinality(rows) < now.count
      BY <1>7 DEF IInv, Stored
    <3> QED  BY <1>1, <1>4, <1>5, <1>6, <2>1, <3>1
  <2> HIDE DEF R, h
  <2> QED  BY <1>0, <1>3, <1>5, <1>6, <2>1, <2>2, <2>3, <2>4 DEF IInv, Stored
<1>9. Verifies'
  <2>1. ASSUME verifier.late, verifier.phase = "rows"
        PROVE  Cardinality(verifier.rows) < h.count
    <3>1. head # NoHead /\ Cardinality(verifier.rows) < head.count
      BY <2>1 DEF IInv, Verifies
    <3>2. Cardinality(verifier.rows) \in Nat
      BY FS_CardinalityType DEF IInv, Verifies
    <3> QED  BY <1>5, <1>6, <1>7, <3>1, <3>2 DEF AuditHead
  <2> QED  BY <1>0, <1>3, <2>1 DEF IInv, Verifies
<1>10. Writing'
  <2>1. tx'[w] = IdleTx /\ \A v \in Others(w) : tx'[v] = tx[v]
    BY <1>0 DEF IInv, Writing, Others
  <2>2. Good(IdleTx, w, R, h, nextSeq, deleted) /\ IdleTx.added = {} /\ IdleTx.head = NoHead
    BY IdleIsGood
  <2>3. ASSUME NEW v \in Others(w) PROVE Good(tx[v], v, R, h, nextSeq, deleted)
    <3> DEFINE u == tx[v]
    <3>1. Apart(o, u) /\ Good(u, v, rows, head, nextSeq, deleted)
      BY DEF IInv, Writing, Others, o
    <3> HIDE DEF u, R, h
    <3>2. u.head = NoHead
      BY <1>3, <3>1 DEF Apart, h
    <3>3. TipOf(u, rows, head) = now
      BY <3>2 DEF TipOf, now
    <3>4. u.known # NoHead => \E r \in R : r.prev = u.known.hash
      <4>1. CASE u.known = now
        BY <1>4, <4>1 DEF R
      <4>2. CASE \E r \in rows : r.prev = u.known.hash
        BY <4>2 DEF R
      <4> QED  BY <3>1, <3>3, <4>1, <4>2 DEF Good, Knows
    <3>5. u.phase = "checkpoint" => \A r \in R : r.prev # u.prev
      <4>1. ASSUME u.phase = "checkpoint", NEW r \in o.added PROVE r.prev # u.prev
        <5>1. Inserted(u, v) \in u.added /\ Inserted(u, v).prev = u.prev
          BY <3>1, <4>1 DEF Good, Shape, Inserted
        <5> QED  BY <3>1, <5>1 DEF Apart
      <4> QED  BY <3>1, <4>1 DEF Good, Knows, R
    <3>6. ~ (u.phase \in Placing /\ Current(u, R, h))
      <4> SUFFICES ASSUME u.phase \in Placing, Current(u, R, h) PROVE FALSE
        OBVIOUS
      <4>1. u.known # NoHead /\ \A r \in R : r.prev # u.prev
        BY <1>3 DEF Current, h
      <4>2. Current(u, rows, head)
        BY <4>1 DEF Current, R
      <4>3. u.prev = now.hash
        BY <3>1, <3>3, <4>2 DEF Good, Knows
      <4> QED  BY <1>4, <4>1, <4>3 DEF R
    <3>7. Knows(u, R, h)
      BY <1>3, <3>4, <3>5, <3>6 DEF Knows, h
    <3> QED  BY <3>1, <3>2, <3>7 DEF Good, Holds, u
  <2>4. ASSUME NEW v \in Writers PROVE Good(tx'[v], v, R, h, nextSeq, deleted)
    BY <2>1, <2>2, <2>3 DEF Others
  <2>5. ASSUME NEW u \in Writers, NEW v \in Writers, u # v PROVE Apart(tx'[u], tx'[v])
    <3>1. CASE u = w \/ v = w
      BY <2>1, <2>2, <2>5, <3>1 DEF Apart, Others
    <3>2. CASE u # w /\ v # w
      BY <2>1, <2>5, <3>2 DEF Others, IInv, Writing
    <3> QED  BY <3>1, <3>2
  <2>6. tx' \in [Writers -> TxRow]
    <3>1. IdleTx \in TxRow
      BY <2>2 DEF Good, Shape
    <3> QED  BY <1>0, <3>1 DEF IInv, Writing
  <2> HIDE DEF R, h
  <2> QED  BY <1>0, <2>4, <2>5, <2>6 DEF Writing
<1> QED  BY <1>8, <1>9, <1>10 DEF IInv

\* verify_chain reads the records, and later the checkpoint, and changes nothing else.
LEMMA VerifyKeeps ==
    ASSUME IInv, VerifyRows \/ VerifyHead
    PROVE  IInv'
<1>1. UNCHANGED <<rows, head, nextSeq, tx, begun, deleted>>
  BY DEF VerifyRows, VerifyHead
<1>2. CASE VerifyRows
  <2>1. /\ verifier'.phase = "rows" /\ verifier'.rows = rows
        /\ verifier'.late = (deleted > 0)
        /\ verifier' \in [phase : {"idle", "rows", "intact", "broken"},
                          rows : SUBSET Record, late : BOOLEAN]
    BY <1>2 DEF VerifyRows, IInv, Stored
  <2>2. Verifies'
    BY <1>1, <2>1 DEF IInv, Stored, Verifies
  <2> QED  BY <1>1, <2>2 DEF IInv, Stored, Writing
<1>3. CASE VerifyHead
  <2> DEFINE found == IF ~verifier.late THEN "idle"
                      ELSE IF Verified(verifier.rows, head) THEN "intact" ELSE "broken"
  <2>1. /\ verifier.phase = "rows"
        /\ verifier' = [phase |-> found, rows |-> {}, late |-> verifier.late]
    BY <1>3 DEF VerifyHead
  <2>2. found # "intact" /\ found # "rows"
    <3>1. ASSUME verifier.late PROVE ~ Verified(verifier.rows, head)
      <4>1. head.count \in Nat /\ Cardinality(verifier.rows) \in Nat
        BY FS_CardinalityType DEF IInv, Verifies, Stored, AuditHead
      <4>2. Cardinality(verifier.rows) < head.count
        BY <2>1, <3>1 DEF IInv, Verifies
      <4> QED  BY <4>1, <4>2 DEF Verified
    <3> QED  BY <3>1
  <2>3. found \in {"idle", "intact", "broken"} /\ verifier.late \in BOOLEAN
    BY DEF IInv, Verifies
  <2> HIDE DEF found
  <2>4. Verifies'
    BY <2>1, <2>2, <2>3, FS_EmptySet DEF Verifies
  <2> QED  BY <1>1, <2>4 DEF IInv, Stored, Writing
<1> QED  BY <1>2, <1>3

\* Records disappear: the checkpoint counts more than are left.  What a writer in flight
\* has read is the end of the trail, or the place it goes by is still taken.
LEMMA DeleteKeeps ==
    ASSUME AuditAssumption, IInv, DeleteRecords, ~ overtaken'
    PROVE  IInv'
<1>1. PICK S \in (SUBSET rows) \ {{}} :
         /\ rows' = rows \ S
         /\ overtaken' = (overtaken \/ \E w \in Writers, r \in S : Awaits(w, r))
  BY DEF DeleteRecords
<1>2. /\ head # NoHead /\ deleted < MaxDeletions /\ deleted' = deleted + 1
      /\ UNCHANGED <<head, nextSeq, tx, begun, verifier>>
  BY DEF DeleteRecords
<1>3. /\ rows \in SUBSET Record /\ IsFiniteSet(rows) /\ head \in AuditHead
      /\ Cardinality(rows) \in Nat /\ deleted \in 0 .. MaxDeletions
  BY FS_CardinalityType DEF IInv, Stored
<1>4. Cardinality(rows) <= head.count
  <2>1. deleted = 0 => Cardinality(rows) = head.count
    BY <1>2 DEF IInv, Stored, Chain, NowOf
  <2>2. deleted > 0 => Cardinality(rows) < head.count
    BY DEF IInv, Stored
  <2> QED  BY <1>3, <2>1, <2>2 DEF AuditHead
<1>5. IsFiniteSet(rows') /\ Cardinality(rows') < head.count
  <2>1. IsFiniteSet(rows') /\ rows' \subseteq rows /\ rows' # rows
    BY <1>1, <1>3, FS_Subset
  <2>2. Cardinality(rows') \in Nat /\ Cardinality(rows') < Cardinality(rows)
    BY <1>3, <2>1, FS_Subset, FS_CardinalityType
  <2> QED  BY <1>3, <1>4, <2>1, <2>2 DEF AuditHead
<1>6. Stored'
  BY <1>1, <1>2, <1>3, <1>5 DEF IInv, Stored, AuditAssumption
<1>7. Verifies'
  BY <1>2 DEF IInv, Verifies
<1>8. deleted' # 0 /\ NowOf(rows', head) = head /\ NowOf(rows, head) = head
  BY <1>2, <1>3 DEF NowOf
<1>9. Writing'
  <2>1. ASSUME NEW w \in Writers PROVE Good(tx[w], w, rows', head, nextSeq, deleted')
    <3> DEFINE t == tx[w]
    <3>1. Shape(t, w, nextSeq) /\ Holds(t, w, rows, head, deleted) /\ Knows(t, rows, head)
      BY DEF IInv, Writing, Good
    <3>2. \A r \in S : t.known = NoHead \/ r.prev # t.known.hash
      BY <1>1 DEF Awaits
    <3> HIDE DEF t
    <3>3. Holds(t, w, rows', head, deleted')
      BY <1>8, <3>1 DEF Holds
    <3>4. TipOf(t, rows', head) = TipOf(t, rows, head)
      BY <1>8 DEF TipOf
    <3>5. rows' \subseteq rows /\ \A r \in rows : r \in rows' \/ r \in S
      BY <1>1
    <3>6. t.known # NoHead =>
             t.known = TipOf(t, rows', head) \/ \E r \in rows' : r.prev = t.known.hash
      BY <3>1, <3>2, <3>4, <3>5 DEF Knows
    <3>7. t.phase \in Placing /\ Current(t, rows', head) => Current(t, rows, head)
      BY <3>1, <3>2, <3>5 DEF Current, Shape
    <3>8. Knows(t, rows', head)
      BY <1>2, <3>1, <3>4, <3>5, <3>6, <3>7 DEF Knows
    <3> QED  BY <3>1, <3>3, <3>8 DEF Good, t
  <2> QED  BY <1>2, <2>1 DEF IInv, Writing
<1> QED  BY <1>6, <1>7, <1>9 DEF IInv

\* The empty trail and a legacy one satisfy the invariant.
LEMMA InitIInv ==
    ASSUME AuditAssumption, Init
    PROVE  IInv
<1>1. PICK n \in 0 .. MaxLegacy : rows = LegacyRows(n) /\ nextSeq = n + 1
  BY DEF Init
<1>2. /\ head = NoHead /\ tx = [w \in Writers |-> IdleTx] /\ begun = 0 /\ deleted = 0
      /\ verifier = [phase |-> "idle", rows |-> {}, late |-> FALSE]
  BY DEF Init
<1>3. /\ rows \in SUBSET Record /\ IsFiniteSet(rows) /\ \A r \in rows : r.seq < nextSeq
      /\ Chain(rows, [hash |-> LegacyHash(n), count |-> n])
  BY <1>1, LegacyChain
<1>4. Stored
  <2>1. Chain(rows, NowOf(rows, head))
    BY <1>2, <1>3 DEF Chain, NowOf
  <2>2. head \in AuditHead
    BY <1>2 DEF NoHead, AuditHead, Hash
  <2> QED  BY <1>1, <1>2, <1>3, <2>1, <2>2 DEF Stored, AuditAssumption
<1>5. Verifies
  BY <1>2, FS_EmptySet DEF Verifies
<1>6. Writing
  <2>1. ASSUME NEW w PROVE Good(IdleTx, w, rows, head, nextSeq, deleted) /\ IdleTx.added = {}
                           /\ IdleTx.head = NoHead
    BY IdleIsGood
  <2>2. IdleTx \in TxRow
    BY <2>1 DEF Good, Shape
  <2> HIDE DEF IdleTx
  <2> QED  BY <1>2, <2>1, <2>2 DEF Writing, Apart
<1> QED  BY <1>4, <1>5, <1>6 DEF IInv

\* Every step keeps the invariant.
LEMMA NextIInv ==
    ASSUME AuditAssumption, IInv, [Next]_vars, ~ overtaken'
    PROVE  IInv'
<1>1. CASE UNCHANGED vars
  BY <1>1 DEF vars, IInv, Stored, Verifies, Writing
<1>2. ASSUME NEW w \in Writers, Begin(w) \/ WriterStep(w) \/ Abort(w) PROVE IInv'
  BY <1>2, BeginKeeps, ReadHeadKeeps, ReadTailKeeps, CountTailKeeps, TakeNumberKeeps,
     InsertKeeps, CheckpointKeeps, CommitKeeps, AbortKeeps DEF WriterStep
<1>3. CASE VerifyRows \/ VerifyHead
  BY <1>3, VerifyKeeps
<1>4. CASE DeleteRecords
  BY <1>4, DeleteKeeps
<1> QED  BY <1>1, <1>2, <1>3, <1>4 DEF Next

------------------------------------------------------------------------------
(* What no deletion changes.                                               *)

\* A step of one writer keeps the types if its transaction has them.
LEMMA TypedStep ==
    ASSUME TrailTyped, NEW w \in Writers, NEW t \in TxRow, tx' = [tx EXCEPT ![w] = t],
           UNCHANGED <<rows, head, deleted, overtaken, verifier>>,
           begun' \in 0 .. MaxTransactions, nextSeq' \in Nat, nextSeq <= nextSeq',
           IsFiniteSet(t.added), \A r \in t.added : r.seq < nextSeq',
           t.phase \in {"insert", "checkpoint"} => t.seq < nextSeq',
           t.phase \in Appending => t.done < MaxAppends
    PROVE  TrailTyped'
<1>1. tx' \in [Writers -> TxRow] /\ tx'[w] = t /\ \A v \in Others(w) : tx'[v] = tx[v]
  BY DEF TrailTyped, Others
<1>2. \A r \in rows : r.seq < nextSeq'
  BY DEF TrailTyped, Record
<1>3. ASSUME NEW v \in Others(w)
      PROVE  /\ IsFiniteSet(tx[v].added)
             /\ \A r \in tx[v].added : r.seq < nextSeq'
             /\ tx[v].phase \in {"insert", "checkpoint"} => tx[v].seq < nextSeq'
             /\ tx[v].phase \in Appending => tx[v].done < MaxAppends
  <2>1. v \in Writers /\ tx[v] \in TxRow
    BY DEF TrailTyped, Others
  <2>2. \A r \in tx[v].added : r.seq \in Nat /\ r.seq < nextSeq
    BY <2>1 DEF TrailTyped, TxRow, Record
  <2>3. tx[v].seq \in Nat
    BY <2>1 DEF TxRow
  <2> QED  BY <2>1, <2>2, <2>3 DEF TrailTyped
<1> QED  BY <1>1, <1>2, <1>3 DEF TrailTyped, Others

\* What the steps of a writer start from.
LEMMA TypedFacts ==
    ASSUME TrailTyped, NEW w \in Writers
    PROVE  /\ tx[w] \in TxRow /\ IsFiniteSet(tx[w].added)
           /\ \A r \in tx[w].added : r.seq < nextSeq
           /\ QueriedHead(w) \in AuditHead
           /\ TailHash(Visible(w)) \in Hash /\ Cardinality(Visible(w)) \in Nat
           /\ begun \in 0 .. MaxTransactions /\ nextSeq \in Nat /\ nextSeq <= nextSeq
<1>1. tx[w] \in TxRow /\ IsFiniteSet(tx[w].added) /\ \A r \in tx[w].added : r.seq < nextSeq
  BY DEF TrailTyped
<1>2. QueriedHead(w) \in AuditHead
  BY <1>1 DEF QueriedHead, TrailTyped, TxRow
<1>3. /\ Visible(w) \in SUBSET Record /\ IsFiniteSet(Visible(w))
      /\ \A r \in Visible(w) : r.seq < nextSeq
  BY <1>1, FS_Union DEF Visible, TrailTyped, TxRow
<1>4. nextSeq \in Nat /\ begun \in 0 .. MaxTransactions
  BY DEF TrailTyped
<1> QED  BY <1>1, <1>2, <1>3, <1>4, TailExists, FS_CardinalityType

\* A transaction that begins, ends, fails or has lost an attempt.
LEMMA RestTyped ==
    ASSUME AuditAssumption, TrailTyped, NEW w \in Writers, NEW t,
           t \in {IdleTx, [IdleTx EXCEPT !.phase = "ready"], [IdleTx EXCEPT !.phase = "failed"]},
           tx' = [tx EXCEPT ![w] = t], begun' \in 0 .. MaxTransactions,
           UNCHANGED <<rows, head, nextSeq, deleted, overtaken, verifier>>
    PROVE  TrailTyped'
<1>1. Good(t, w, rows, head, nextSeq, deleted) /\ t.added = {} /\ t.head = NoHead
  BY IdleIsGood
<1>2. t \in TxRow /\ t.phase \in Resting \cup {"ready"}
  BY <1>1 DEF Good, Shape, IdleTx, Resting
<1>3. t.phase \notin Appending /\ t.phase \notin {"insert", "checkpoint"}
  BY <1>2 DEF Resting, Appending, Adopting, Placing
<1>4. nextSeq' \in Nat /\ nextSeq <= nextSeq' /\ IsFiniteSet(t.added)
  BY <1>1, FS_EmptySet DEF TrailTyped
<1>5. \A r \in t.added : r.seq < nextSeq'
  BY <1>1
<1> QED  BY <1>2, <1>3, <1>4, <1>5, TypedStep

\* A lost attempt.
LEMMA LoseTyped ==
    ASSUME AuditAssumption, TrailTyped, NEW w \in Writers, Lose(w),
           UNCHANGED <<rows, head, nextSeq, begun, deleted, overtaken, verifier>>
    PROVE  TrailTyped'
<1> DEFINE o == tx[w]
           kept == {r \in o.added : r.seq # o.seq}
           t == Between(kept, o.head, o.known, o.tries + 1, o.done)
<1>1. begun' \in 0 .. MaxTransactions /\ nextSeq' \in Nat /\ nextSeq <= nextSeq'
  BY TypedFacts
<1>2. CASE o.tries + 1 = Retries
  BY <1>1, <1>2, RestTyped DEF Lose, Set
<1>3. CASE o.tries + 1 # Retries
  <2>1. o \in TxRow /\ IsFiniteSet(o.added) /\ \A r \in o.added : r.seq < nextSeq'
    BY TypedFacts
  <2>2. tx' = [tx EXCEPT ![w] = t]
    BY <1>3 DEF Lose, Set
  <2>3. o.tries + 1 \in 0 .. Retries - 1 /\ <<>> \in Hash
    BY <1>3, <2>1 DEF TxRow, AuditAssumption, Hash
  <2>4. t \in TxRow
    BY <2>1, <2>3 DEF TxRow, Between
  <2>5. t.phase \notin Appending /\ t.phase \notin {"insert", "checkpoint"}
    BY DEF Appending, Adopting, Placing, Between
  <2>6. IsFiniteSet(t.added) /\ \A r \in t.added : r.seq < nextSeq'
    BY <2>1, FS_Subset DEF Between
  <2> HIDE DEF t
  <2> QED  BY <1>1, <2>2, <2>4, <2>5, <2>6, TypedStep
<1> QED  BY <1>2, <1>3

\* A writer's step of an append, won or lost.
LEMMA WriterTyped ==
    ASSUME AuditAssumption, TrailTyped, NEW w \in Writers,
           Begin(w) \/ WriterStep(w) \/ Abort(w)
    PROVE  TrailTyped'
<1> DEFINE o == tx[w]
<1>0. /\ o \in TxRow /\ IsFiniteSet(o.added) /\ \A r \in o.added : r.seq < nextSeq
      /\ QueriedHead(w) \in AuditHead
      /\ TailHash(Visible(w)) \in Hash /\ Cardinality(Visible(w)) \in Nat
      /\ begun \in 0 .. MaxTransactions /\ nextSeq \in Nat /\ nextSeq <= nextSeq
  BY TypedFacts
<1>00. o.phase \in Appending => o.done < MaxAppends
  BY DEF TrailTyped
<1>1. CASE Begin(w)
  <2>1. begun' \in 0 .. MaxTransactions
    BY <1>0, <1>1 DEF Begin, AuditAssumption
  <2> QED  BY <1>1, <2>1, RestTyped DEF Begin, Set
<1>2. CASE Abort(w)
  BY <1>0, <1>2, RestTyped DEF Abort, Set
<1>3. CASE ReadHead(w)
  <2> DEFINE h == QueriedHead(w)
             t == [o EXCEPT !.known = h, !.prev = h.hash, !.count = h.count,
                            !.phase = IF h = NoHead THEN "tail" ELSE "number"]
  <2>1. t \in TxRow
    BY <1>0 DEF TxRow, AuditHead, Appending, Adopting, Placing
  <2>2. t.added = o.added /\ t.phase \in {"tail", "number"} /\ t.done = o.done
    BY <1>0 DEF TxRow
  <2>3. o.done < MaxAppends /\ tx' = [tx EXCEPT ![w] = t]
        /\ UNCHANGED <<rows, head, nextSeq, begun, deleted, overtaken, verifier>>
    BY <1>3 DEF ReadHead, Set
  <2> HIDE DEF t
  <2> QED  BY <1>0, <2>1, <2>2, <2>3, TypedStep
<1>4. CASE ReadTail(w)
  <2> DEFINE t == [o EXCEPT !.prev = TailHash(Visible(w)), !.phase = "count"]
  <2>1. t \in TxRow
    BY <1>0 DEF TxRow, Appending, Adopting
  <2>2. t.added = o.added /\ t.phase = "count" /\ t.done = o.done
    BY <1>0 DEF TxRow
  <2>3. o.done < MaxAppends
    BY <1>4, <1>00 DEF ReadTail, Appending, Adopting
  <2>4. tx' = [tx EXCEPT ![w] = t]
        /\ UNCHANGED <<rows, head, nextSeq, begun, deleted, overtaken, verifier>>
    BY <1>4 DEF ReadTail, Set
  <2> HIDE DEF t
  <2> QED  BY <1>0, <2>1, <2>2, <2>3, <2>4, TypedStep
<1>5. CASE CountTail(w)
  <2> DEFINE t == [o EXCEPT !.count = Cardinality(Visible(w)), !.phase = "number"]
  <2>1. t \in TxRow
    BY <1>0 DEF TxRow, Appending, Placing
  <2>2. t.added = o.added /\ t.phase = "number" /\ t.done = o.done
    BY <1>0 DEF TxRow
  <2>3. o.done < MaxAppends
    BY <1>5, <1>00 DEF CountTail, Appending, Adopting
  <2>4. tx' = [tx EXCEPT ![w] = t]
        /\ UNCHANGED <<rows, head, nextSeq, begun, deleted, overtaken, verifier>>
    BY <1>5 DEF CountTail, Set
  <2> HIDE DEF t
  <2> QED  BY <1>0, <2>1, <2>2, <2>3, <2>4, TypedStep
<1>6. CASE TakeNumber(w)
  <2> DEFINE t == [o EXCEPT !.seq = nextSeq, !.phase = "insert"]
  <2>1. t \in TxRow
    BY <1>0 DEF TxRow, Appending, Placing
  <2>2. t.added = o.added /\ t.phase = "insert" /\ t.done = o.done /\ t.seq = nextSeq
    BY <1>0 DEF TxRow
  <2>3. o.done < MaxAppends
    BY <1>6, <1>00 DEF TakeNumber, Appending, Placing
  <2>4. tx' = [tx EXCEPT ![w] = t] /\ nextSeq' = nextSeq + 1
        /\ UNCHANGED <<rows, head, begun, deleted, overtaken, verifier>>
    BY <1>6 DEF TakeNumber, Set
  <2>5. /\ \A r \in o.added : r.seq < nextSeq'
        /\ nextSeq' \in Nat /\ nextSeq <= nextSeq' /\ nextSeq < nextSeq'
    BY <1>0, <2>4 DEF TxRow, Record
  <2> HIDE DEF t
  <2> QED  BY <1>0, <2>1, <2>2, <2>3, <2>4, <2>5, TypedStep
<1>7. CASE Insert(w)
  <2> DEFINE rec == [seq |-> o.seq, prev |-> o.prev, hash |-> Append(o.prev, w)]
             t == [o EXCEPT !.phase = "checkpoint", !.added = @ \cup {rec}]
  <2>1. UNCHANGED <<rows, head, nextSeq, begun, deleted, overtaken, verifier>>
        /\ o.phase = "insert"
    BY <1>7 DEF Insert
  <2>2. CASE Claimed(Visible(w), o.prev)
    BY <1>7, <2>1, <2>2, LoseTyped DEF Insert
  <2>3. CASE ~ Claimed(Visible(w), o.prev)
    <3>1. rec \in Record
      BY <1>0, AppendExtends DEF Record, TxRow, Payloads
    <3>2. t \in TxRow
      BY <1>0, <3>1 DEF TxRow, Appending, Placing
    <3>3. /\ t.added = o.added \cup {rec} /\ t.phase = "checkpoint" /\ t.done = o.done
          /\ t.seq = o.seq /\ rec.seq = o.seq
      BY <1>0 DEF TxRow
    <3>4. o.done < MaxAppends /\ o.seq < nextSeq
      BY <2>1, <1>00 DEF Appending, Placing, TrailTyped
    <3>5. tx' = [tx EXCEPT ![w] = t]
      BY <1>7, <2>3 DEF Insert, Set
    <3> HIDE DEF t, rec
    <3>6. IsFiniteSet(t.added) /\ \A r \in t.added : r.seq < nextSeq
      BY <1>0, <3>3, <3>4, FS_AddElement
    <3> QED  BY <1>0, <2>1, <3>2, <3>3, <3>4, <3>5, <3>6, TypedStep
  <2> QED  BY <2>2, <2>3
<1>8. CASE Checkpoint(w)
  <2> DEFINE new == NewHead(w)
             t == Between(o.added, new, NoHead, 0, o.done + 1)
  <2>1. UNCHANGED <<rows, head, nextSeq, begun, deleted, overtaken, verifier>>
        /\ o.phase = "checkpoint"
    BY <1>8 DEF Checkpoint
  <2>2. CASE o.known = NoHead /\ head # NoHead
    BY <1>8, <2>1, <2>2, LoseTyped DEF Checkpoint
  <2>3. CASE ~ (o.known = NoHead /\ head # NoHead)
    <3>1. new \in AuditHead
      <4>1. Append(o.prev, w) \in Hash
        BY <1>0, AppendExtends DEF TxRow, Payloads
      <4> QED  BY <1>0, <4>1 DEF NewHead, AuditHead, TxRow
    <3>2. o.done + 1 \in 0 .. MaxAppends
      <4>1. o.done < MaxAppends /\ o.done \in 0 .. MaxAppends
        BY <1>0, <2>1, <1>00 DEF Appending, Placing, TxRow
      <4> QED  BY <4>1 DEF AuditAssumption
    <3>3. NoHead \in AuditHead /\ <<>> \in Hash /\ 0 \in 0 .. Retries - 1
      BY DEF NoHead, AuditHead, Hash, AuditAssumption
    <3>4. tx' = [tx EXCEPT ![w] = t]
      BY <1>8, <2>3 DEF Checkpoint, Set
    <3> HIDE DEF new
    <3>5. t \in TxRow
      BY <1>0, <3>1, <3>2, <3>3 DEF TxRow, Between
    <3>6. t.added = o.added /\ t.phase \notin Appending
          /\ t.phase \notin {"insert", "checkpoint"}
      BY DEF Appending, Adopting, Placing, Between
    <3> HIDE DEF t
    <3> QED  BY <1>0, <2>1, <3>4, <3>5, <3>6, TypedStep
  <2> QED  BY <2>2, <2>3
<1>9. CASE Commit(w)
  <2>1. /\ rows' = rows \cup o.added /\ head' = o.head
        /\ tx' = [tx EXCEPT ![w] = IdleTx]
        /\ UNCHANGED <<nextSeq, begun, deleted, overtaken, verifier>>
    BY <1>9 DEF Commit, Set
  <2>2. /\ rows' \in SUBSET Record /\ IsFiniteSet(rows') /\ head' \in AuditHead
        /\ \A r \in rows' : r.seq < nextSeq
    BY <1>0, <2>1, FS_Union DEF TrailTyped, TxRow
  <2>3. Good(IdleTx, w, rows, head, nextSeq, deleted) /\ IdleTx.added = {}
    BY IdleIsGood
  <2>4. IdleTx \in TxRow /\ IdleTx.phase = "idle" /\ IsFiniteSet(IdleTx.added)
    BY <2>3, FS_EmptySet DEF Good, Shape, IdleTx
  <2>5. /\ tx' \in [Writers -> TxRow] /\ tx'[w] = IdleTx
        /\ \A v \in Others(w) : tx'[v] = tx[v]
    BY <2>1, <2>4 DEF TrailTyped, Others
  <2>6. "idle" \notin Appending
    BY DEF Appending, Adopting, Placing
  <2> HIDE DEF IdleTx
  <2>7. ASSUME NEW v \in Writers
        PROVE  /\ IsFiniteSet(tx'[v].added)
               /\ \A r \in tx'[v].added : r.seq < nextSeq
               /\ tx'[v].phase \in {"insert", "checkpoint"} => tx'[v].seq < nextSeq
               /\ tx'[v].phase \in Appending => tx'[v].done < MaxAppends
    <3>1. CASE v = w
      BY <2>3, <2>4, <2>5, <2>6, <3>1
    <3>2. CASE v # w
      BY <2>5, <3>2 DEF TrailTyped, Others
    <3> QED  BY <3>1, <3>2
  <2> QED  BY <2>1, <2>2, <2>5, <2>7 DEF TrailTyped
<1> QED
  BY <1>1, <1>2, <1>3, <1>4, <1>5, <1>6, <1>7, <1>8, <1>9 DEF WriterStep

\* Every step keeps the types.
LEMMA NextTyped ==
    ASSUME AuditAssumption, TrailTyped, [Next]_vars
    PROVE  TrailTyped'
<1>1. CASE UNCHANGED vars
  BY <1>1 DEF vars, TrailTyped
<1>2. ASSUME NEW w \in Writers, Begin(w) \/ WriterStep(w) \/ Abort(w) PROVE TrailTyped'
  BY <1>2, WriterTyped
<1>3. CASE VerifyRows
  <2>1. verifier' \in [phase : {"idle", "rows", "intact", "broken"},
                       rows : SUBSET Record, late : BOOLEAN]
    BY <1>3 DEF VerifyRows, TrailTyped
  <2> QED  BY <1>3, <2>1 DEF VerifyRows, TrailTyped
<1>4. CASE VerifyHead
  <2>1. verifier' \in [phase : {"idle", "rows", "intact", "broken"},
                       rows : SUBSET Record, late : BOOLEAN]
    BY <1>4 DEF VerifyHead, TrailTyped
  <2> QED  BY <1>4, <2>1 DEF VerifyHead, TrailTyped
<1>5. CASE DeleteRecords
  <2>1. rows' \subseteq rows /\ overtaken' \in BOOLEAN /\ deleted' = deleted + 1
        /\ deleted < MaxDeletions /\ UNCHANGED <<head, nextSeq, tx, begun, verifier>>
    BY <1>5 DEF DeleteRecords, TrailTyped
  <2>2. IsFiniteSet(rows') /\ deleted' \in 0 .. MaxDeletions /\ deleted' > 0
    BY <2>1, FS_Subset DEF TrailTyped, AuditAssumption
  <2> QED  BY <2>1, <2>2 DEF TrailTyped
<1> QED  BY <1>1, <1>2, <1>3, <1>4, <1>5 DEF Next

------------------------------------------------------------------------------
(* What the trail promises.                                                *)

\* The initial trail, empty or a legacy one, can be trusted.
LEMMA InitTrustworthy ==
    ASSUME AuditAssumption, Init
    PROVE  Trustworthy
<1>1. IInv /\ overtaken = FALSE /\ tx = [w \in Writers |-> IdleTx]
  BY InitIInv DEF Init
<1>2. IdleTx.phase = "idle" /\ IdleTx.added = {} /\ IsFiniteSet(IdleTx.added)
  BY FS_EmptySet DEF IdleTx
<1>3. "idle" \notin Appending
  BY DEF Appending, Adopting, Placing
<1> HIDE DEF IdleTx
<1> QED  BY <1>1, <1>2, <1>3 DEF IInv, Stored, Verifies, Writing, TrailTyped, Trustworthy

\* An append that was overtaken stays so.
LEMMA OvertakenForGood ==
    ASSUME [Next]_vars, overtaken
    PROVE  overtaken'
BY DEF Next, vars, Begin, WriterStep, ReadHead, ReadTail, CountTail, TakeNumber, Insert,
       Checkpoint, Commit, Abort, VerifyRows, VerifyHead, DeleteRecords

\* A trail that no deletion has overtaken stays one that can be trusted, unless one does.
LEMMA NextTrustworthy ==
    ASSUME AuditAssumption, Trustworthy, [Next]_vars
    PROVE  Trustworthy'
<1>1. TrailTyped'
  BY NextTyped DEF Trustworthy
<1>2. ASSUME ~ overtaken' PROVE IInv'
  BY <1>2, OvertakenForGood, NextIInv DEF Trustworthy
<1> QED  BY <1>1, <1>2 DEF Trustworthy

\* The invariant above holds in every reachable state until a deletion overtakes an
\* append in flight: the records are one chain, and a transaction goes by the
\* checkpoint or will be refused.
THEOREM ChainInductive == Spec => []Trustworthy
<1>1. Init => Trustworthy
  BY AuditAssumption, InitTrustworthy
<1>2. Trustworthy /\ [Next]_vars => Trustworthy'
  BY AuditAssumption, NextTrustworthy
<1> QED  BY <1>1, <1>2, PTL DEF Spec

\* Every variable holds values of its type, whatever is deleted.
THEOREM ChainTypeCorrect == Spec => []TypeOK
<1>1. Trustworthy => TypeOK
  BY DEF Trustworthy, TrailTyped, TypeOK, TxRow, Resting, Appending, Adopting, Placing
<1> QED  BY <1>1, ChainInductive, PTL

\* However many writers interleave, the checkpoint agrees with the committed records.
THEOREM CheckpointIsRight == Spec => []CheckpointAgrees
<1>1. Trustworthy => CheckpointAgrees
  <2>1. head = NoHead => ~ (head.count > 0)
    BY DEF NoHead
  <2>2. head # NoHead => NowOf(rows, head) = head
    BY DEF NowOf
  <2>3. Trustworthy /\ deleted = 0 => IInv
    BY DEF Trustworthy, TrailTyped
  <2> QED  BY <2>1, <2>2, <2>3 DEF IInv, Stored, CheckpointAgrees, Verified, Chain
<1> QED  BY <1>1, ChainInductive, PTL

\* A verification begun after a deletion never finds the chain intact, whatever was
\* being appended when the records disappeared and whatever is appended later, unless
\* an append in flight went by a place that the deletion gave back.
THEOREM DeletionIsFound == Spec => []DeletionDetected
<1>1. Trustworthy => DeletionDetected
  BY DEF Trustworthy, IInv, Verifies, DeletionDetected
<1> QED  BY <1>1, ChainInductive, PTL

\* Every step of the trail appends to it or leaves it as it was, unless a deletion has
\* overtaken an append.
LEMMA TrailGrows ==
    ASSUME IInv, [Next]_vars, ~ overtaken, overtaken' = overtaken
    PROVE  [Promise!Grow]_<<Trail, overtaken>>
<1> DEFINE now == NowOf(rows, head)
<1>1. Trail = now.hash
  BY DEF Trail, NowOf
<1>2. CASE UNCHANGED <<rows, head>>
  BY <1>2 DEF Trail
<1>3. ASSUME NEW w \in Writers, Commit(w) PROVE Promise!Grow
  <2>1. /\ Good(tx[w], w, rows, head, nextSeq, deleted) /\ now \in AuditHead
        /\ tx[w] \in TxRow
    BY Facts
  <2>2. tx[w].head # NoHead /\ head' = tx[w].head
    BY <1>3, <2>1 DEF Commit, Good, Shape, Counted
  <2>3. Extends(tx[w].head.hash, now.hash)
    BY <2>1, <2>2 DEF Good, Holds
  <2>4. Trail' = tx[w].head.hash
    BY <2>2 DEF Trail
  <2>5. Len(now.hash) \in Nat
    BY <2>1 DEF AuditHead, Hash
  <2> QED  BY <1>1, <2>3, <2>4, <2>5 DEF Promise!Grow, Extends
<1>4. CASE DeleteRecords
  BY <1>4 DEF DeleteRecords, Trail
<1> QED
  BY <1>2, <1>3, <1>4 DEF Next, vars, WriterStep, Begin, ReadHead, ReadTail, CountTail,
                          TakeNumber, Insert, Checkpoint, Abort, VerifyRows, VerifyHead

\* The detailed trail implements the log that is promised: it grows at its end only,
\* whatever writers interleave and whatever is deleted, until a deletion overtakes an
\* append.
THEOREM TrailIsALog == Spec => ImplementsAppendOnlyLog
<1>1. Trustworthy => Trail \in Hash /\ overtaken \in BOOLEAN
  <2>1. Trustworthy => TailHash(rows) \in Hash /\ head \in AuditHead /\ overtaken \in BOOLEAN
    BY TailExists DEF Trustworthy, TrailTyped
  <2> QED  BY <2>1 DEF Trail, AuditHead
<1>2. Init => Promise!Init
  <2>1. Init => Trustworthy /\ overtaken = FALSE
    BY AuditAssumption, InitTrustworthy DEF Init
  <2> QED  BY <1>1, <2>1 DEF Promise!Init, Hash
<1>3. ASSUME Trustworthy, [Next]_vars, Trustworthy'
      PROVE  [Promise!Grow \/ Promise!Overwrite]_<<Trail, overtaken>>
  <2>1. CASE ~ overtaken'
    <3>1. ~ overtaken /\ overtaken' = overtaken
      <4>1. overtaken \in BOOLEAN /\ overtaken' \in BOOLEAN
        BY <1>3 DEF Trustworthy, TrailTyped
      <4> QED  BY <1>3, <2>1, <4>1, OvertakenForGood
    <3> QED  BY <1>3, <2>1, <3>1, TrailGrows DEF Trustworthy
  <2>2. CASE overtaken'
    <3>1. Trail' \in Hash /\ overtaken' = TRUE
      <4>1. TailHash(rows)' \in Hash /\ head' \in AuditHead /\ overtaken' \in BOOLEAN
        <5>1. /\ rows' \in SUBSET Record /\ nextSeq' \in Nat /\ \A r \in rows' : r.seq < nextSeq'
              /\ head' \in AuditHead /\ overtaken' \in BOOLEAN
          BY <1>3 DEF Trustworthy, TrailTyped
        <5>2. TailHash(rows') \in Hash
          BY <5>1, TailExists
        <5> QED  BY <5>1, <5>2 DEF TailHash
      <4> QED  BY <2>2, <4>1 DEF Trail, AuditHead
    <3> QED  BY <3>1 DEF Promise!Overwrite, Hash
  <2> QED  BY <2>1, <2>2
<1> QED  BY <1>2, <1>3, ChainInductive, PTL DEF Spec, Promise!Spec, ImplementsAppendOnlyLog

------------------------------------------------------------------------------
(* The evidence file of the lab.                                           *)

Saving    == {"locked", "read", "written"}
LabPhases == {"idle", "runtime", "save", "commit"} \cup Saving

\* The runs of a file to which one is added, as far as it keeps them.
With(r, runs) == SubSeq(<<r>> \o runs, 1, IF Len(runs) < Keep THEN Len(runs) + 1 ELSE Keep)

IsRequest(q) ==
    /\ DOMAIN q = {"phase", "org", "findings", "answers", "run", "runs"}
    /\ q = [field \in DOMAIN q |-> q[field]]

\* What a process has read before it replaces the file is still all of it.
GoodRequest(q, runs) ==
    /\ IsRequest(q)
    /\ q.phase \in LabPhases
    /\ q.phase # "idle" => q.org \in Orgs /\ q.run \in RunIds
    /\ q.phase \in {"read", "written"} => \E r \in RunRow : q.runs = With(r, runs)

\* One process at most is between the lock and the replacement.
LabInv ==
    /\ worker = [w \in Workers |-> worker[w]]
    /\ file.runs \in Seq(RunRow) /\ Len(file.runs) <= Keep
    /\ \A w \in Workers : /\ GoodRequest(worker[w], file.runs)
                          /\ worker[w].phase \in Saving <=> lock = w

LEMMA WithFacts ==
    ASSUME NEW r \in RunRow, NEW runs \in Seq(RunRow), Len(runs) <= Keep
    PROVE  /\ With(r, runs) \in Seq(RunRow) /\ Len(With(r, runs)) <= Keep
           /\ Len(With(r, runs)) \in {Len(runs) + 1, Keep}
           /\ With(r, runs) = SubSeq(<<r>> \o runs, 1, Len(With(r, runs)))
<1> DEFINE n == IF Len(runs) < Keep THEN Len(runs) + 1 ELSE Keep
           all == <<r>> \o runs
<1>1. all \in Seq(RunRow) /\ Len(all) = Len(runs) + 1
  OBVIOUS
<1>2. n \in 1 .. Len(all) /\ n <= Keep /\ n \in {Len(runs) + 1, Keep}
  BY <1>1, LabAssumption
<1> HIDE DEF n, all
<1>3. SubSeq(all, 1, n) \in Seq(RunRow) /\ Len(SubSeq(all, 1, n)) = n
  BY <1>1, <1>2
<1>4. With(r, runs) = SubSeq(all, 1, n)
  BY DEF With, all, n
<1> QED  BY <1>2, <1>3, <1>4 DEF all

\* A request that goes on, and takes the lock or gives it back, but leaves the file.
LEMMA RequestMoves ==
    ASSUME LabInv, NEW w \in Workers, NEW q, GoodRequest(q, file.runs),
           worker' = [worker EXCEPT ![w] = q], file' = file,
           q.phase \in Saving => lock' = w /\ lock \in {None, w},
           q.phase \notin Saving => lock' = IF lock = w THEN None ELSE lock
    PROVE  LabInv'
<1>1. ASSUME NEW v \in Workers
      PROVE  worker'[v] = IF v = w THEN q ELSE worker[v]
  BY DEF LabInv
<1>2. worker' = [v \in Workers |-> worker'[v]]
  BY DEF LabInv
<1>3. ASSUME NEW v \in Workers
      PROVE  /\ GoodRequest(worker'[v], file.runs)
             /\ worker'[v].phase \in Saving <=> lock' = v
  <2>1. CASE v = w
    BY <1>1, <2>1, LabAssumption
  <2>2. CASE v # w
    BY <1>1, <2>2, LabAssumption DEF LabInv
  <2> QED  BY <2>1, <2>2
<1> QED  BY <1>2, <1>3 DEF LabInv

\* A request in another phase, with all else as it was.
Moved(q, phase) == [q EXCEPT !.phase = phase]

LEMMA InPhase ==
    ASSUME NEW runs, NEW q, GoodRequest(q, runs), NEW phase \in LabPhases, q.phase # "idle",
           phase \in {"read", "written"} => q.phase \in {"read", "written"}
    PROVE  GoodRequest(Moved(q, phase), runs) /\ Moved(q, phase).phase = phase
<1> DEFINE n == Moved(q, phase)
<1>1. /\ IsRequest(n) /\ n.phase = phase /\ n.org = q.org /\ n.run = q.run /\ n.runs = q.runs
  BY DEF GoodRequest, IsRequest, Moved
<1> HIDE DEF n
<1>2. GoodRequest(n, runs) /\ n.phase = phase
  BY <1>1 DEF GoodRequest
<1> QED  BY <1>2 DEF n

\* The request of a process is what the process has.
LEMMA RequestOf ==
    ASSUME LabInv, NEW w \in Workers
    PROVE  /\ GoodRequest(worker[w], file.runs)
           /\ worker[w].phase \in Saving <=> lock = w
           /\ \A phase : Goto(w, phase) => worker' = [worker EXCEPT ![w] = Moved(worker[w], phase)]
BY DEF LabInv, Goto, Moved

\* A run that is ready to be recorded is a row of the file.
LEMMA ResultIsRow ==
    ASSUME LabInv, NEW w \in Workers, ~At(w, "idle")
    PROVE  Result(w) \in RunRow
BY DEF LabInv, GoodRequest, At, Result, RunRow, Gate, Verdicts

LEMMA IdleKeeps == ASSUME NEW runs PROVE GoodRequest(Idle, runs)
BY DEF GoodRequest, IsRequest, Idle, LabPhases, Saving

\* The file is replaced by what was read of it and one run in front.
LEMMA ReplaceKeeps ==
    ASSUME LabInv, NEW w \in Workers, Replaces(w)
    PROVE  /\ LabInv'
           /\ \E r \in RunRow : file' = [readable |-> TRUE, runs |-> With(r, file.runs)]
<1>1. /\ worker[w].phase = "written" /\ lock = w /\ lock' = None
      /\ file' = [readable |-> TRUE, runs |-> worker[w].runs]
      /\ worker' = [worker EXCEPT ![w] = Moved(worker[w], "commit")]
  BY RequestOf DEF Replaces, At, Saving
<1>2. PICK r \in RunRow : worker[w].runs = With(r, file.runs)
  BY <1>1, RequestOf DEF GoodRequest
<1>3. file'.runs \in Seq(RunRow) /\ Len(file'.runs) <= Keep
  BY <1>1, <1>2, WithFacts DEF LabInv
<1> DEFINE q == Moved(worker[w], "commit")
<1>4. GoodRequest(q, file.runs) /\ q.phase = "commit"
  BY <1>1, RequestOf, InPhase DEF LabPhases
<1>5. worker' = [v \in Workers |-> worker'[v]]
  BY <1>1 DEF LabInv
<1>6. ASSUME NEW v \in Workers
      PROVE  /\ GoodRequest(worker'[v], file'.runs)
             /\ worker'[v].phase \in Saving <=> lock' = v
  <2>1. worker'[v] = IF v = w THEN q ELSE worker[v]
    BY <1>1 DEF LabInv
  <2> HIDE DEF q
  <2>2. CASE v = w
    BY <1>1, <1>4, <2>1, <2>2, LabAssumption DEF GoodRequest, Saving
  <2>3. CASE v # w
    <3>1. worker[v].phase \notin Saving /\ GoodRequest(worker[v], file.runs)
      BY <1>1, <2>3, RequestOf
    <3> QED  BY <1>1, <2>1, <2>3, <3>1, LabAssumption DEF GoodRequest, Saving
  <2> QED  BY <2>2, <2>3
<1>7. LabInv'
  BY <1>3, <1>5, <1>6 DEF LabInv
<1> QED  BY <1>1, <1>2, <1>7

\* Everything else leaves the file alone.
LEMMA OthersKeep ==
    ASSUME LabInv, NEW w \in Workers,
           \/ \E o \in Orgs, packs \in SUBSET Suites, m \in BOOLEAN : Run(w, o, packs, m)
           \/ Delivers(w) \/ Checks(w) \/ Locks(w) \/ Reads(w) \/ WritesTemp(w)
           \/ SaveFails(w) \/ Commits(w) \/ Dies(w)
    PROVE  LabInv' /\ file' = file
<1>0. PICK old : old = worker[w]
  OBVIOUS
<1>1. /\ GoodRequest(old, file.runs) /\ worker[w] = old
      /\ old.phase \in Saving <=> lock = w
      /\ \A phase : Goto(w, phase) => worker' = [worker EXCEPT ![w] = Moved(old, phase)]
  BY <1>0, RequestOf
<1>2. IsRequest(old)
  BY <1>1 DEF GoodRequest
<1>3. ASSUME NEW o \in Orgs, NEW packs \in SUBSET Suites, NEW m \in BOOLEAN, Run(w, o, packs, m)
      PROVE  LabInv' /\ file' = file
  <2> DEFINE start(id) == [Idle EXCEPT !.phase = IF m THEN "runtime"
                                                 ELSE IF IsProd THEN "commit" ELSE "save",
                             !.org = o, !.run = id,
                             !.findings = UNION {ExecuteSuite(s) : s \in packs}]
  <2>1. PICK id \in RunIds : worker' = [worker EXCEPT ![w] = start(id)]
    BY <1>3 DEF Run
  <2> DEFINE first == IF m THEN "runtime" ELSE IF IsProd THEN "commit" ELSE "save"
             found == UNION {ExecuteSuite(s) : s \in packs}
  <2>2. /\ GoodRequest(start(id), file.runs)
        /\ start(id).phase \in {"runtime", "commit", "save"}
    <3>1. first \in {"runtime", "commit", "save"}
      OBVIOUS
    <3> HIDE DEF first, found
    <3>2. IsRequest(Idle)
      BY IdleKeeps DEF GoodRequest
    <3>3. start(id) = [Idle EXCEPT !.phase = first, !.org = o, !.run = id, !.findings = found]
      BY DEF first, found
    <3> HIDE DEF start
    <3>4. IsRequest(start(id)) /\ start(id).phase = first /\ start(id).org = o /\ start(id).run = id
      BY <3>2, <3>3 DEF IsRequest
    <3> QED  BY <3>1, <3>4 DEF GoodRequest, LabPhases
  <2>3. file' = file /\ lock' = lock /\ old.phase = "idle"
    BY <1>1, <1>3 DEF Run, At
  <2> HIDE DEF start
  <2>4. lock # w /\ start(id).phase \notin Saving
    BY <1>1, <2>2, <2>3 DEF Saving
  <2> QED  BY <2>1, <2>2, <2>3, <2>4, RequestMoves
<1>4. CASE Delivers(w)
  <2> DEFINE d == RuntimeSteps[Len(worker[w].answers) + 1]
             q == [old EXCEPT !.answers = Append(old.answers, Answer(d))]
  <2>1. worker' = [worker EXCEPT ![w] = q] /\ file' = file /\ lock' = lock /\ old.phase = "runtime"
    BY <1>1, <1>4 DEF Delivers, At
  <2>2. /\ IsRequest(q) /\ q.phase = old.phase /\ q.org = old.org /\ q.run = old.run
        /\ q.runs = old.runs
    BY <1>2 DEF IsRequest
  <2> HIDE DEF q
  <2>3. GoodRequest(q, file.runs) /\ q.phase \notin Saving /\ lock # w
    BY <1>1, <2>1, <2>2 DEF GoodRequest, Saving
  <2> QED  BY <2>1, <2>3, RequestMoves
<1>5. CASE Checks(w)
  <2> DEFINE q == [old EXCEPT !.phase = "save", !.answers = <<>>,
                              !.findings = old.findings \cup RuntimeFindings(w)]
  <2>1. worker' = [worker EXCEPT ![w] = q] /\ file' = file /\ lock' = lock /\ old.phase = "runtime"
    BY <1>1, <1>5 DEF Checks, At
  <2>2. IsRequest(q) /\ q.phase = "save" /\ q.org = old.org /\ q.run = old.run
    BY <1>2 DEF IsRequest
  <2> HIDE DEF q
  <2>3. GoodRequest(q, file.runs) /\ q.phase \notin Saving /\ lock # w
    BY <1>1, <2>1, <2>2 DEF GoodRequest, Saving, LabPhases
  <2> QED  BY <2>1, <2>3, RequestMoves
<1>6. CASE Locks(w)
  <2>1. /\ worker' = [worker EXCEPT ![w] = Moved(old, "locked")]
        /\ file' = file /\ lock = None /\ lock' = w /\ old.phase = "save"
    BY <1>1, <1>6 DEF Locks, At
  <2>2. /\ GoodRequest(Moved(old, "locked"), file.runs)
        /\ Moved(old, "locked").phase = "locked"
    BY <1>1, <2>1, InPhase DEF LabPhases, Saving
  <2> QED  BY <2>1, <2>2, RequestMoves DEF Saving
<1>7. CASE Reads(w)
  <2> DEFINE q == [old EXCEPT !.phase = "read", !.runs = With(Result(w), file.runs)]
  <2>1. /\ worker' = [worker EXCEPT ![w].phase = "read",
                ![w].runs = LET all == <<Result(w)>> \o file.runs
                            IN  SubSeq(all, 1, IF Len(all) < Keep THEN Len(all) ELSE Keep)]
        /\ file' = file /\ lock' = lock /\ old.phase = "locked"
    BY <1>1, <1>7 DEF Reads, At
  <2>2. Result(w) \in RunRow
    BY <1>1, <2>1, ResultIsRow DEF At
  <2>3. /\ <<Result(w)>> \o file.runs \in Seq(RunRow)
        /\ Len(<<Result(w)>> \o file.runs) = Len(file.runs) + 1
        /\ Len(file.runs) \in Nat /\ Len(file.runs) <= Keep
    BY <2>2 DEF LabInv
  <2>4. LET all == <<Result(w)>> \o file.runs
        IN  SubSeq(all, 1, IF Len(all) < Keep THEN Len(all) ELSE Keep) = With(Result(w), file.runs)
    <3>1. (IF Len(file.runs) + 1 < Keep THEN Len(file.runs) + 1 ELSE Keep)
              = IF Len(file.runs) < Keep THEN Len(file.runs) + 1 ELSE Keep
      BY <2>3, LabAssumption
    <3> QED  BY <2>3, <3>1 DEF With
  <2>5. worker' = [worker EXCEPT ![w] = q]
    <3> DEFINE kept == LET all == <<Result(w)>> \o file.runs
                       IN  SubSeq(all, 1, IF Len(all) < Keep THEN Len(all) ELSE Keep)
    <3>1. worker' = [worker EXCEPT ![w].phase = "read", ![w].runs = kept]
      BY <2>1
    <3>2. kept = With(Result(w), file.runs)
      BY <2>4
    <3> HIDE DEF kept
    <3>3. worker' = [worker EXCEPT ![w].phase = "read", ![w].runs = With(Result(w), file.runs)]
      BY <3>1, <3>2
    <3> QED  BY <1>1, <3>3 DEF LabInv
  <2>6. /\ IsRequest(q) /\ q.phase = "read" /\ q.org = old.org /\ q.run = old.run
        /\ q.runs = With(Result(w), file.runs)
    BY <1>2 DEF IsRequest
  <2> HIDE DEF q
  <2>7. GoodRequest(q, file.runs) /\ q.phase \in Saving /\ lock = w
    BY <1>1, <2>1, <2>2, <2>6 DEF GoodRequest, Saving, LabPhases
  <2> QED  BY <2>1, <2>5, <2>7, RequestMoves
<1>8. CASE WritesTemp(w)
  <2>1. /\ worker' = [worker EXCEPT ![w] = Moved(old, "written")]
        /\ file' = file /\ lock' = lock /\ old.phase = "read"
    BY <1>1, <1>8 DEF WritesTemp, At
  <2>2. /\ GoodRequest(Moved(old, "written"), file.runs)
        /\ Moved(old, "written").phase = "written"
    BY <1>1, <2>1, InPhase DEF LabPhases, Saving
  <2>3. lock = w
    BY <1>1, <2>1 DEF Saving
  <2> QED  BY <2>1, <2>2, <2>3, RequestMoves DEF Saving
<1>9. CASE SaveFails(w)
  <2>1. /\ worker' = [worker EXCEPT ![w] = Moved(old, "commit")]
        /\ file' = file /\ lock' = None /\ old.phase \in Saving
    BY <1>1, <1>9 DEF SaveFails, Saving
  <2>2. /\ GoodRequest(Moved(old, "commit"), file.runs)
        /\ Moved(old, "commit").phase = "commit"
    BY <1>1, <2>1, InPhase DEF LabPhases, Saving
  <2>3. lock = w
    BY <1>1, <2>1
  <2> QED  BY <2>1, <2>2, <2>3, RequestMoves DEF Saving
<1>10. CASE Commits(w)
  <2>1. worker' = [worker EXCEPT ![w] = Idle] /\ file' = file /\ lock' = lock /\ lock # w
    BY <1>1, <1>10 DEF Commits, At, Saving
  <2> QED  BY <2>1, IdleKeeps, RequestMoves DEF Idle, Saving
<1>11. CASE Dies(w)
  <2>1. /\ worker' = [worker EXCEPT ![w] = Idle] /\ file' = file
        /\ lock' = IF lock = w THEN None ELSE lock
    BY <1>11 DEF Dies
  <2> QED  BY <2>1, IdleKeeps, RequestMoves DEF Idle, Saving
<1> QED  BY <1>3, <1>4, <1>5, <1>6, <1>7, <1>8, <1>9, <1>10, <1>11

LEMMA LabInductive == LabSpec => []LabInv
<1>1. LabInit => LabInv
  <2> SUFFICES ASSUME LabInit PROVE LabInv
    OBVIOUS
  <2>1. worker = [w \in Workers |-> Idle] /\ lock = None /\ file.runs = <<>>
    BY DEF LabInit
  <2>2. Idle.phase \notin Saving
    BY DEF Idle, Saving
  <2>3. <<>> \in Seq(RunRow) /\ Len(<<>>) <= Keep
    BY LabAssumption
  <2> QED  BY <2>1, <2>2, <2>3, IdleKeeps, LabAssumption DEF LabInv
<1>2. LabInv /\ [LabNext]_labVars => LabInv'
  <2>1. CASE UNCHANGED labVars
    BY <2>1 DEF labVars, LabInv
  <2> QED  BY <2>1, ReplaceKeeps, OthersKeep DEF LabNext
<1> QED  BY <1>1, <1>2, PTL DEF LabSpec

(***************************************************************************)
(* Whatever requests overlap and wherever they die, the file changes only  *)
(* by one run in front of those it had, as many as it keeps.               *)
(***************************************************************************)
THEOREM EvidenceStaysInFile == LabSpec => EvidenceIsKept
<1> DEFINE Adds == \E r \in RunRow :
              /\ file'.readable
              /\ file'.runs = SubSeq(<<r>> \o file.runs, 1, Len(file'.runs))
              /\ Len(file'.runs) \in {Len(file.runs) + 1, Keep}
<1>1. ASSUME LabInv, NEW w \in Workers, Replaces(w) PROVE Adds
  <2>1. PICK r \in RunRow : file' = [readable |-> TRUE, runs |-> With(r, file.runs)]
    BY <1>1, ReplaceKeeps
  <2>2. file'.readable /\ file'.runs = With(r, file.runs)
    BY <2>1
  <2> QED  BY <1>1, <2>2, WithFacts DEF LabInv
<1>2. LabInv /\ [LabNext]_labVars => [file' = file \/ Adds]_labVars
  <2> HIDE DEF Adds
  <2> QED  BY <1>1, OthersKeep DEF LabNext
<1> QED  BY <1>2, LabInductive, PTL DEF LabSpec, EvidenceIsKept

------------------------------------------------------------------------------
(* The correct shop, one event at a time.                                  *)

WorldFields == {"payments", "orders", "effects", "processed", "seen", "home", "singleUse",
                "mandateUsed"}

\* v is a world that differs from w in the fields F only.
Only(v, w, F) == DOMAIN v = WorldFields /\ \A f \in WorldFields \ F : v[f] = w[f]

\* The world after the event is noted as seen, with its payment.
Opened(w, e) ==
    [[w EXCEPT !.seen = @ \cup {e.id}] EXCEPT !.payments = SetDefault(@, e.payment, NewPayment(e))]

LEMMA ProcessedIs ==
    ASSUME NEW w, DOMAIN w = WorldFields, NEW e, NEW a
    PROVE  /\ Only(Processed(w, e, a), w, {"processed"})
           /\ Processed(w, e, a).processed
                = w.processed \cup {[id |-> e.id, signed |-> e.signed, accepted |-> a]}
BY DEF Only, Processed, WorldFields

LEMMA OpenedIs ==
    ASSUME NEW w, DOMAIN w = WorldFields, NEW e
    PROVE  /\ Only(Opened(w, e), w, {"seen", "payments"})
           /\ Opened(w, e).seen = w.seen \cup {e.id}
           /\ Opened(w, e).payments = SetDefault(w.payments, e.payment, NewPayment(e))
BY DEF Only, Opened, WorldFields

\* What the correct shop does with an event.
LEMMA CorrectHandles ==
    ASSUME NEW w, NEW e
    PROVE  /\ ~e.signed \/ e.id \in w.seen => Handle(Controls, w, e) = Processed(w, e, FALSE)
           /\ e.signed /\ e.id \notin w.seen /\ e.tenant # w.home
                => Handle(Controls, w, e)
                      = Processed([w EXCEPT !.seen = @ \cup {e.id}], e, FALSE)
           /\ e.signed /\ e.id \notin w.seen /\ e.tenant = w.home
                => Handle(Controls, w, e) = Process(Controls, Opened(w, e), e)
BY DEF Handle, Controls, Opened

LEMMA SeenIs ==
    ASSUME NEW w, DOMAIN w = WorldFields, NEW x
    PROVE  /\ Only([w EXCEPT !.seen = @ \cup {x}], w, {"seen"})
           /\ [w EXCEPT !.seen = @ \cup {x}].seen = w.seen \cup {x}
BY DEF Only, WorldFields

\* The payments, one of which has another status.
StatusSet(pays, p, status) == [pays EXCEPT ![p].status = status]

LEMMA AuthorizedIs ==
    ASSUME NEW c, "require_captured" \in c, NEW u, DOMAIN u = WorldFields, NEW e
    PROVE  LET v == Authorized(c, u, e)
               p == e.payment
           IN  \/ u.payments[p].status = "captured" /\ v = u
               \/ /\ u.payments[p].status # "captured" /\ Only(v, u, {"payments"})
                  /\ v.payments = StatusSet(u.payments, p, "authorized")
<1>1. Authorized(c, u, e)
        = IF u.payments[e.payment].status = "captured" THEN u ELSE SetStatus(u, e, "authorized")
  BY DEF Authorized
<1>2. /\ Only(SetStatus(u, e, "authorized"), u, {"payments"})
      /\ SetStatus(u, e, "authorized").payments = StatusSet(u.payments, e.payment, "authorized")
  BY DEF SetStatus, Only, WorldFields, StatusSet
<1> QED  BY <1>1, <1>2

LEMMA FailedIs ==
    ASSUME NEW u, DOMAIN u = WorldFields, NEW e
    PROVE  LET v == Failed(u, e)
               p == e.payment
           IN  \/ v = u
               \/ /\ u.payments[p].status # "captured" /\ Only(v, u, {"payments"})
                  /\ v.payments = StatusSet(u.payments, p, "failed")
<1>1. /\ Only(SetStatus(u, e, "failed"), u, {"payments"})
      /\ SetStatus(u, e, "failed").payments = StatusSet(u.payments, e.payment, "failed")
  BY DEF SetStatus, Only, WorldFields, StatusSet
<1> QED  BY <1>1 DEF Failed

\* The payments, one of which is captured.
PayCaptured(pays, p, amount) ==
    [pays EXCEPT ![p] = [pays[p] EXCEPT !.status = "captured", !.captured = amount]]

CapturedWorld(u, e) ==
    [u EXCEPT !.payments[e.payment].status = "captured",
              !.payments[e.payment].captured = e.amount]

LEMMA CapturedIs ==
    ASSUME NEW c, "require_captured" \in c, NEW u, DOMAIN u = WorldFields,
           NEW e, e.payment \in DOMAIN u.payments
    PROVE  /\ Captured(c, u, e) = Fulfil(c, CapturedWorld(u, e), e)
           /\ Only(CapturedWorld(u, e), u, {"payments"})
           /\ CapturedWorld(u, e).payments = PayCaptured(u.payments, e.payment, e.amount)
<1>1. Captured(c, u, e) = Fulfil(c, CapturedWorld(u, e), e)
  BY DEF Captured, CapturedWorld
<1>2. Only(CapturedWorld(u, e), u, {"payments"})
  BY DEF CapturedWorld, Only, WorldFields
<1>3. CapturedWorld(u, e).payments = PayCaptured(u.payments, e.payment, e.amount)
  BY DEF CapturedWorld, WorldFields, PayCaptured
<1> QED  BY <1>1, <1>2, <1>3

\* The orders, one of which has one fulfilment more.
OneMore(d, o) == [d EXCEPT ![o].count = @ + 1]

\* The orders, with one that is not fulfilled unless it is known.
OrderNoted(orders, o) == SetDefault(orders, o, [count |-> 0, expected |-> FALSE])

\* The world x is v after the order of the event got its fulfilment, unless it has one.
Fulfilled(c, v, x, e) ==
    LET d == OrderNoted(v.orders, e.order)
    IN  \/ /\ "single_fulfilment" \in c /\ d[e.order].count > 0
           /\ Only(x, v, {"orders"}) /\ x.orders = d
        \/ /\ ~("single_fulfilment" \in c /\ d[e.order].count > 0)
           /\ Only(x, v, {"orders", "effects"})
           /\ x.orders = OneMore(d, e.order)
           /\ x.effects = Append(v.effects, Effect("fulfilment", e))

LEMMA FulfilIs ==
    ASSUME NEW c, NEW v, DOMAIN v = WorldFields, NEW e
    PROVE  Fulfilled(c, v, Fulfil(c, v, e), e)
<1> DEFINE x == Fulfil(c, v, e)
           d == OrderNoted(v.orders, e.order)
<1>1. CASE "single_fulfilment" \in c /\ d[e.order].count > 0
  <2>1. x = [v EXCEPT !.orders = d]
    BY <1>1 DEF Fulfil, OrderNoted
  <2>2. Only([v EXCEPT !.orders = d], v, {"orders"}) /\ [v EXCEPT !.orders = d].orders = d
    BY DEF Only, WorldFields
  <2> HIDE DEF x, d
  <2>3. Only(x, v, {"orders"}) /\ x.orders = d
    BY <2>1, <2>2
  <2> QED  BY <1>1, <2>3 DEF x, d, Fulfilled
<1>2. CASE ~("single_fulfilment" \in c /\ d[e.order].count > 0)
  <2> DEFINE m == OneMore(d, e.order)
             f == Append(v.effects, Effect("fulfilment", e))
             y == [v EXCEPT !.orders = m, !.effects = f]
  <2>1. x = y
    BY <1>2 DEF Fulfil, OneMore, OrderNoted
  <2> HIDE DEF m, f
  <2>2. Only(y, v, {"orders", "effects"}) /\ y.orders = m /\ y.effects = f
    BY DEF Only, WorldFields
  <2> HIDE DEF x, y, d
  <2>3. Only(x, v, {"orders", "effects"}) /\ x.orders = m /\ x.effects = f
    BY <2>1, <2>2
  <2> QED  BY <1>2, <2>3 DEF x, d, m, f, Fulfilled
<1> QED  BY <1>1, <1>2

LEMMA OrderPaidIs ==
    ASSUME NEW c, "require_captured" \in c, NEW u, DOMAIN u = WorldFields, NEW e
    PROVE  LET v == OrderPaid(c, u, e)
               d == SetDefault(u.orders, e.order, [count |-> 0, expected |-> TRUE])
           IN  Only(v, u, {"orders"}) /\ v.orders = [d EXCEPT ![e.order].expected = TRUE]
BY DEF OrderPaid, Only, WorldFields

RefundWorld(u, e) ==
    [u EXCEPT !.payments[e.payment].refunded = @ + e.amount,
              !.effects = Append(@, Effect("refund", e))]

\* The payments, of which one is refunded so much more.
RefundMade(pays, p, amount) == [pays EXCEPT ![p].refunded = @ + amount]

LEMMA RefundIs ==
    ASSUME NEW u, DOMAIN u = WorldFields, NEW e
    PROVE  /\ Only(RefundWorld(u, e), u, {"payments", "effects"})
           /\ RefundWorld(u, e).payments = RefundMade(u.payments, e.payment, e.amount)
           /\ RefundWorld(u, e).effects = Append(u.effects, Effect("refund", e))
BY DEF RefundWorld, Only, WorldFields, RefundMade

PurchaseWorld(u, e) ==
    [u EXCEPT !.mandateUsed = TRUE, !.effects = Append(@, Effect("agent_purchase", e))]

LEMMA PurchaseIs ==
    ASSUME NEW u, DOMAIN u = WorldFields, NEW e
    PROVE  /\ Only(PurchaseWorld(u, e), u, {"mandateUsed", "effects"})
           /\ PurchaseWorld(u, e).mandateUsed = TRUE
           /\ PurchaseWorld(u, e).effects = Append(u.effects, Effect("agent_purchase", e))
BY DEF PurchaseWorld, Only, WorldFields

\* What a shop that has two of the controls does with the event of an accepted kind.
LEMMA ProcessIs ==
    ASSUME NEW c, "idempotent_refunds" \in c, NEW u, NEW e, e.type \in EventTypes
    PROVE  LET to(v) == Process(c, u, e) = Processed(v, e, TRUE)
               no == Process(c, u, e) = Processed(u, e, FALSE)
           IN  /\ e.type = "payment.authorized" => to(Authorized(c, u, e))
               /\ e.type = "payment.captured" => to(Captured(c, u, e))
               /\ e.type = "payment.failed" => to(Failed(u, e))
               /\ e.type = "order.paid" => to(OrderPaid(c, u, e))
               /\ e.type = "refund.processed" =>
                    \/ Overdrawn(u, e) /\ no
                    \/ ~Overdrawn(u, e) /\ to(RefundWorld(u, e))
               /\ e.type = "agent.purchase" =>
                    \/ "mandate_limits" \in c /\ u.mandateUsed /\ no
                    \/ ~("mandate_limits" \in c /\ u.mandateUsed) /\ to(PurchaseWorld(u, e))
<1>1. CASE e.type = "payment.authorized"
  BY <1>1 DEF Process
<1>2. CASE e.type = "payment.captured"
  BY <1>2 DEF Process
<1>3. CASE e.type = "payment.failed"
  BY <1>3 DEF Process
<1>4. CASE e.type = "order.paid"
  BY <1>4 DEF Process
<1>5. CASE e.type = "refund.processed"
  BY <1>5 DEF Process, RefundWorld
<1>6. CASE e.type = "agent.purchase"
  BY <1>6 DEF Process, PurchaseWorld
<1> QED  BY <1>1, <1>2, <1>3, <1>4, <1>5, <1>6 DEF EventTypes

LEMMA ControlsHave ==
    /\ "require_captured" \in Controls /\ "idempotent_refunds" \in Controls
    /\ "single_fulfilment" \in Controls /\ "mandate_limits" \in Controls
BY DEF Controls

------------------------------------------------------------------------------
(* What stays true of the parts of the correct shop.                       *)

PaymentFields == {"status", "captured", "refunded", "tenant"}

\* A payment has captured nothing, or the amount of an event that captures it.
PaymentsOK(pays, es) ==
    \A p \in DOMAIN pays :
        /\ DOMAIN pays[p] = PaymentFields
        /\ pays[p].captured \in Nat /\ pays[p].refunded \in Nat
        /\ pays[p].refunded <= pays[p].captured
        /\ \/ pays[p].captured = 0
           \/ \E d \in es : /\ d.type = "payment.captured" /\ d.payment = p
                            /\ d.amount = pays[p].captured

HasCaptured(pays, p) == p \in DOMAIN pays /\ pays[p].status = "captured"

PaymentsKept(old, new) ==
    /\ DOMAIN old \subseteq DOMAIN new
    /\ \A p : HasCaptured(old, p) => HasCaptured(new, p)

LEMMA PaymentOpens ==
    ASSUME NEW pays, NEW es, PaymentsOK(pays, es), NEW e, NEW new,
           new = SetDefault(pays, e.payment, NewPayment(e))
    PROVE  PaymentsOK(new, es) /\ PaymentsKept(pays, new) /\ e.payment \in DOMAIN new
<1>1. /\ DOMAIN new = DOMAIN pays \cup {e.payment}
      /\ \A p \in DOMAIN pays : new[p] = pays[p]
      /\ e.payment \notin DOMAIN pays => new[e.payment] = NewPayment(e)
  BY DEF SetDefault
<1>2. /\ DOMAIN NewPayment(e) = PaymentFields
      /\ NewPayment(e).captured = 0 /\ NewPayment(e).refunded = 0
  BY DEF NewPayment, PaymentFields
<1>3. ASSUME NEW p \in DOMAIN new
      PROVE  /\ DOMAIN new[p] = PaymentFields
             /\ new[p].captured \in Nat /\ new[p].refunded \in Nat
             /\ new[p].refunded <= new[p].captured
             /\ \/ new[p].captured = 0
                \/ \E d \in es : /\ d.type = "payment.captured" /\ d.payment = p
                                 /\ d.amount = new[p].captured
  <2>1. CASE p \in DOMAIN pays
    BY <1>1, <2>1 DEF PaymentsOK
  <2>2. CASE p \notin DOMAIN pays
    BY <1>1, <1>2, <2>2
  <2> QED  BY <2>1, <2>2
<1> QED  BY <1>1, <1>3 DEF PaymentsOK, PaymentsKept, HasCaptured

\* One payment is replaced by another that is as good.
LEMMA PaymentReplaced ==
    ASSUME NEW pays, NEW es, PaymentsOK(pays, es), NEW p \in DOMAIN pays, NEW new, NEW y,
           new = [pays EXCEPT ![p] = y],
           DOMAIN y = PaymentFields, y.captured \in Nat, y.refunded \in Nat,
           y.refunded <= y.captured,
           \/ y.captured = 0
           \/ \E d \in es : /\ d.type = "payment.captured" /\ d.payment = p
                            /\ d.amount = y.captured,
           pays[p].status = "captured" => y.status = "captured"
    PROVE  PaymentsOK(new, es) /\ PaymentsKept(pays, new) /\ new[p] = y /\ p \in DOMAIN new
BY DEF PaymentsOK, PaymentsKept, HasCaptured

LEMMA StatusMoves ==
    ASSUME NEW pays, NEW es, PaymentsOK(pays, es), NEW p \in DOMAIN pays, NEW status,
           pays[p].status # "captured"
    PROVE  /\ PaymentsOK(StatusSet(pays, p, status), es)
           /\ PaymentsKept(pays, StatusSet(pays, p, status))
<1> DEFINE y == [pays[p] EXCEPT !.status = status]
<1>1. StatusSet(pays, p, status) = [pays EXCEPT ![p] = y]
  BY DEF StatusSet
<1>2. DOMAIN pays[p] = PaymentFields
  BY DEF PaymentsOK
<1>3. DOMAIN y = PaymentFields /\ y.captured = pays[p].captured /\ y.refunded = pays[p].refunded
  BY <1>2 DEF PaymentFields
<1> HIDE DEF y
<1>4. /\ y.captured \in Nat /\ y.refunded \in Nat /\ y.refunded <= y.captured
      /\ \/ y.captured = 0
         \/ \E d \in es : /\ d.type = "payment.captured" /\ d.payment = p
                          /\ d.amount = y.captured
  BY <1>3 DEF PaymentsOK
<1>5. /\ PaymentsOK([pays EXCEPT ![p] = y], es) /\ PaymentsKept(pays, [pays EXCEPT ![p] = y])
      /\ [pays EXCEPT ![p] = y][p] = y /\ p \in DOMAIN [pays EXCEPT ![p] = y]
  BY <1>3, <1>4, PaymentReplaced
<1> QED  BY <1>1, <1>5

LEMMA CaptureMoves ==
    ASSUME NEW pays, NEW es, Coherent(es), PaymentsOK(pays, es), NEW e \in es,
           e.type = "payment.captured", e.payment \in DOMAIN pays
    PROVE  /\ PaymentsOK(PayCaptured(pays, e.payment, e.amount), es)
           /\ PaymentsKept(pays, PayCaptured(pays, e.payment, e.amount))
           /\ HasCaptured(PayCaptured(pays, e.payment, e.amount), e.payment)
<1> DEFINE p == e.payment
           y == [pays[p] EXCEPT !.status = "captured", !.captured = e.amount]
<1>1. PayCaptured(pays, p, e.amount) = [pays EXCEPT ![p] = y]
  BY DEF PayCaptured
<1>2. DOMAIN pays[p] = PaymentFields
  BY DEF PaymentsOK
<1>3. /\ DOMAIN y = PaymentFields /\ y.captured = e.amount /\ y.refunded = pays[p].refunded
      /\ y.status = "captured"
  BY <1>2 DEF PaymentFields
<1> HIDE DEF y
<1>4. e.amount \in Nat
  BY DEF Coherent
<1>5. y.refunded \in Nat /\ y.refunded <= e.amount
  <2>1. CASE pays[p].captured = 0
    BY <1>3, <1>4, <2>1 DEF PaymentsOK
  <2>2. CASE pays[p].captured # 0
    <3>1. PICK d \in es : /\ d.type = "payment.captured" /\ d.payment = p
                          /\ d.amount = pays[p].captured
      BY <2>2 DEF PaymentsOK
    <3>2. d.amount = e.amount
      BY <3>1 DEF Coherent
    <3> QED  BY <1>3, <3>1, <3>2 DEF PaymentsOK
  <2> QED  BY <2>1, <2>2
<1>6. /\ PaymentsOK([pays EXCEPT ![p] = y], es) /\ PaymentsKept(pays, [pays EXCEPT ![p] = y])
      /\ [pays EXCEPT ![p] = y][p] = y /\ p \in DOMAIN [pays EXCEPT ![p] = y]
  BY <1>3, <1>4, <1>5, PaymentReplaced
<1> QED  BY <1>1, <1>3, <1>6 DEF HasCaptured

LEMMA RefundMoves ==
    ASSUME NEW pays, NEW es, PaymentsOK(pays, es), NEW p \in DOMAIN pays, NEW a \in Nat,
           ~(pays[p].refunded + a > pays[p].captured)
    PROVE  /\ PaymentsOK(RefundMade(pays, p, a), es)
           /\ PaymentsKept(pays, RefundMade(pays, p, a))
<1> DEFINE y == [pays[p] EXCEPT !.refunded = @ + a]
<1>1. DOMAIN pays[p] = PaymentFields /\ pays[p].refunded \in Nat /\ pays[p].captured \in Nat
  BY DEF PaymentsOK
<1>2. /\ DOMAIN y = PaymentFields /\ y.captured = pays[p].captured /\ y.status = pays[p].status
      /\ y.refunded = pays[p].refunded + a
  BY <1>1 DEF PaymentFields
<1>3. RefundMade(pays, p, a) = [pays EXCEPT ![p] = y]
  BY DEF RefundMade
<1> HIDE DEF y
<1>4. /\ y.captured \in Nat /\ y.refunded \in Nat /\ y.refunded <= y.captured
      /\ \/ y.captured = 0
         \/ \E d \in es : /\ d.type = "payment.captured" /\ d.payment = p
                          /\ d.amount = y.captured
  BY <1>1, <1>2 DEF PaymentsOK
<1>5. /\ PaymentsOK([pays EXCEPT ![p] = y], es) /\ PaymentsKept(pays, [pays EXCEPT ![p] = y])
      /\ [pays EXCEPT ![p] = y][p] = y /\ p \in DOMAIN [pays EXCEPT ![p] = y]
  BY <1>2, <1>4, PaymentReplaced
<1> QED  BY <1>3, <1>5

\* Orders are as in s, of which those reported paid are expected to be fulfilled.
IsReported(o, s) == Told("order.paid", o, s)
IsCaptured(o, s) == Told("payment.captured", o, s)

OrdersOK(orders, s) ==
    \A o \in DOMAIN orders :
        /\ orders[o] \in [count : Nat, expected : BOOLEAN]
        /\ orders[o].expected = TRUE => IsReported(o, s)

IsFulfilled(orders, o) == o \in DOMAIN orders /\ orders[o].count >= 1

OrdersKept(old, new) == \A o : IsFulfilled(old, o) => IsFulfilled(new, o)

\* The orders, with one that may be new.
LEMMA OrderOpens ==
    ASSUME NEW orders, NEW s, OrdersOK(orders, s), NEW o, NEW d,
           d = OrderNoted(orders, o)
    PROVE  /\ OrdersOK(d, s) /\ OrdersKept(orders, d)
           /\ o \in DOMAIN d /\ d[o] \in [count : Nat, expected : BOOLEAN]
           /\ IsFulfilled(d, o) <=> IsFulfilled(orders, o)
<1>1. /\ DOMAIN d = DOMAIN orders \cup {o} /\ \A q \in DOMAIN orders : d[q] = orders[q]
      /\ o \notin DOMAIN orders => d[o] = [count |-> 0, expected |-> FALSE]
  BY DEF SetDefault, OrderNoted
<1>2. ASSUME NEW q \in DOMAIN d
      PROVE  /\ d[q] \in [count : Nat, expected : BOOLEAN]
             /\ d[q].expected = TRUE => IsReported(q, s)
  <2>1. CASE q \in DOMAIN orders
    BY <1>1, <2>1 DEF OrdersOK
  <2>2. CASE q \notin DOMAIN orders
    <3>1. d[q] = [count |-> 0, expected |-> FALSE]
      BY <1>1, <2>2
    <3>2. 0 \in Nat
      OBVIOUS
    <3>3. [count |-> 0, expected |-> FALSE] \in [count : Nat, expected : BOOLEAN]
      BY <3>2, Zenon
    <3>4. [count |-> 0, expected |-> FALSE].expected # TRUE
      BY Zenon
    <3> QED  BY <3>1, <3>3, <3>4, Zenon
  <2> QED  BY <2>1, <2>2
<1>3. OrdersOK(d, s) /\ OrdersKept(orders, d)
  BY <1>1, <1>2 DEF OrdersOK, OrdersKept, IsFulfilled
<1>4. IsFulfilled(d, o) => IsFulfilled(orders, o)
  BY <1>1 DEF IsFulfilled
<1> QED  BY <1>1, <1>2, <1>3, <1>4 DEF OrdersKept

\* An order gets its fulfilment.
LEMMA OrderFulfilled ==
    ASSUME NEW d, NEW s, OrdersOK(d, s), NEW o \in DOMAIN d,
           d[o] \in [count : Nat, expected : BOOLEAN], NEW new,
           new = OneMore(d, o)
    PROVE  OrdersOK(new, s) /\ OrdersKept(d, new) /\ IsFulfilled(new, o)
<1> DEFINE y == [d[o] EXCEPT !.count = @ + 1]
<1>1. y \in [count : Nat, expected : BOOLEAN] /\ y.count >= 1 /\ y.expected = d[o].expected
  OBVIOUS
<1>2. DOMAIN new = DOMAIN d /\ new[o] = y /\ \A q \in DOMAIN d : q # o => new[q] = d[q]
  BY DEF OneMore
<1> HIDE DEF y
<1>3. OrdersOK(new, s)
  BY <1>1, <1>2 DEF OrdersOK
<1> QED  BY <1>1, <1>2, <1>3 DEF OrdersKept, IsFulfilled

LEMMA OrderReported ==
    ASSUME NEW orders, NEW s, OrdersOK(orders, s), NEW o, IsReported(o, s), NEW d,
           d = SetDefault(orders, o, [count |-> 0, expected |-> TRUE])
    PROVE  /\ OrdersOK([d EXCEPT ![o].expected = TRUE], s)
           /\ OrdersKept(orders, [d EXCEPT ![o].expected = TRUE])
<1>1. /\ DOMAIN d = DOMAIN orders \cup {o} /\ \A q \in DOMAIN orders : d[q] = orders[q]
      /\ o \notin DOMAIN orders => d[o] = [count |-> 0, expected |-> TRUE]
  BY DEF SetDefault
<1> DEFINE y == [d[o] EXCEPT !.expected = TRUE]
           x == [d EXCEPT ![o].expected = TRUE]
<1>2. d[o] \in [count : Nat, expected : BOOLEAN]
  <2>1. CASE o \in DOMAIN orders
    BY <1>1, <2>1 DEF OrdersOK
  <2>2. CASE o \notin DOMAIN orders
    <3>1. d[o] = [count |-> 0, expected |-> TRUE]
      BY <1>1, <2>2
    <3>2. 0 \in Nat
      OBVIOUS
    <3>3. [count |-> 0, expected |-> TRUE] \in [count : Nat, expected : BOOLEAN]
      BY <3>2, Zenon
    <3> QED  BY <3>1, <3>3
  <2> QED  BY <2>1, <2>2
<1>3. y \in [count : Nat, expected : BOOLEAN] /\ y.count = d[o].count
  BY <1>2
<1>4. DOMAIN x = DOMAIN d /\ x[o] = y /\ \A q \in DOMAIN d : q # o => x[q] = d[q]
  BY <1>1
<1> HIDE DEF x, y
<1>5. OrdersOK(x, s)
  BY <1>1, <1>3, <1>4 DEF OrdersOK
<1>6. OrdersKept(orders, x)
  BY <1>1, <1>3, <1>4 DEF OrdersKept, IsFulfilled
<1> QED  BY <1>5, <1>6 DEF x

Kinds == {"fulfilment", "refund", "agent_purchase"}

Effects(es) == {Effect(kind, e) : kind \in Kinds, e \in es}

\* Every effect is of an event that was seen, of the shop's tenant, and has its reason;
\* no two are of one event, fulfil one order, or use the mandate.
EffectsOK(w, es) ==
    /\ w.effects \in Seq(Effects(es))
    /\ \A i \in 1 .. Len(w.effects) :
        /\ w.effects[i].src \in w.seen /\ w.effects[i].tenant = w.home
        /\ w.effects[i].kind = "fulfilment" =>
              /\ HasCaptured(w.payments, w.effects[i].payment)
              /\ IsFulfilled(w.orders, w.effects[i].order)
        /\ w.effects[i].kind = "agent_purchase" => w.mandateUsed
    /\ \A i, j \in 1 .. Len(w.effects) : i < j =>
        /\ w.effects[i].src # w.effects[j].src
        /\ w.effects[i].kind = "fulfilment" /\ w.effects[j].kind = "fulfilment"
              => w.effects[i].order # w.effects[j].order
        /\ ~(w.effects[i].kind = "agent_purchase" /\ w.effects[j].kind = "agent_purchase")

\* What a world keeps of the one before the event e.
Follows(w, v, e) ==
    /\ DOMAIN v = WorldFields /\ v.home = w.home /\ v.processed = w.processed
    /\ PaymentsKept(w.payments, v.payments) /\ OrdersKept(w.orders, v.orders)
    /\ v.seen = IF e.signed THEN w.seen \cup {e.id} ELSE w.seen
    /\ w.mandateUsed => v.mandateUsed

LEMMA EffectsStay ==
    ASSUME NEW w, NEW v, NEW e, NEW es, EffectsOK(w, es), Follows(w, v, e), v.effects = w.effects
    PROVE  EffectsOK(v, es)
BY DEF EffectsOK, Follows, PaymentsKept, OrdersKept

LEMMA Appended ==
    ASSUME NEW S, NEW q \in Seq(S), NEW x \in S
    PROVE  /\ Append(q, x) \in Seq(S) /\ Len(q) \in Nat /\ Len(Append(q, x)) = Len(q) + 1
           /\ DOMAIN Append(q, x) = 1 .. (Len(q) + 1) /\ DOMAIN q = 1 .. Len(q)
           /\ \A i \in 1 .. Len(q) : Append(q, x)[i] = q[i]
           /\ Append(q, x)[Len(q) + 1] = x
OBVIOUS

LEMMA EffectAdded ==
    ASSUME NEW w, NEW v, NEW e, NEW es, EffectsOK(w, es), Follows(w, v, e), e \in es,
           NEW kind \in Kinds, v.effects = Append(w.effects, Effect(kind, e)),
           e.id \notin w.seen, e.id \in v.seen, e.tenant = w.home,
           kind = "fulfilment" => /\ HasCaptured(v.payments, e.payment)
                                  /\ IsFulfilled(v.orders, e.order)
                                  /\ ~IsFulfilled(w.orders, e.order),
           kind = "agent_purchase" => ~w.mandateUsed /\ v.mandateUsed
    PROVE  EffectsOK(v, es)
<1>1. PICK x \in Effects(es) :
         /\ x = Effect(kind, e)
         /\ x.kind = kind /\ x.payment = e.payment /\ x.order = e.order
         /\ x.tenant = e.tenant /\ x.src = e.id
  BY DEF Effects, Effect
<1> DEFINE n == Len(w.effects)
<1>2. /\ v.effects \in Seq(Effects(es)) /\ n \in Nat /\ Len(v.effects) = n + 1
      /\ \A i \in 1 .. n : v.effects[i] = w.effects[i]
      /\ v.effects[n + 1] = x
  BY <1>1, Appended DEF EffectsOK
<1>3. ASSUME NEW i \in 1 .. n
      PROVE  /\ v.effects[i].src \in w.seen /\ v.effects[i].src \in v.seen
             /\ v.effects[i].tenant = v.home
             /\ v.effects[i].kind = "fulfilment" =>
                   /\ HasCaptured(v.payments, v.effects[i].payment)
                   /\ IsFulfilled(w.orders, v.effects[i].order)
                   /\ IsFulfilled(v.orders, v.effects[i].order)
             /\ v.effects[i].kind = "agent_purchase" => w.mandateUsed /\ v.mandateUsed
  BY <1>2 DEF EffectsOK, Follows, PaymentsKept, OrdersKept
<1>4. ASSUME NEW i \in 1 .. (n + 1)
      PROVE  /\ v.effects[i].src \in v.seen /\ v.effects[i].tenant = v.home
             /\ v.effects[i].kind = "fulfilment" =>
                   /\ HasCaptured(v.payments, v.effects[i].payment)
                   /\ IsFulfilled(v.orders, v.effects[i].order)
             /\ v.effects[i].kind = "agent_purchase" => v.mandateUsed
  <2>1. CASE i \in 1 .. n
    BY <1>3, <2>1
  <2>2. CASE i = n + 1
    BY <1>1, <1>2, <2>2 DEF Follows
  <2> QED  BY <1>2, <2>1, <2>2
<1>5. ASSUME NEW i \in 1 .. (n + 1), NEW j \in 1 .. (n + 1), i < j
      PROVE  /\ v.effects[i].src # v.effects[j].src
             /\ v.effects[i].kind = "fulfilment" /\ v.effects[j].kind = "fulfilment"
                   => v.effects[i].order # v.effects[j].order
             /\ ~(v.effects[i].kind = "agent_purchase" /\ v.effects[j].kind = "agent_purchase")
  <2>1. i \in 1 .. n
    BY <1>2, <1>5
  <2>2. CASE j \in 1 .. n
    BY <1>2, <1>5, <2>1, <2>2 DEF EffectsOK
  <2>3. CASE j = n + 1
    BY <1>1, <1>2, <1>3, <2>1, <2>3
  <2> QED  BY <1>2, <2>2, <2>3
<1> HIDE DEF n
<1> QED  BY <1>2, <1>4, <1>5 DEF EffectsOK

(***************************************************************************)
(* The correct shop after the events s, which are among es.                *)
(***************************************************************************)
SawSigned(w, s) ==
    \A x : x \in w.seen <=> \E i \in DOMAIN s : s[i].id = x /\ s[i].signed

\* Nothing unsigned was accepted.
ProcessedOK(w, es) ==
    \A r \in w.processed : ~r.signed => ~r.accepted /\ \E e \in es : ~e.signed /\ e.id = r.id

CorrectInv(w, s, es) ==
    /\ s \in Seq(es)
    /\ DOMAIN w = WorldFields /\ w.home = "t1"
    /\ PaymentsOK(w.payments, es)
    /\ OrdersOK(w.orders, s)
    /\ EffectsOK(w, es)
    /\ SawSigned(w, s)
    /\ ProcessedOK(w, es)
    /\ \A o : IsCaptured(o, s) => IsFulfilled(w.orders, o)

\* What the shop was told of it stays told, and of an event it is told if it is genuine.
LEMMA EventsStay ==
    ASSUME NEW es, NEW s \in Seq(es), NEW e \in es
    PROVE  LET new == /\ e.signed /\ e.tenant = "t1"
                      /\ \A i \in DOMAIN s : s[i].signed => s[i].id # e.id
           IN  /\ \A type, o : Told(type, o, s) => Told(type, o, Append(s, e))
               /\ new => Told(e.type, e.order, Append(s, e))
               /\ \A type, o : Told(type, o, Append(s, e)) =>
                     Told(type, o, s) \/ (e.type = type /\ e.order = o /\ new)
               /\ \A orders : OrdersOK(orders, s) => OrdersOK(orders, Append(s, e))
<1> DEFINE t == Append(s, e)
           n == Len(s)
           new == /\ e.signed /\ e.tenant = "t1"
                  /\ \A i \in DOMAIN s : s[i].signed => s[i].id # e.id
<1>1. /\ n \in Nat /\ DOMAIN t = 1 .. (n + 1) /\ DOMAIN s = 1 .. n
      /\ \A i \in 1 .. n : t[i] = s[i]
      /\ t[n + 1] = e
  BY Appended
<1> HIDE DEF t, n
<1>2. ASSUME NEW i \in 1 .. n PROVE Genuine(i, t) <=> Genuine(i, s)
  <2>1. \A j \in 1 .. (i-1) : j \in 1 .. n
    BY <1>1
  <2>2. t[i] = s[i] /\ \A j \in 1 .. (i-1) : t[j] = s[j]
    BY <1>1, <2>1
  <2> QED  BY <2>2 DEF Genuine
<1>3. Genuine(n + 1, t) <=> new
  <2>1. 1 .. (n + 1 - 1) = 1 .. n
    BY <1>1
  <2> QED  BY <1>1, <2>1 DEF Genuine
<1>4. ASSUME NEW type, NEW o, Told(type, o, s) PROVE Told(type, o, t)
  BY <1>1, <1>2, <1>4 DEF Told
<1>5. new => Told(e.type, e.order, t)
  BY <1>1, <1>3 DEF Told
<1>6. ASSUME NEW type, NEW o, Told(type, o, t)
      PROVE  Told(type, o, s) \/ (e.type = type /\ e.order = o /\ new)
  <2>1. PICK i \in 1 .. (n + 1) : Genuine(i, t) /\ t[i].type = type /\ t[i].order = o
    BY <1>1, <1>6 DEF Told
  <2>2. CASE i \in 1 .. n
    BY <1>1, <1>2, <2>1, <2>2 DEF Told
  <2>3. CASE i = n + 1
    BY <1>1, <1>3, <2>1, <2>3
  <2> QED  BY <1>1, <2>2, <2>3
<1>7. ASSUME NEW orders, OrdersOK(orders, s) PROVE OrdersOK(orders, t)
  BY <1>4, <1>7 DEF OrdersOK, IsReported
<1> QED  BY <1>4, <1>5, <1>6, <1>7 DEF t

LEMMA CorrectFollows ==
    ASSUME NEW es, NEW s, NEW w, CorrectInv(w, s, es), NEW e \in es, NEW x, Follows(w, x, e),
           NEW a, ~e.signed => a = FALSE, e.signed \in BOOLEAN,
           PaymentsOK(x.payments, es), OrdersOK(x.orders, Append(s, e)), EffectsOK(x, es),
           e.type = "payment.captured" /\ e.signed /\ e.tenant = "t1" /\ e.id \notin w.seen
               => IsFulfilled(x.orders, e.order)
    PROVE  CorrectInv(Processed(x, e, a), Append(s, e), es)
<1> DEFINE v == Processed(x, e, a)
           t == Append(s, e)
<1>0. DOMAIN x = WorldFields
  BY DEF Follows
<1>1. /\ DOMAIN v = WorldFields /\ v.payments = x.payments /\ v.orders = x.orders
      /\ v.effects = x.effects /\ v.seen = x.seen /\ v.home = x.home
      /\ v.mandateUsed = x.mandateUsed
      /\ v.processed = x.processed \cup {[id |-> e.id, signed |-> e.signed, accepted |-> a]}
      /\ x.processed = w.processed
  <2>1. x.processed = w.processed
    BY DEF Follows
  <2> QED  BY <1>0, <2>1, ProcessedIs DEF Only, WorldFields
<1> HIDE DEF v
<1>2. s \in Seq(es) /\ w.home = "t1"
  BY DEF CorrectInv
<1>3. t \in Seq(es) /\ DOMAIN t = 1 .. (Len(s) + 1) /\ DOMAIN s = 1 .. Len(s) /\ Len(s) \in Nat
      /\ t[Len(s) + 1] = e /\ \A i \in 1 .. Len(s) : t[i] = s[i]
  BY <1>2, Appended
<1> HIDE DEF t
<1>4. EffectsOK(v, es)
  BY <1>1 DEF EffectsOK
<1>5. SawSigned(v, t)
  <2>1. \A y : y \in w.seen <=> \E i \in 1 .. Len(s) : s[i].id = y /\ s[i].signed
    BY <1>3 DEF CorrectInv, SawSigned
  <2>2. v.seen = IF e.signed THEN w.seen \cup {e.id} ELSE w.seen
    BY <1>1 DEF Follows
  <2>3. ASSUME NEW y \in v.seen PROVE \E i \in DOMAIN t : t[i].id = y /\ t[i].signed
    <3>1. CASE y \in w.seen
      BY <1>3, <2>1, <3>1
    <3>2. CASE y \notin w.seen
      <4>1. y = e.id /\ e.signed
        BY <2>2, <2>3, <3>2
      <4> QED  BY <1>3, <4>1
    <3> QED  BY <3>1, <3>2
  <2>4. ASSUME NEW i \in DOMAIN t, t[i].signed PROVE t[i].id \in v.seen
    <3>1. CASE i \in 1 .. Len(s)
      BY <1>3, <2>1, <2>2, <2>4, <3>1
    <3>2. CASE i = Len(s) + 1
      BY <1>3, <2>2, <2>4, <3>2
    <3> QED  BY <1>3, <3>1, <3>2
  <2> QED  BY <2>3, <2>4 DEF SawSigned
<1>6. ProcessedOK(v, es)
  <2> DEFINE new == [id |-> e.id, signed |-> e.signed, accepted |-> a]
  <2>1. new.id = e.id /\ new.signed = e.signed /\ new.accepted = a
    OBVIOUS
  <2> HIDE DEF new
  <2>2. ASSUME NEW r \in v.processed, ~r.signed
        PROVE  ~r.accepted /\ \E d \in es : ~d.signed /\ d.id = r.id
    <3>1. CASE r \in w.processed
      BY <2>2, <3>1 DEF CorrectInv, ProcessedOK
    <3>2. CASE r = new
      <4>1. ~e.signed
        BY <2>1, <2>2, <3>2, Zenon
      <4>2. a = FALSE
        BY <4>1
      <4>3. ~r.accepted
        BY <2>1, <3>2, <4>2, Zenon
      <4> QED  BY <2>1, <3>2, <4>1, <4>3
    <3> QED  BY <1>1, <3>1, <3>2 DEF new
  <2> QED  BY <2>2 DEF ProcessedOK
<1>7. ASSUME NEW o, IsCaptured(o, t)
      PROVE  IsFulfilled(v.orders, o)
  <2>1. CASE IsCaptured(o, s)
    BY <1>1, <2>1 DEF CorrectInv, Follows, OrdersKept
  <2>2. CASE ~IsCaptured(o, s)
    <3>1. /\ e.type = "payment.captured" /\ e.order = o /\ e.signed /\ e.tenant = "t1"
          /\ \A i \in DOMAIN s : s[i].signed => s[i].id # e.id
      BY <1>2, <1>7, <2>2, EventsStay DEF t, IsCaptured
    <3>2. e.id \notin w.seen
      BY <3>1 DEF CorrectInv, SawSigned
    <3> QED  BY <1>1, <3>1, <3>2
  <2> QED  BY <2>1, <2>2
<1>8. OrdersOK(v.orders, t) /\ PaymentsOK(v.payments, es) /\ v.home = "t1"
  BY <1>1, <1>2 DEF Follows, t
<1> QED  BY <1>1, <1>3, <1>4, <1>5, <1>6, <1>7, <1>8 DEF CorrectInv, v, t

\* The shop is open to an event that is genuine, new and its own.
LEMMA OpenedFollows ==
    ASSUME NEW es, NEW s, NEW w, CorrectInv(w, s, es), NEW e \in es, e.signed,
           NEW u, u = Opened(w, e)
    PROVE  /\ Follows(w, u, e) /\ PaymentsOK(u.payments, es) /\ e.payment \in DOMAIN u.payments
           /\ u.orders = w.orders /\ u.effects = w.effects /\ u.seen = w.seen \cup {e.id}
           /\ u.home = w.home /\ u.mandateUsed = w.mandateUsed /\ u.processed = w.processed
           /\ DOMAIN u = WorldFields
<1>1. DOMAIN w = WorldFields /\ PaymentsOK(w.payments, es)
  BY DEF CorrectInv
<1>2. Only(u, w, {"seen", "payments"}) /\ u.seen = w.seen \cup {e.id}
      /\ u.payments = SetDefault(w.payments, e.payment, NewPayment(e))
  BY <1>1, OpenedIs
<1>3. /\ DOMAIN u = WorldFields /\ u.orders = w.orders /\ u.effects = w.effects
      /\ u.home = w.home /\ u.mandateUsed = w.mandateUsed /\ u.processed = w.processed
  BY <1>2 DEF Only, WorldFields
<1>4. /\ PaymentsOK(u.payments, es) /\ PaymentsKept(w.payments, u.payments)
      /\ e.payment \in DOMAIN u.payments
  BY <1>1, <1>2, PaymentOpens
<1> QED  BY <1>2, <1>3, <1>4 DEF Follows, OrdersKept

LEMMA CorrectStep ==
    ASSUME NEW es, Coherent(es), NEW s, NEW w, CorrectInv(w, s, es), NEW e \in es
    PROVE  CorrectInv(Handle(Controls, w, e), Append(s, e), es)
<1> DEFINE Keeps(v) == CorrectInv(v, Append(s, e), es)
<1> USE DEF Keeps
<1>1. /\ e.type \in EventTypes /\ e.amount \in Nat /\ e.signed \in BOOLEAN
      /\ s \in Seq(es) /\ DOMAIN w = WorldFields /\ w.home = "t1"
      /\ PaymentsOK(w.payments, es) /\ OrdersOK(w.orders, s) /\ EffectsOK(w, es)
  BY DEF Coherent, CorrectInv
<1>2. OrdersOK(w.orders, Append(s, e))
  BY <1>1, EventsStay
<1>4. CASE ~e.signed \/ e.id \in w.seen
  <2>0. Follows(w, w, e)
    BY <1>1, <1>4 DEF Follows, PaymentsKept, OrdersKept
  <2>1. CorrectInv(Processed(w, e, FALSE), Append(s, e), es)
    BY <1>1, <1>2, <1>4, <2>0, CorrectFollows
  <2> QED  BY <1>4, <2>1, CorrectHandles
<1>5. CASE e.signed /\ e.id \notin w.seen /\ e.tenant # w.home
  <2>1. PICK v : v = [w EXCEPT !.seen = @ \cup {e.id}]
    OBVIOUS
  <2>2. /\ DOMAIN v = WorldFields /\ v.seen = w.seen \cup {e.id} /\ v.payments = w.payments
        /\ v.orders = w.orders /\ v.effects = w.effects /\ v.home = w.home
        /\ v.mandateUsed = w.mandateUsed /\ v.processed = w.processed
    BY <1>1, <2>1, SeenIs DEF Only, WorldFields
  <2>3. Follows(w, v, e)
    BY <1>5, <2>2 DEF Follows, PaymentsKept, OrdersKept
  <2>4. EffectsOK(v, es)
    BY <1>1, <2>2, <2>3, EffectsStay
  <2>5. CorrectInv(Processed(v, e, FALSE), Append(s, e), es)
    BY <1>1, <1>2, <1>5, <2>2, <2>3, <2>4, CorrectFollows
  <2> QED  BY <1>5, <2>1, <2>5, CorrectHandles
<1>6. CASE e.signed /\ e.id \notin w.seen /\ e.tenant = w.home
  <2>1. PICK u : u = Opened(w, e)
    OBVIOUS
  <2> DEFINE p == e.payment
  <2>2. /\ Follows(w, u, e) /\ PaymentsOK(u.payments, es) /\ p \in DOMAIN u.payments
        /\ u.orders = w.orders /\ u.effects = w.effects /\ u.seen = w.seen \cup {e.id}
        /\ u.home = w.home /\ u.mandateUsed = w.mandateUsed /\ u.processed = w.processed
        /\ DOMAIN u = WorldFields
    BY <1>6, <2>1, OpenedFollows
  <2>3. Handle(Controls, w, e) = Process(Controls, u, e)
    BY <1>6, <2>1, CorrectHandles
  <2>4. EffectsOK(u, es) /\ OrdersOK(u.orders, Append(s, e)) /\ OrdersOK(u.orders, s)
    BY <1>1, <1>2, <2>2, EffectsStay
  \* a world that has other payments only
  <2>5. ASSUME NEW v, Only(v, u, {"payments"}),
               PaymentsOK(v.payments, es), PaymentsKept(u.payments, v.payments)
        PROVE  /\ Follows(w, v, e) /\ EffectsOK(v, es) /\ OrdersOK(v.orders, Append(s, e))
               /\ v.orders = w.orders /\ v.effects = w.effects /\ v.seen = u.seen
               /\ v.mandateUsed = u.mandateUsed /\ v.home = u.home /\ v.processed = u.processed
               /\ DOMAIN v = WorldFields
    <3>1. /\ DOMAIN v = WorldFields /\ v.orders = u.orders /\ v.effects = u.effects
          /\ v.seen = u.seen /\ v.mandateUsed = u.mandateUsed /\ v.home = u.home
          /\ v.processed = u.processed
      BY <2>5 DEF Only, WorldFields
    <3>2. Follows(w, v, e)
      BY <2>2, <2>5, <3>1 DEF Follows, PaymentsKept, OrdersKept
    <3>3. EffectsOK(v, es)
      BY <1>1, <2>2, <3>1, <3>2, EffectsStay
    <3> QED  BY <2>2, <2>4, <3>1, <3>2, <3>3
  \* a step that does not capture
  <2>6. ASSUME NEW v, e.type # "payment.captured", Follows(w, v, e), PaymentsOK(v.payments, es),
               OrdersOK(v.orders, Append(s, e)), EffectsOK(v, es)
        PROVE  Keeps(Processed(v, e, TRUE)) /\ Keeps(Processed(v, e, FALSE))
    <3>1. ASSUME NEW a \in BOOLEAN PROVE Keeps(Processed(v, e, a))
      BY <1>1, <1>6, <2>6, CorrectFollows
    <3> QED  BY <3>1
  <2>7. CASE e.type = "payment.authorized"
    <3>1. PICK v : v = Authorized(Controls, u, e)
      OBVIOUS
    <3>2. CASE v = u
      <4>1. Keeps(Processed(u, e, TRUE))
        BY <2>2, <2>4, <2>6, <2>7
      <4>2. Process(Controls, u, e) = Processed(v, e, TRUE)
        BY <1>1, <2>7, <3>1, ProcessIs, ControlsHave
      <4> QED  BY <2>3, <3>2, <4>1, <4>2
    <3>3. CASE /\ u.payments[p].status # "captured" /\ Only(v, u, {"payments"})
               /\ v.payments = StatusSet(u.payments, p, "authorized")
      <4>1. PaymentsOK(v.payments, es) /\ PaymentsKept(u.payments, v.payments)
        BY <2>2, <3>3, StatusMoves
      <4>2. Keeps(Processed(v, e, TRUE))
        BY <2>5, <2>6, <2>7, <3>3, <4>1
      <4> QED  BY <1>1, <2>3, <2>7, <3>1, <4>2, ProcessIs, ControlsHave
    <3> QED  BY <2>2, <3>1, <3>2, <3>3, AuthorizedIs, ControlsHave
  <2>8. CASE e.type = "payment.failed"
    <3>1. PICK v : v = Failed(u, e)
      OBVIOUS
    <3>2. CASE v = u
      <4>1. Keeps(Processed(u, e, TRUE))
        BY <2>2, <2>4, <2>6, <2>8
      <4>2. Process(Controls, u, e) = Processed(v, e, TRUE)
        BY <1>1, <2>8, <3>1, ProcessIs, ControlsHave
      <4> QED  BY <2>3, <3>2, <4>1, <4>2
    <3>3. CASE /\ u.payments[p].status # "captured" /\ Only(v, u, {"payments"})
               /\ v.payments = StatusSet(u.payments, p, "failed")
      <4>1. PaymentsOK(v.payments, es) /\ PaymentsKept(u.payments, v.payments)
        BY <2>2, <3>3, StatusMoves
      <4>2. Keeps(Processed(v, e, TRUE))
        BY <2>5, <2>6, <2>8, <3>3, <4>1
      <4> QED  BY <1>1, <2>3, <2>8, <3>1, <4>2, ProcessIs, ControlsHave
    <3> QED  BY <2>2, <3>1, <3>2, <3>3, FailedIs
  <2>9. CASE e.type = "payment.captured"
    <3>1. PICK v : v = CapturedWorld(u, e)
      OBVIOUS
    <3>2. /\ Captured(Controls, u, e) = Fulfil(Controls, v, e)
          /\ Only(v, u, {"payments"}) /\ v.payments = PayCaptured(u.payments, p, e.amount)
      BY <2>2, <3>1, CapturedIs, ControlsHave
    <3>3. /\ PaymentsOK(v.payments, es) /\ PaymentsKept(u.payments, v.payments)
          /\ HasCaptured(v.payments, p)
      BY <2>2, <2>9, <3>2, CaptureMoves
    <3>4. /\ Follows(w, v, e) /\ EffectsOK(v, es) /\ v.orders = w.orders
          /\ v.effects = w.effects /\ v.seen = u.seen
          /\ v.mandateUsed = u.mandateUsed /\ v.home = u.home /\ v.processed = u.processed
          /\ DOMAIN v = WorldFields
      BY <2>5, <3>2, <3>3
    <3>5. PICK x, d : /\ x = Fulfil(Controls, v, e)
                      /\ d = OrderNoted(v.orders, e.order)
      OBVIOUS
    <3>6. d = OrderNoted(w.orders, e.order)
      BY <3>4, <3>5
    <3>7. \/ d[e.order].count > 0 /\ Only(x, v, {"orders"}) /\ x.orders = d
          \/ /\ ~(d[e.order].count > 0) /\ Only(x, v, {"orders", "effects"})
             /\ x.orders = OneMore(d, e.order)
             /\ x.effects = Append(v.effects, Effect("fulfilment", e))
      <4>1. DOMAIN v = WorldFields
        BY <3>4
      <4>2. Fulfilled(Controls, v, x, e)
        BY <3>5, <4>1, FulfilIs
      <4> QED  BY <3>5, <4>2, ControlsHave DEF Fulfilled
    <3>8. /\ OrdersOK(x.orders, Append(s, e)) /\ OrdersKept(w.orders, x.orders)
          /\ IsFulfilled(x.orders, e.order)
          /\ \/ x.effects = v.effects /\ Only(x, v, {"orders"})
             \/ /\ x.effects = Append(v.effects, Effect("fulfilment", e))
                /\ Only(x, v, {"orders", "effects"}) /\ ~IsFulfilled(w.orders, e.order)
      <4>0. /\ OrdersOK(d, Append(s, e)) /\ OrdersKept(w.orders, d)
            /\ e.order \in DOMAIN d /\ d[e.order] \in [count : Nat, expected : BOOLEAN]
            /\ IsFulfilled(d, e.order) <=> IsFulfilled(w.orders, e.order)
        BY <1>2, <3>6, OrderOpens
      <4>1. CASE d[e.order].count > 0 /\ Only(x, v, {"orders"}) /\ x.orders = d
        <5>1. x.effects = v.effects
          BY <4>1 DEF Only, WorldFields
        <5>2. IsFulfilled(d, e.order)
          BY <4>0, <4>1 DEF IsFulfilled
        <5> QED  BY <4>0, <4>1, <5>1, <5>2
      <4>2. CASE /\ ~(d[e.order].count > 0) /\ Only(x, v, {"orders", "effects"})
                 /\ x.orders = OneMore(d, e.order)
                 /\ x.effects = Append(v.effects, Effect("fulfilment", e))
        <5>1. /\ OrdersOK(x.orders, Append(s, e)) /\ OrdersKept(d, x.orders)
              /\ IsFulfilled(x.orders, e.order)
          BY <4>0, <4>2, OrderFulfilled
        <5>2. ~IsFulfilled(w.orders, e.order)
          BY <4>0, <4>2 DEF IsFulfilled
        <5>3. OrdersKept(w.orders, x.orders)
          BY <4>0, <5>1 DEF OrdersKept
        <5> QED  BY <4>2, <5>1, <5>2, <5>3
      <4> QED  BY <3>7, <4>1, <4>2
    <3>9. /\ DOMAIN x = WorldFields /\ x.payments = v.payments /\ x.seen = v.seen
          /\ x.home = v.home /\ x.mandateUsed = v.mandateUsed /\ x.processed = v.processed
      BY <3>8 DEF Only, WorldFields
    <3>10. Follows(w, x, e)
      BY <3>4, <3>8, <3>9 DEF Follows
    <3>11. EffectsOK(x, es)
      <4>1. CASE x.effects = v.effects
        BY <1>1, <3>4, <3>10, <4>1, EffectsStay
      <4>2. CASE /\ x.effects = Append(w.effects, Effect("fulfilment", e))
                 /\ ~IsFulfilled(w.orders, e.order)
        <5>1. "fulfilment" \in Kinds /\ e.id \in x.seen
          BY <2>2, <3>4, <3>9 DEF Kinds
        <5> QED  BY <1>1, <1>6, <3>3, <3>8, <3>9, <3>10, <4>2, <5>1, EffectAdded
      <4> QED  BY <3>4, <3>8, <4>1, <4>2
    <3>12. Keeps(Processed(x, e, TRUE))
      BY <1>1, <1>6, <3>3, <3>8, <3>9, <3>10, <3>11, CorrectFollows
    <3>13. Process(Controls, u, e) = Processed(Captured(Controls, u, e), e, TRUE)
      BY <1>1, <2>9, ProcessIs, ControlsHave
    <3> QED  BY <2>3, <3>2, <3>5, <3>12, <3>13
  <2>10. CASE e.type = "order.paid"
    <3>1. PICK x, d : /\ x = OrderPaid(Controls, u, e)
                      /\ d = SetDefault(u.orders, e.order, [count |-> 0, expected |-> TRUE])
      OBVIOUS
    <3>2. Only(x, u, {"orders"}) /\ x.orders = [d EXCEPT ![e.order].expected = TRUE]
      BY <2>2, <3>1, OrderPaidIs, ControlsHave
    <3>3. IsReported(e.order, Append(s, e))
      <4>1. \A i \in DOMAIN s : s[i].signed => s[i].id # e.id
        BY <1>6 DEF CorrectInv, SawSigned
      <4> QED  BY <1>1, <1>6, <2>10, <4>1, EventsStay DEF IsReported
    <3>4. /\ OrdersOK([d EXCEPT ![e.order].expected = TRUE], Append(s, e))
          /\ OrdersKept(u.orders, [d EXCEPT ![e.order].expected = TRUE])
      BY <2>4, <3>1, <3>3, OrderReported
    <3>5. /\ DOMAIN x = WorldFields /\ x.payments = u.payments /\ x.seen = u.seen
          /\ x.effects = u.effects
          /\ x.home = u.home /\ x.mandateUsed = u.mandateUsed /\ x.processed = u.processed
      BY <3>2 DEF Only, WorldFields
    <3>6. Follows(w, x, e)
      BY <2>2, <3>2, <3>4, <3>5 DEF Follows
    <3>7. EffectsOK(x, es)
      BY <1>1, <2>2, <3>5, <3>6, EffectsStay
    <3>8. Keeps(Processed(x, e, TRUE))
      BY <2>2, <2>6, <2>10, <3>2, <3>4, <3>5, <3>6, <3>7
    <3> QED  BY <1>1, <2>3, <2>10, <3>1, <3>8, ProcessIs, ControlsHave
  <2>11. CASE e.type = "refund.processed"
    <3>1. Keeps(Processed(u, e, FALSE))
      BY <2>2, <2>4, <2>6, <2>11
    <3>2. CASE ~Overdrawn(u, e)
      <4>1. PICK x : x = RefundWorld(u, e)
        OBVIOUS
      <4>2. /\ Only(x, u, {"payments", "effects"})
            /\ x.payments = RefundMade(u.payments, p, e.amount)
            /\ x.effects = Append(u.effects, Effect("refund", e))
        BY <2>2, <4>1, RefundIs
      <4>3. ~(u.payments[p].refunded + e.amount > u.payments[p].captured)
        BY <3>2 DEF Overdrawn
      <4>4. PaymentsOK(x.payments, es) /\ PaymentsKept(u.payments, x.payments)
        BY <1>1, <2>2, <4>2, <4>3, RefundMoves
      <4>5. /\ DOMAIN x = WorldFields /\ x.orders = u.orders /\ x.seen = u.seen
            /\ x.home = u.home /\ x.mandateUsed = u.mandateUsed /\ x.processed = u.processed
        BY <4>2 DEF Only, WorldFields
      <4>6. Follows(w, x, e)
        BY <2>2, <4>4, <4>5 DEF Follows, PaymentsKept, OrdersKept
      <4>7. EffectsOK(x, es)
        <5>1. "refund" \in Kinds /\ "refund" # "fulfilment" /\ "refund" # "agent_purchase"
          BY DEF Kinds
        <5>2. e.id \in x.seen /\ x.effects = Append(w.effects, Effect("refund", e))
          BY <2>2, <4>2, <4>5
        <5> QED  BY <1>1, <1>6, <4>6, <5>1, <5>2, EffectAdded
      <4>8. Keeps(Processed(x, e, TRUE))
        BY <2>4, <2>6, <2>11, <4>4, <4>5, <4>6, <4>7
      <4> QED  BY <1>1, <2>3, <2>11, <3>1, <4>1, <4>8, ProcessIs, ControlsHave
    <3> QED  BY <1>1, <2>3, <2>11, <3>1, <3>2, ProcessIs, ControlsHave
  <2>12. CASE e.type = "agent.purchase"
    <3>1. Keeps(Processed(u, e, FALSE))
      BY <2>2, <2>4, <2>6, <2>12
    <3>2. CASE ~u.mandateUsed
      <4>1. PICK x : x = PurchaseWorld(u, e)
        OBVIOUS
      <4>2. /\ Only(x, u, {"mandateUsed", "effects"}) /\ x.mandateUsed
            /\ x.effects = Append(u.effects, Effect("agent_purchase", e))
        BY <2>2, <4>1, PurchaseIs
      <4>3. /\ DOMAIN x = WorldFields /\ x.orders = u.orders /\ x.seen = u.seen
            /\ x.home = u.home /\ x.payments = u.payments /\ x.processed = u.processed
        BY <4>2 DEF Only, WorldFields
      <4>4. Follows(w, x, e)
        BY <2>2, <4>2, <4>3 DEF Follows, PaymentsKept, OrdersKept
      <4>5. EffectsOK(x, es)
        <5>1. "agent_purchase" \in Kinds /\ "agent_purchase" # "fulfilment"
          BY DEF Kinds
        <5>2. /\ e.id \in x.seen /\ x.effects = Append(w.effects, Effect("agent_purchase", e))
              /\ ~w.mandateUsed
          BY <2>2, <3>2, <4>2, <4>3
        <5> QED  BY <1>1, <1>6, <4>2, <4>4, <5>1, <5>2, EffectAdded
      <4>6. Keeps(Processed(x, e, TRUE))
        BY <2>2, <2>4, <2>6, <2>12, <4>3, <4>4, <4>5
      <4>7. Process(Controls, u, e) = Processed(x, e, TRUE)
        BY <1>1, <2>12, <3>2, <4>1, ProcessIs, ControlsHave
      <4> QED  BY <2>3, <4>6, <4>7
    <3>3. CASE u.mandateUsed
      <4>1. Process(Controls, u, e) = Processed(u, e, FALSE)
        BY <1>1, <2>12, <3>3, ProcessIs, ControlsHave
      <4> QED  BY <2>3, <3>1, <4>1
    <3> QED  BY <3>2, <3>3
  <2> QED  BY <1>1, <2>7, <2>8, <2>9, <2>10, <2>11, <2>12 DEF EventTypes
<1> QED  BY <1>4, <1>5, <1>6

\* Such a world violates nothing, if what was reported paid has its capture.
LEMMA CorrectClean ==
    ASSUME NEW es, Coherent(es), NEW s, NEW w, CorrectInv(w, s, es),
           \A i \in DOMAIN s : IsReported(s[i].order, s) => IsCaptured(s[i].order, s)
    PROVE  Evaluate(w) = {}
<1>1. /\ DOMAIN w = WorldFields /\ w.home = "t1" /\ s \in Seq(es)
      /\ PaymentsOK(w.payments, es) /\ OrdersOK(w.orders, s) /\ EffectsOK(w, es)
      /\ SawSigned(w, s) /\ ProcessedOK(w, es)
      /\ \A o : IsCaptured(o, s) => IsFulfilled(w.orders, o)
  BY DEF CorrectInv
<1> DEFINE f == w.effects
<1>2. DOMAIN f = 1 .. Len(f) /\ Len(f) \in Nat
  BY <1>1 DEF EffectsOK
\* two effects differ, and are of seen events of the shop's tenant
<1>3. ASSUME NEW i \in DOMAIN f, NEW j \in DOMAIN f, i # j
      PROVE  /\ f[i].src # f[j].src
             /\ f[i].kind = "fulfilment" /\ f[j].kind = "fulfilment" => f[i].order # f[j].order
             /\ ~(f[i].kind = "agent_purchase" /\ f[j].kind = "agent_purchase")
  <2>1. CASE i < j
    BY <1>1, <1>2, <2>1 DEF EffectsOK
  <2>2. CASE j < i
    BY <1>1, <1>2, <2>2 DEF EffectsOK
  <2> QED  BY <1>2, <1>3, <2>1, <2>2
<1>4. ASSUME NEW i \in DOMAIN f
      PROVE  /\ f[i].src \in w.seen /\ f[i].tenant = w.home
             /\ f[i].kind = "fulfilment" => HasCaptured(w.payments, f[i].payment)
  BY <1>1, <1>2 DEF EffectsOK
<1> HIDE DEF f
<1>5. ~Violates(w, "PTWIN-INV-001")
  <2>1. \A i \in Fulfilments(w) : HasCaptured(w.payments, w.effects[i].payment)
    BY <1>4 DEF Fulfilments, f
  <2> QED  BY <2>1 DEF Violates, HasCaptured
<1>6. ~Violates(w, "PTWIN-INV-002")
  <2>1. ~Twice(w, DOMAIN w.effects, "src")
    BY <1>3 DEF Twice, f
  <2> QED  BY <2>1 DEF Violates
<1>7. ~Violates(w, "PTWIN-INV-003")
  <2>1. ASSUME NEW r \in w.processed, ~r.signed
        PROVE  ~r.accepted /\ \A i \in DOMAIN w.effects : w.effects[i].src # r.id
    <3>1. ~r.accepted /\ \E d \in es : ~d.signed /\ d.id = r.id
      BY <1>1, <2>1 DEF ProcessedOK
    <3>2. PICK d \in es : ~d.signed /\ d.id = r.id
      BY <3>1
    <3>3. ASSUME NEW i \in DOMAIN w.effects, w.effects[i].src = r.id
          PROVE  FALSE
      <4>1. PICK k \in DOMAIN s : s[k].id = r.id /\ s[k].signed
        BY <1>1, <1>4, <3>3 DEF SawSigned, f
      <4>2. s[k] \in es
        BY <1>1
      <4> QED  BY <3>2, <4>1, <4>2 DEF Coherent
    <3> QED  BY <3>1, <3>3
  <2> QED  BY <2>1 DEF Violates
<1>8. ~Violates(w, "PTWIN-INV-004")
  <2>1. \A p \in DOMAIN w.payments : ~(w.payments[p].refunded > w.payments[p].captured)
    BY <1>1 DEF PaymentsOK
  <2> QED  BY <2>1 DEF Violates
<1>9. ~Violates(w, "PTWIN-INV-005")
  <2>1. ~TenantLeak(w)
    BY <1>4 DEF TenantLeak, f
  <2> QED  BY <2>1 DEF Violates
<1>10. ~Violates(w, "PTWIN-INV-006")
  <2>1. ASSUME NEW o \in DOMAIN w.orders, w.orders[o].expected, w.orders[o].count < 1
        PROVE  FALSE
    <3>1. /\ w.orders[o] \in [count : Nat, expected : BOOLEAN]
          /\ w.orders[o].expected = TRUE => IsReported(o, s)
      BY <1>1 DEF OrdersOK
    <3>2. w.orders[o].expected \in BOOLEAN /\ w.orders[o].count \in Nat
      BY <3>1
    <3>3. IsReported(o, s)
      BY <2>1, <3>1, <3>2, Zenon
    <3>4. IsCaptured(o, s)
      BY <3>3 DEF IsReported, Told
    <3>5. IsFulfilled(w.orders, o)
      BY <1>1, <3>4
    <3> QED  BY <2>1, <3>2, <3>5 DEF IsFulfilled
  <2> QED  BY <2>1 DEF Violates
<1>11. ~Violates(w, "PTWIN-INV-007")
  <2> DEFINE P == {i \in DOMAIN w.effects : w.effects[i].kind = "agent_purchase"}
  <2>1. \A i, j \in P : i = j
    BY <1>3 DEF f
  <2>2. Cardinality(P) \in {0, 1}
    <3>1. CASE P = {}
      BY <3>1, FS_EmptySet
    <3>2. CASE P # {}
      <4>1. PICK i \in P : TRUE
        BY <3>2
      <4>2. P = {i}
        BY <2>1, <4>1
      <4> QED  BY <4>2, FS_Singleton
    <3> QED  BY <3>1, <3>2
  <2>3. ~(Cardinality(P) > 1)
    BY <2>2
  <2>4. ~MandateReplayed(w)
    BY <2>3 DEF MandateReplayed
  <2> QED  BY <2>4 DEF Violates
<1>12. ~Violates(w, "PTWIN-INV-008")
  <2>1. ~Twice(w, Fulfilments(w), "order")
    BY <1>3 DEF Twice, Fulfilments, f
  <2> QED  BY <2>1 DEF Violates
<1>13. \A inv \in InvariantIds : ~Violates(w, inv)
  BY <1>5, <1>6, <1>7, <1>8, <1>9, <1>10, <1>11, <1>12 DEF InvariantIds
<1> QED  BY <1>13 DEF Evaluate

(***************************************************************************)
(* The scenarios are sequences of coherent events.                         *)
(***************************************************************************)
IsEvent(x) == x.type \in EventTypes /\ x.amount \in Nat /\ x.signed \in BOOLEAN

Agree(x, y) ==
    /\ x.id = y.id => x.signed = y.signed
    /\ x.type = "payment.captured" /\ y.type = "payment.captured" /\ x.payment = y.payment
          => x.amount = y.amount

IsPlay(q) == q \in Seq(ToSet(q)) /\ Coherent(ToSet(q))

LEMMA PlaysOne ==
    ASSUME NEW x, IsEvent(x) PROVE IsPlay(<<x>>)
<1>1. ToSet(<<x>>) = {x} /\ <<x>> \in Seq({x})
  BY DEF ToSet
<1>2. Coherent({x})
  BY DEF Coherent, IsEvent
<1> QED  BY <1>1, <1>2 DEF IsPlay

LEMMA PlaysTwo ==
    ASSUME NEW x, NEW y, IsEvent(x), IsEvent(y), Agree(x, y) PROVE IsPlay(<<x, y>>)
<1>1. ToSet(<<x, y>>) = {x, y} /\ <<x, y>> \in Seq({x, y})
  BY DEF ToSet
<1>2. Coherent({x, y})
  BY DEF Coherent, IsEvent, Agree
<1> QED  BY <1>1, <1>2 DEF IsPlay

LEMMA PlaysThree ==
    ASSUME NEW x, NEW y, NEW z, IsEvent(x), IsEvent(y), IsEvent(z),
           Agree(x, y), Agree(x, z), Agree(y, z)
    PROVE  IsPlay(<<x, y, z>>)
<1>1. ToSet(<<x, y, z>>) = {x, y, z} /\ <<x, y, z>> \in Seq({x, y, z})
  BY DEF ToSet
<1>2. Coherent({x, y, z})
  BY DEF Coherent, IsEvent, Agree
<1> QED  BY <1>1, <1>2 DEF IsPlay

LEMMA ScenarioPlays ==
    ASSUME NEW id \in ScenarioIds PROVE IsPlay(Scenarios[id].events)
<1> USE DEF EventTypes
<1>0. Scenarios[id] = ScenarioOf(id)
  BY DEF Scenarios
<1>1. CASE id = "GEN-WH-DUP"
  <2>1. PICK x, y : /\ x = Pay("e1", "payment.captured", 5)
                 /\ y = Pay("e1", "payment.captured", 5)
    OBVIOUS
  <2>2. Scenarios[id].events = <<x, y>>
    BY <1>0, <1>1, <2>1 DEF ScenarioOf, Scenario
  <2>3. /\ IsEvent(x) /\ IsEvent(y)
        /\ Agree(x, y)
    BY <2>1 DEF Agree, IsEvent, Pay
  <2> QED  BY <2>2, <2>3, PlaysTwo
<1>2. CASE id = "GEN-WH-BADSIG"
  <2>1. PICK x : x = Forged(Pay("e2", "order.paid", 5))
    OBVIOUS
  <2>2. Scenarios[id].events = <<x>>
    BY <1>0, <1>2, <2>1 DEF ScenarioOf, Scenario
  <2>3. IsEvent(x)
    BY <2>1 DEF Agree, IsEvent, Pay, Forged
  <2> QED  BY <2>2, <2>3, PlaysOne
<1>3. CASE id = "RZP-WH-DUP-DELIVERY"
  <2>1. PICK x, y : /\ x = Pay("rz1", "payment.captured", 6)
                 /\ y = Pay("rz1", "payment.captured", 6)
    OBVIOUS
  <2>2. Scenarios[id].events = <<x, y>>
    BY <1>0, <1>3, <2>1 DEF ScenarioOf, Scenario
  <2>3. /\ IsEvent(x) /\ IsEvent(y)
        /\ Agree(x, y)
    BY <2>1 DEF Agree, IsEvent, Pay
  <2> QED  BY <2>2, <2>3, PlaysTwo
<1>4. CASE id = "RZP-WH-FORGED"
  <2>1. PICK x : x = Forged(Pay("rz2", "payment.captured", 6))
    OBVIOUS
  <2>2. Scenarios[id].events = <<x>>
    BY <1>0, <1>4, <2>1 DEF ScenarioOf, Scenario
  <2>3. IsEvent(x)
    BY <2>1 DEF Agree, IsEvent, Pay, Forged
  <2> QED  BY <2>2, <2>3, PlaysOne
<1>5. CASE id = "RZP-LATE-AUTH"
  <2>1. PICK x, y, z : /\ x = Pay("rz3", "payment.failed", 8)
                 /\ y = Pay("rz4", "payment.authorized", 8)
                 /\ z = Pay("rz4", "payment.captured", 8)
    OBVIOUS
  <2>2. Scenarios[id].events = <<x, y, z>>
    BY <1>0, <1>5, <2>1 DEF ScenarioOf, Scenario
  <2>3. /\ IsEvent(x) /\ IsEvent(y) /\ IsEvent(z)
        /\ Agree(x, y) /\ Agree(x, z) /\ Agree(y, z)
    BY <2>1 DEF Agree, IsEvent, Pay
  <2> QED  BY <2>2, <2>3, PlaysThree
<1>6. CASE id = "RZP-REFUND-CAP"
  <2>1. PICK x, y : /\ x = Pay("rz5", "payment.captured", 5)
                 /\ y = Pay("rz6", "refund.processed", 12)
    OBVIOUS
  <2>2. Scenarios[id].events = <<x, y>>
    BY <1>0, <1>6, <2>1 DEF ScenarioOf, Scenario
  <2>3. /\ IsEvent(x) /\ IsEvent(y)
        /\ Agree(x, y)
    BY <2>1 DEF Agree, IsEvent, Pay
  <2> QED  BY <2>2, <2>3, PlaysTwo
<1>7. CASE id = "RZP-WH-REORDER"
  <2>1. PICK x, y, z : /\ x = Pay("rz8", "payment.captured", 4)
                 /\ y = Pay("rz7", "payment.authorized", 4)
                 /\ z = Pay("rz9", "order.paid", 4)
    OBVIOUS
  <2>2. Scenarios[id].events = <<x, y, z>>
    BY <1>0, <1>7, <2>1 DEF ScenarioOf, Scenario
  <2>3. /\ IsEvent(x) /\ IsEvent(y) /\ IsEvent(z)
        /\ Agree(x, y) /\ Agree(x, z) /\ Agree(y, z)
    BY <2>1 DEF Agree, IsEvent, Pay
  <2> QED  BY <2>2, <2>3, PlaysThree
<1>8. CASE id = "RZP-ONE-FULFILMENT"
  <2>1. PICK x, y : /\ x = Pay("rz10", "payment.captured", 4)
                 /\ y = [Pay("rz11", "payment.captured", 4) EXCEPT !.payment = "pay_2"]
    OBVIOUS
  <2>2. Scenarios[id].events = <<x, y>>
    BY <1>0, <1>8, <2>1 DEF ScenarioOf, Scenario
  <2>3. /\ IsEvent(x) /\ IsEvent(y)
        /\ Agree(x, y)
    BY <2>1 DEF Agree, IsEvent, Pay
  <2> QED  BY <2>2, <2>3, PlaysTwo
<1>9. CASE id = "ISO-TENANT-B"
  <2>1. PICK x : x = [Pay("t9", "payment.captured", 1) EXCEPT !.tenant = "tB"]
    OBVIOUS
  <2>2. Scenarios[id].events = <<x>>
    BY <1>0, <1>9, <2>1 DEF ScenarioOf, Scenario
  <2>3. IsEvent(x)
    BY <2>1 DEF Agree, IsEvent, Pay
  <2> QED  BY <2>2, <2>3, PlaysOne
<1>10. CASE id = "AGT-REPLAY"
  <2>1. PICK x, y : /\ x = Pay("a1", "agent.purchase", 2)
                 /\ y = Pay("a2", "agent.purchase", 2)
    OBVIOUS
  <2>2. Scenarios[id].events = <<x, y>>
    BY <1>0, <1>10, <2>1 DEF ScenarioOf, Scenario
  <2>3. /\ IsEvent(x) /\ IsEvent(y)
        /\ Agree(x, y)
    BY <2>1 DEF Agree, IsEvent, Pay
  <2> QED  BY <2>2, <2>3, PlaysTwo
<1> QED  BY <1>1, <1>2, <1>3, <1>4, <1>5, <1>6, <1>7, <1>8, <1>9, <1>10 DEF ScenarioIds

\* What may be delivered, and that a scenario is played in its order.
Playable == IF scenario = "any" THEN Possible ELSE ToSet(Scenarios[scenario].events)

ShopsInv ==
    /\ scenario \in ScenarioIds \cup {"any"}
    /\ scenario # "any" =>
         /\ Len(delivered) <= Len(Scenarios[scenario].events)
         /\ \A i \in 1 .. Len(delivered) : delivered[i] = Scenarios[scenario].events[i]
    /\ CorrectInv(shop["correct"], delivered, Playable)

LEMMA CorrectPreset == "correct" \in Presets /\ Preset("correct") = Controls
BY DEF Presets, Preset, Lacks

LEMMA PlayableIs ==
    ASSUME scenario \in ScenarioIds \cup {"any"}
    PROVE  /\ Coherent(Playable)
           /\ scenario # "any" =>
                /\ Scenarios[scenario].events \in Seq(Playable)
                /\ \A i \in 1 .. Len(Scenarios[scenario].events) :
                     Scenarios[scenario].events[i] \in Playable
<1>1. CASE scenario = "any"
  BY <1>1, ShopsAssumption DEF Playable
<1>2. CASE scenario # "any"
  <2>1. IsPlay(Scenarios[scenario].events)
    BY <1>2, ScenarioPlays
  <2> QED  BY <1>2, <2>1 DEF Playable, IsPlay
<1> QED  BY <1>1, <1>2

LEMMA CorrectStarts ==
    ASSUME NEW es, NEW b
    PROVE  CorrectInv(NewWorld(b), <<>>, es)
<1> DEFINE w == NewWorld(b)
<1>1. /\ DOMAIN w = WorldFields /\ w.home = "t1" /\ w.processed = {} /\ w.seen = {}
      /\ w.payments = <<>> /\ w.orders = <<>> /\ w.effects = <<>>
  BY DEF NewWorld, WorldFields
<1> HIDE DEF w
<1>2. /\ <<>> \in Seq(es) /\ DOMAIN <<>> = {} /\ Len(<<>>) = 0 /\ <<>> \in Seq(Effects(es))
      /\ 1 .. 0 = {}
  OBVIOUS
<1>3. PaymentsOK(w.payments, es) /\ OrdersOK(w.orders, <<>>)
  BY <1>1, <1>2 DEF PaymentsOK, OrdersOK
<1>4. EffectsOK(w, es)
  BY <1>1, <1>2 DEF EffectsOK
<1>5. SawSigned(w, <<>>) /\ ProcessedOK(w, es)
  BY <1>1 DEF SawSigned, ProcessedOK
<1>6. \A o : ~IsCaptured(o, <<>>)
  BY <1>2 DEF IsCaptured, Told
<1> QED  BY <1>1, <1>2, <1>3, <1>4, <1>5, <1>6 DEF CorrectInv, w

LEMMA ShopsStarts == ShopsInit => ShopsInv
<1> SUFFICES ASSUME ShopsInit PROVE ShopsInv
  OBVIOUS
<1>1. shop["correct"] = NewWorld(SingleUse(scenario)) /\ delivered = <<>>
  BY CorrectPreset DEF ShopsInit
<1>2. CorrectInv(shop["correct"], delivered, Playable)
  BY <1>1, CorrectStarts
<1>3. scenario # "any" => Len(Scenarios[scenario].events) \in Nat
  <2> HAVE scenario # "any"
  <2>1. IsPlay(Scenarios[scenario].events)
    BY ScenarioPlays DEF ShopsInit
  <2> QED  BY <2>1 DEF IsPlay
<1> QED  BY <1>1, <1>2, <1>3 DEF ShopsInv, ShopsInit

LEMMA DeliverKeeps ==
    ASSUME ShopsInv, NEW e \in Playable, Deliver(e)
    PROVE  /\ CorrectInv(shop'["correct"], delivered', Playable')
           /\ Len(delivered) \in Nat /\ Len(delivered') = Len(delivered) + 1
           /\ delivered'[Len(delivered) + 1] = e
           /\ \A i \in 1 .. Len(delivered) : delivered'[i] = delivered[i]
<1>1. Coherent(Playable)
  BY PlayableIs DEF ShopsInv
<1>2. CorrectInv(shop["correct"], delivered, Playable) /\ delivered \in Seq(Playable)
  BY DEF ShopsInv, CorrectInv
<1>3. shop'["correct"] = Handle(Controls, shop["correct"], e)
  BY CorrectPreset DEF Deliver
<1>4. delivered' = Append(delivered, e) /\ Playable' = Playable
  BY DEF Deliver, Playable
<1>5. CorrectInv(Handle(Controls, shop["correct"], e), Append(delivered, e), Playable)
  BY <1>1, <1>2, CorrectStep
<1> QED  BY <1>2, <1>3, <1>4, <1>5, Appended

\* The next event of a scenario is one that may be delivered.
LEMMA NextIsPlayable ==
    ASSUME ShopsInv, scenario # "any", ~Finished
    PROVE  LET q == Scenarios[scenario].events
               n == Len(delivered)
           IN  /\ n \in Nat /\ n + 1 \in 1 .. Len(q) /\ q[n + 1] \in Playable
               /\ \A i \in 1 .. n : delivered[i] = q[i]
<1> DEFINE q == Scenarios[scenario].events
           n == Len(delivered)
<1>1. q \in Seq(Playable) /\ \A i \in 1 .. Len(q) : q[i] \in Playable
  BY PlayableIs DEF ShopsInv
<1>2. /\ delivered \in Seq(Playable) /\ n \in Nat /\ Len(q) \in Nat /\ n <= Len(q)
      /\ \A i \in 1 .. n : delivered[i] = q[i]
  BY <1>1 DEF ShopsInv, CorrectInv
<1>3. n # Len(q)
  <2>1. delivered # q
    BY DEF Finished
  <2> QED  BY <1>1, <1>2, <2>1
<1> QED  BY <1>1, <1>2, <1>3

LEMMA ShopsStep == ShopsInv /\ [ShopsNext]_shopsVars => ShopsInv'
<1> SUFFICES ASSUME ShopsInv, [ShopsNext]_shopsVars PROVE ShopsInv'
  OBVIOUS
<1>1. CASE UNCHANGED shopsVars
  BY <1>1 DEF shopsVars, ShopsInv, Playable
<1>2. CASE /\ scenario # "any" /\ ~Finished
           /\ Deliver(Scenarios[scenario].events[Len(delivered) + 1])
  <2> DEFINE q == Scenarios[scenario].events
             n == Len(delivered)
  <2>4. /\ n \in Nat /\ n + 1 \in 1 .. Len(q) /\ q[n + 1] \in Playable
        /\ \A i \in 1 .. n : delivered[i] = q[i]
    BY <1>2, NextIsPlayable
  <2>5. /\ CorrectInv(shop'["correct"], delivered', Playable')
        /\ Len(delivered') = n + 1 /\ delivered'[n + 1] = q[n + 1]
        /\ \A i \in 1 .. n : delivered'[i] = delivered[i]
    BY <1>2, <2>4, DeliverKeeps
  <2>6. scenario' = scenario
    BY <1>2 DEF Deliver
  <2>7. \A i \in 1 .. (n + 1) : delivered'[i] = q[i]
    BY <2>4, <2>5
  <2> QED  BY <2>4, <2>5, <2>6, <2>7 DEF ShopsInv
<1>3. CASE scenario = "any" /\ \E e \in Possible : Deliver(e)
  <2>1. PICK e \in Possible : Deliver(e)
    BY <1>3
  <2>2. e \in Playable
    BY <1>3 DEF Playable
  <2>3. CorrectInv(shop'["correct"], delivered', Playable') /\ scenario' = scenario
    BY <2>1, <2>2, DeliverKeeps DEF Deliver
  <2> QED  BY <1>3, <2>3 DEF ShopsInv
<1> QED  BY <1>1, <1>2, <1>3 DEF ShopsNext

\* After every sequence of coherent events, in any order and with any repetition,
\* the correct shop violates no invariant: the lab raises no false alarm
\* (SafetyEngine.evaluate after handle_event, engine.py and invariants.py).
THEOREM NoFalseAlarm == ShopsSpec => []CorrectIsClean
<1>1. ShopsInv => CorrectIsClean
  <2> SUFFICES ASSUME ShopsInv,
                      \A i \in DOMAIN delivered :
                          IsReported(delivered[i].order, delivered)
                              => IsCaptured(delivered[i].order, delivered)
               PROVE  Evaluate(shop["correct"]) = {}
    BY DEF CorrectIsClean, IsReported, IsCaptured
  <2>1. Coherent(Playable) /\ CorrectInv(shop["correct"], delivered, Playable)
    BY PlayableIs DEF ShopsInv
  <2> QED  BY <2>1, CorrectClean
<1> QED  BY <1>1, ShopsStarts, ShopsStep, PTL DEF ShopsSpec

------------------------------------------------------------------------------
(* What the lab can see of a shop, whatever controls it has.               *)

\* What a shop counts of an order and of a payment.
CountOf(orders, o) == IF o \in DOMAIN orders THEN orders[o].count ELSE 0
CapturedOf(pays, p) == IF p \in DOMAIN pays THEN pays[p].captured ELSE 0
RefundedOf(pays, p) == IF p \in DOMAIN pays THEN pays[p].refunded ELSE 0

PaymentsTyped(pays) ==
    \A p \in DOMAIN pays :
        DOMAIN pays[p] = PaymentFields /\ pays[p].captured \in Nat /\ pays[p].refunded \in Nat

OrdersTyped(orders) == \A o \in DOMAIN orders : orders[o] \in [count : Nat, expected : BOOLEAN]

\* The payments count the same.
SamePayments(pays, new) ==
    /\ DOMAIN pays \subseteq DOMAIN new
    /\ \A p : CapturedOf(new, p) = CapturedOf(pays, p) /\ RefundedOf(new, p) = RefundedOf(pays, p)

SameOrders(orders, new) == \A o : CountOf(new, o) = CountOf(orders, o)

LEMMA OpeningCounts ==
    ASSUME NEW pays, PaymentsTyped(pays), NEW e, NEW new,
           new = SetDefault(pays, e.payment, NewPayment(e))
    PROVE  PaymentsTyped(new) /\ SamePayments(pays, new) /\ e.payment \in DOMAIN new
<1>1. /\ DOMAIN new = DOMAIN pays \cup {e.payment}
      /\ \A p \in DOMAIN pays : new[p] = pays[p]
      /\ e.payment \notin DOMAIN pays => new[e.payment] = NewPayment(e)
  BY DEF SetDefault
<1>2. /\ DOMAIN NewPayment(e) = PaymentFields
      /\ NewPayment(e).captured = 0 /\ NewPayment(e).refunded = 0
  BY DEF NewPayment, PaymentFields
<1>3. PaymentsTyped(new)
  BY <1>1, <1>2 DEF PaymentsTyped
<1>4. ASSUME NEW p
      PROVE  CapturedOf(new, p) = CapturedOf(pays, p) /\ RefundedOf(new, p) = RefundedOf(pays, p)
  BY <1>1, <1>2 DEF CapturedOf, RefundedOf
<1> QED  BY <1>1, <1>3, <1>4 DEF SamePayments

\* One payment is replaced by another.
LEMMA ReplacedCounts ==
    ASSUME NEW pays, PaymentsTyped(pays), NEW p \in DOMAIN pays, NEW y, NEW new,
           DOMAIN new = DOMAIN pays, new[p] = y, \A q \in DOMAIN pays : q # p => new[q] = pays[q],
           DOMAIN y = PaymentFields, y.captured \in Nat, y.refunded \in Nat
    PROVE  /\ PaymentsTyped(new) /\ DOMAIN new = DOMAIN pays
           /\ CapturedOf(new, p) = y.captured /\ RefundedOf(new, p) = y.refunded
           /\ \A q : q # p => /\ CapturedOf(new, q) = CapturedOf(pays, q)
                              /\ RefundedOf(new, q) = RefundedOf(pays, q)
BY DEF PaymentsTyped, CapturedOf, RefundedOf

LEMMA StatusCounts ==
    ASSUME NEW pays, PaymentsTyped(pays), NEW p \in DOMAIN pays, NEW status
    PROVE  /\ PaymentsTyped(StatusSet(pays, p, status))
           /\ SamePayments(pays, StatusSet(pays, p, status))
<1> DEFINE y == [pays[p] EXCEPT !.status = status]
           new == StatusSet(pays, p, status)
<1>1. DOMAIN new = DOMAIN pays /\ new[p] = y /\ \A q \in DOMAIN pays : q # p => new[q] = pays[q]
  BY DEF StatusSet
<1>2. DOMAIN pays[p] = PaymentFields /\ pays[p].captured \in Nat /\ pays[p].refunded \in Nat
  BY DEF PaymentsTyped
<1>3. /\ DOMAIN y = PaymentFields /\ y.captured = pays[p].captured /\ y.refunded = pays[p].refunded
      /\ y.captured \in Nat /\ y.refunded \in Nat
  BY <1>2 DEF PaymentFields
<1> HIDE DEF y, new
<1>4. /\ PaymentsTyped(new) /\ DOMAIN new = DOMAIN pays
      /\ CapturedOf(new, p) = y.captured /\ RefundedOf(new, p) = y.refunded
      /\ \A q : q # p => /\ CapturedOf(new, q) = CapturedOf(pays, q)
                         /\ RefundedOf(new, q) = RefundedOf(pays, q)
  BY <1>1, <1>2, <1>3, ReplacedCounts
<1>5. CapturedOf(pays, p) = pays[p].captured /\ RefundedOf(pays, p) = pays[p].refunded
  BY DEF CapturedOf, RefundedOf
<1> QED  BY <1>3, <1>4, <1>5 DEF SamePayments, new

LEMMA CaptureCounts ==
    ASSUME NEW pays, PaymentsTyped(pays), NEW p \in DOMAIN pays, NEW a \in Nat, NEW new,
           new = PayCaptured(pays, p, a)
    PROVE  /\ PaymentsTyped(new)
           /\ \A q : /\ CapturedOf(new, q) = IF q = p THEN a ELSE CapturedOf(pays, q)
                     /\ RefundedOf(new, q) = RefundedOf(pays, q)
<1> DEFINE y == [pays[p] EXCEPT !.status = "captured", !.captured = a]
<1>1. DOMAIN new = DOMAIN pays /\ new[p] = y /\ \A q \in DOMAIN pays : q # p => new[q] = pays[q]
  BY DEF PayCaptured
<1>2. DOMAIN pays[p] = PaymentFields /\ pays[p].captured \in Nat /\ pays[p].refunded \in Nat
  BY DEF PaymentsTyped
<1>3. /\ DOMAIN y = PaymentFields /\ y.captured = a /\ y.refunded = pays[p].refunded
      /\ y.captured \in Nat /\ y.refunded \in Nat
  BY <1>2 DEF PaymentFields
<1> HIDE DEF y
<1>4. /\ PaymentsTyped(new) /\ DOMAIN new = DOMAIN pays
      /\ CapturedOf(new, p) = y.captured /\ RefundedOf(new, p) = y.refunded
      /\ \A q : q # p => /\ CapturedOf(new, q) = CapturedOf(pays, q)
                         /\ RefundedOf(new, q) = RefundedOf(pays, q)
  BY <1>1, <1>2, <1>3, ReplacedCounts
<1>5. RefundedOf(pays, p) = pays[p].refunded
  BY DEF RefundedOf
<1> QED  BY <1>3, <1>4, <1>5

LEMMA RefundCounts ==
    ASSUME NEW pays, PaymentsTyped(pays), NEW p \in DOMAIN pays, NEW a \in Nat, NEW new,
           new = RefundMade(pays, p, a)
    PROVE  /\ PaymentsTyped(new)
           /\ \A q : /\ CapturedOf(new, q) = CapturedOf(pays, q)
                     /\ RefundedOf(new, q) = IF q = p THEN RefundedOf(pays, q) + a
                                             ELSE RefundedOf(pays, q)
<1> DEFINE y == [pays[p] EXCEPT !.refunded = @ + a]
<1>1. DOMAIN new = DOMAIN pays /\ new[p] = y /\ \A q \in DOMAIN pays : q # p => new[q] = pays[q]
  BY DEF RefundMade
<1>2. DOMAIN pays[p] = PaymentFields /\ pays[p].captured \in Nat /\ pays[p].refunded \in Nat
  BY DEF PaymentsTyped
<1>3. /\ DOMAIN y = PaymentFields /\ y.captured = pays[p].captured
      /\ y.refunded = pays[p].refunded + a
      /\ y.captured \in Nat /\ y.refunded \in Nat
  BY <1>2 DEF PaymentFields
<1> HIDE DEF y
<1>4. /\ PaymentsTyped(new) /\ DOMAIN new = DOMAIN pays
      /\ CapturedOf(new, p) = y.captured /\ RefundedOf(new, p) = y.refunded
      /\ \A q : q # p => /\ CapturedOf(new, q) = CapturedOf(pays, q)
                         /\ RefundedOf(new, q) = RefundedOf(pays, q)
  BY <1>1, <1>2, <1>3, ReplacedCounts
<1>5. CapturedOf(pays, p) = pays[p].captured /\ RefundedOf(pays, p) = pays[p].refunded
  BY DEF CapturedOf, RefundedOf
<1> QED  BY <1>3, <1>4, <1>5

LEMMA NotingCounts ==
    ASSUME NEW orders, OrdersTyped(orders), NEW o, NEW b \in BOOLEAN, NEW d,
           d = SetDefault(orders, o, [count |-> 0, expected |-> b])
    PROVE  OrdersTyped(d) /\ SameOrders(orders, d) /\ o \in DOMAIN d
<1> DEFINE y == [count |-> 0, expected |-> b]
<1>0. y.count = 0 /\ y \in [count : Nat, expected : BOOLEAN]
  OBVIOUS
<1> HIDE DEF y
<1>1. /\ DOMAIN d = DOMAIN orders \cup {o} /\ \A q \in DOMAIN orders : d[q] = orders[q]
      /\ o \notin DOMAIN orders => d[o] = y
  BY DEF SetDefault, y
<1>2. OrdersTyped(d)
  BY <1>0, <1>1 DEF OrdersTyped
<1>3. ASSUME NEW q PROVE CountOf(d, q) = CountOf(orders, q)
  BY <1>0, <1>1 DEF CountOf
<1> QED  BY <1>1, <1>2, <1>3 DEF SameOrders

LEMMA OneMoreCounts ==
    ASSUME NEW d, OrdersTyped(d), NEW o \in DOMAIN d, NEW new, new = OneMore(d, o)
    PROVE  /\ OrdersTyped(new)
           /\ \A q : CountOf(new, q) = IF q = o THEN CountOf(d, q) + 1 ELSE CountOf(d, q)
<1> DEFINE y == [d[o] EXCEPT !.count = @ + 1]
<1>0. d[o] \in [count : Nat, expected : BOOLEAN]
  BY DEF OrdersTyped
<1>1. y \in [count : Nat, expected : BOOLEAN] /\ y.count = d[o].count + 1
  BY <1>0
<1>2. DOMAIN new = DOMAIN d /\ new[o] = y /\ \A q \in DOMAIN d : q # o => new[q] = d[q]
  BY DEF OneMore
<1> HIDE DEF y
<1>3. OrdersTyped(new)
  BY <1>1, <1>2 DEF OrdersTyped
<1>4. ASSUME NEW q
      PROVE  CountOf(new, q) = IF q = o THEN CountOf(d, q) + 1 ELSE CountOf(d, q)
  BY <1>1, <1>2 DEF CountOf
<1> QED  BY <1>3, <1>4

LEMMA ExpectingCounts ==
    ASSUME NEW d, OrdersTyped(d), NEW o \in DOMAIN d, NEW new,
           new = [d EXCEPT ![o].expected = TRUE]
    PROVE  OrdersTyped(new) /\ SameOrders(d, new)
<1> DEFINE y == [d[o] EXCEPT !.expected = TRUE]
<1>0. d[o] \in [count : Nat, expected : BOOLEAN]
  BY DEF OrdersTyped
<1>1. y \in [count : Nat, expected : BOOLEAN] /\ y.count = d[o].count
  BY <1>0
<1>2. DOMAIN new = DOMAIN d /\ new[o] = y /\ \A q \in DOMAIN d : q # o => new[q] = d[q]
  OBVIOUS
<1> HIDE DEF y
<1>3. OrdersTyped(new)
  BY <1>1, <1>2 DEF OrdersTyped
<1>4. ASSUME NEW q PROVE CountOf(new, q) = CountOf(d, q)
  BY <1>1, <1>2 DEF CountOf
<1> QED  BY <1>3, <1>4 DEF SameOrders

\* The events a shop with the controls c lets through, and those that then have an
\* effect; the kind of that effect.
Passes(c, w, e) ==
    /\ "verify_signature" \in c => e.signed
    /\ "dedupe" \in c => e.id \notin w.seen
    /\ "tenant_scope" \in c => e.tenant = w.home

Would(c, w, e) ==
    \/ /\ e.type = "payment.captured"
       /\ ~("single_fulfilment" \in c /\ CountOf(w.orders, e.order) > 0)
    \/ /\ e.type = "refund.processed"
       /\ RefundedOf(w.payments, e.payment) + e.amount <= CapturedOf(w.payments, e.payment)
    \/ e.type = "agent.purchase" /\ ~("mandate_limits" \in c /\ w.mandateUsed)

KindOf(e) == IF e.type = "payment.captured" THEN "fulfilment"
             ELSE IF e.type = "refund.processed" THEN "refund" ELSE "agent_purchase"

Does(c, w, e) == IF Passes(c, w, e) /\ Would(c, w, e) THEN KindOf(e) ELSE "none"

Captures(c, w, e) == Passes(c, w, e) /\ e.type = "payment.captured"

Typed(w, es) ==
    /\ DOMAIN w = WorldFields /\ w.mandateUsed \in BOOLEAN
    /\ w.effects \in Seq(Effects(es))
    /\ PaymentsTyped(w.payments) /\ OrdersTyped(w.orders)

\* The world v is w after the event e, that has an effect of kind k and, if cap, captures.
Moves(w, v, e, k, cap, es) ==
    /\ Typed(v, es) /\ v.home = w.home /\ v.singleUse = w.singleUse
    /\ v.effects = IF k = "none" THEN w.effects ELSE Append(w.effects, Effect(k, e))
    /\ \A o : CountOf(v.orders, o) = IF k = "fulfilment" /\ o = e.order
                                     THEN CountOf(w.orders, o) + 1 ELSE CountOf(w.orders, o)
    /\ \A p : RefundedOf(v.payments, p) = IF k = "refund" /\ p = e.payment
                                          THEN RefundedOf(w.payments, p) + e.amount
                                          ELSE RefundedOf(w.payments, p)
    /\ \A p : CapturedOf(v.payments, p) = IF cap /\ p = e.payment
                                          THEN e.amount ELSE CapturedOf(w.payments, p)
    /\ v.mandateUsed = IF k = "agent_purchase" THEN TRUE ELSE w.mandateUsed

Notes(w, v, e, seen, a) ==
    /\ v.seen = seen
    /\ v.processed = w.processed \cup {[id |-> e.id, signed |-> e.signed, accepted |-> a]}

LEMMA EffectTyped ==
    ASSUME NEW es, NEW e \in es, NEW k \in Kinds
    PROVE  Effect(k, e) \in Effects(es)
BY DEF Effects

LEMMA ProcessedMoves ==
    ASSUME NEW es, NEW w, NEW x, NEW e, NEW k, NEW cap, Moves(w, x, e, k, cap, es),
           x.processed = w.processed, NEW a
    PROVE  /\ Moves(w, Processed(x, e, a), e, k, cap, es)
           /\ Notes(w, Processed(x, e, a), e, x.seen, a)
<1> DEFINE v == Processed(x, e, a)
<1>0. DOMAIN x = WorldFields
  BY DEF Moves, Typed
<1>1. /\ DOMAIN v = WorldFields /\ v.payments = x.payments /\ v.orders = x.orders
      /\ v.effects = x.effects /\ v.seen = x.seen /\ v.home = x.home
      /\ v.mandateUsed = x.mandateUsed /\ v.singleUse = x.singleUse
      /\ v.processed = x.processed \cup {[id |-> e.id, signed |-> e.signed, accepted |-> a]}
  BY <1>0, ProcessedIs DEF Only, WorldFields
<1> HIDE DEF v
<1>2. Moves(w, v, e, k, cap, es)
  BY <1>1 DEF Moves, Typed
<1> QED  BY <1>1, <1>2 DEF Notes, v

\* A world that differs in what it has seen, and in payments that count the same.
LEMMA QuietMoves ==
    ASSUME NEW es, NEW w, Typed(w, es), NEW x, Only(x, w, {"seen", "payments"}),
           PaymentsTyped(x.payments), SamePayments(w.payments, x.payments), NEW e
    PROVE  Moves(w, x, e, "none", FALSE, es) /\ x.processed = w.processed
<1>1. /\ DOMAIN x = WorldFields /\ x.orders = w.orders /\ x.effects = w.effects
      /\ x.home = w.home /\ x.mandateUsed = w.mandateUsed /\ x.singleUse = w.singleUse
      /\ x.processed = w.processed
  BY DEF Only, WorldFields
<1>2. Typed(x, es)
  BY <1>1 DEF Typed
<1> QED  BY <1>1, <1>2 DEF Moves, SamePayments

\* A step after which nothing was counted yet may come first.
LEMMA NothingMore ==
    ASSUME NEW es, NEW w, NEW u, NEW x, NEW e, NEW k, NEW cap,
           Moves(w, u, e, "none", FALSE, es), Moves(u, x, e, k, cap, es)
    PROVE  Moves(w, x, e, k, cap, es)
BY DEF Moves

\* What the accepted event does to a world where its payment is known.
Outcome(c, u, v, e, es) ==
    LET k == IF Would(c, u, e) THEN KindOf(e) ELSE "none"
    IN  /\ Moves(u, v, e, k, e.type = "payment.captured", es)
        /\ \E a \in BOOLEAN : Notes(u, v, e, u.seen, a) /\ (k # "none" => a = TRUE)

LEMMA OutcomeIs ==
    ASSUME NEW es, NEW c, NEW u, NEW e, NEW x, NEW a \in BOOLEAN, NEW k,
           k = IF Would(c, u, e) THEN KindOf(e) ELSE "none", k # "none" => a = TRUE,
           Moves(u, x, e, k, e.type = "payment.captured", es),
           x.processed = u.processed, x.seen = u.seen,
           NEW v, v = Processed(x, e, a)
    PROVE  Outcome(c, u, v, e, es)
<1>1. Moves(u, v, e, k, e.type = "payment.captured", es) /\ Notes(u, v, e, u.seen, a)
  BY ProcessedMoves
<1> QED  BY <1>1 DEF Outcome

LEMMA QuietOutcome ==
    ASSUME NEW es, NEW c, NEW u, Typed(u, es), NEW e, NEW a \in BOOLEAN,
           ~Would(c, u, e), e.type # "payment.captured",
           NEW x, Only(x, u, {"payments"}),
           PaymentsTyped(x.payments), SamePayments(u.payments, x.payments)
    PROVE  Outcome(c, u, Processed(x, e, a), e, es)
<1>1. Only(x, u, {"seen", "payments"}) /\ x.seen = u.seen
  BY DEF Only, WorldFields
<1>2. Moves(u, x, e, "none", FALSE, es) /\ x.processed = u.processed
  BY <1>1, QuietMoves
<1>3. Moves(u, x, e, "none", e.type = "payment.captured", es)
  BY <1>2
<1> QED  BY <1>1, <1>2, <1>3, OutcomeIs

LEMMA SameWorld ==
    ASSUME NEW es, NEW u, Typed(u, es)
    PROVE  Only(u, u, {"payments"}) /\ PaymentsTyped(u.payments) /\ SamePayments(u.payments, u.payments)
BY DEF Typed, Only, SamePayments

LEMMA PaymentOutcome ==
    ASSUME NEW es, NEW c, "require_captured" \in c, "idempotent_refunds" \in c,
           NEW u, Typed(u, es), NEW e, e.payment \in DOMAIN u.payments,
           e.type \in {"payment.authorized", "payment.failed"}
    PROVE  Outcome(c, u, Process(c, u, e), e, es)
<1> DEFINE p == e.payment
<1>1. ~Would(c, u, e) /\ e.type # "payment.captured" /\ e.type \in EventTypes
  BY DEF Would, EventTypes
<1>2. DOMAIN u = WorldFields /\ PaymentsTyped(u.payments)
  BY DEF Typed
<1>3. ASSUME NEW x, NEW status,
             x = u \/ (Only(x, u, {"payments"}) /\ x.payments = StatusSet(u.payments, p, status))
      PROVE  Outcome(c, u, Processed(x, e, TRUE), e, es)
  <2>1. CASE x = u
    BY <1>1, <2>1, SameWorld, QuietOutcome
  <2>2. CASE Only(x, u, {"payments"}) /\ x.payments = StatusSet(u.payments, p, status)
    <3>1. PaymentsTyped(x.payments) /\ SamePayments(u.payments, x.payments)
      BY <1>2, <2>2, StatusCounts
    <3> QED  BY <1>1, <2>2, <3>1, QuietOutcome
  <2> QED  BY <1>3, <2>1, <2>2
<1>4. CASE e.type = "payment.authorized"
  <2>1. PICK x : x = Authorized(c, u, e)
    OBVIOUS
  <2>2. x = u \/ (Only(x, u, {"payments"}) /\ x.payments = StatusSet(u.payments, p, "authorized"))
    BY <1>2, <2>1, AuthorizedIs
  <2>3. Outcome(c, u, Processed(x, e, TRUE), e, es)
    BY <1>3, <2>2
  <2> QED  BY <1>1, <1>4, <2>1, <2>3, ProcessIs
<1>5. CASE e.type = "payment.failed"
  <2>1. PICK x : x = Failed(u, e)
    OBVIOUS
  <2>2. x = u \/ (Only(x, u, {"payments"}) /\ x.payments = StatusSet(u.payments, p, "failed"))
    BY <1>2, <2>1, FailedIs
  <2>3. Outcome(c, u, Processed(x, e, TRUE), e, es)
    BY <1>3, <2>2
  <2> QED  BY <1>1, <1>5, <2>1, <2>3, ProcessIs
<1> QED  BY <1>4, <1>5

LEMMA OrderOutcome ==
    ASSUME NEW es, NEW c, "require_captured" \in c, "idempotent_refunds" \in c,
           NEW u, Typed(u, es), NEW e, e.type = "order.paid"
    PROVE  Outcome(c, u, Process(c, u, e), e, es)
<1>1. ~Would(c, u, e) /\ e.type # "payment.captured" /\ e.type \in EventTypes
  BY DEF Would, EventTypes
<1>2. DOMAIN u = WorldFields /\ OrdersTyped(u.orders)
  BY DEF Typed
<1>3. PICK x, d : /\ x = OrderPaid(c, u, e)
                  /\ d = SetDefault(u.orders, e.order, [count |-> 0, expected |-> TRUE])
  OBVIOUS
<1>4. Only(x, u, {"orders"}) /\ x.orders = [d EXCEPT ![e.order].expected = TRUE]
  BY <1>2, <1>3, OrderPaidIs
<1>5. OrdersTyped(d) /\ SameOrders(u.orders, d) /\ e.order \in DOMAIN d
  BY <1>2, <1>3, NotingCounts
<1>6. OrdersTyped(x.orders) /\ SameOrders(d, x.orders)
  BY <1>4, <1>5, ExpectingCounts
<1>7. /\ DOMAIN x = WorldFields /\ x.payments = u.payments /\ x.effects = u.effects
      /\ x.home = u.home /\ x.mandateUsed = u.mandateUsed /\ x.singleUse = u.singleUse
      /\ x.processed = u.processed /\ x.seen = u.seen
  BY <1>4 DEF Only, WorldFields
<1>8. Moves(u, x, e, "none", e.type = "payment.captured", es)
  BY <1>1, <1>5, <1>6, <1>7 DEF Moves, Typed, SameOrders
<1>9. Outcome(c, u, Processed(x, e, TRUE), e, es)
  BY <1>1, <1>7, <1>8, OutcomeIs
<1> QED  BY <1>1, <1>3, <1>9, ProcessIs

LEMMA CaptureOutcome ==
    ASSUME NEW es, NEW c, "require_captured" \in c, "idempotent_refunds" \in c,
           NEW u, Typed(u, es), NEW e \in es, e.payment \in DOMAIN u.payments, e.amount \in Nat,
           e.type = "payment.captured"
    PROVE  Outcome(c, u, Process(c, u, e), e, es)
<1> DEFINE p == e.payment
           again == "single_fulfilment" \in c /\ CountOf(u.orders, e.order) > 0
<1>1. e.type \in EventTypes /\ KindOf(e) = "fulfilment" /\ (Would(c, u, e) <=> ~again)
  BY DEF EventTypes, KindOf, Would
<1>2. DOMAIN u = WorldFields /\ PaymentsTyped(u.payments) /\ OrdersTyped(u.orders)
      /\ u.effects \in Seq(Effects(es)) /\ u.mandateUsed \in BOOLEAN
  BY DEF Typed
<1>3. PICK v : v = CapturedWorld(u, e)
  OBVIOUS
<1>4. /\ Captured(c, u, e) = Fulfil(c, v, e)
      /\ Only(v, u, {"payments"}) /\ v.payments = PayCaptured(u.payments, p, e.amount)
  BY <1>2, <1>3, CapturedIs
<1>5. /\ PaymentsTyped(v.payments)
      /\ \A q : /\ CapturedOf(v.payments, q) = IF q = p THEN e.amount
                                               ELSE CapturedOf(u.payments, q)
                /\ RefundedOf(v.payments, q) = RefundedOf(u.payments, q)
  BY <1>2, <1>4, CaptureCounts
<1>6. /\ DOMAIN v = WorldFields /\ v.orders = u.orders /\ v.effects = u.effects
      /\ v.home = u.home /\ v.mandateUsed = u.mandateUsed /\ v.singleUse = u.singleUse
      /\ v.processed = u.processed /\ v.seen = u.seen
  BY <1>4 DEF Only, WorldFields
<1>7. PICK x, d : x = Fulfil(c, v, e) /\ d = OrderNoted(v.orders, e.order)
  OBVIOUS
<1>8. \/ /\ "single_fulfilment" \in c /\ d[e.order].count > 0
         /\ Only(x, v, {"orders"}) /\ x.orders = d
      \/ /\ ~("single_fulfilment" \in c /\ d[e.order].count > 0)
         /\ Only(x, v, {"orders", "effects"})
         /\ x.orders = OneMore(d, e.order)
         /\ x.effects = Append(v.effects, Effect("fulfilment", e))
  <2>1. DOMAIN v = WorldFields
    BY <1>6
  <2>2. Fulfilled(c, v, x, e)
    BY <1>7, <2>1, FulfilIs
  <2> QED  BY <1>7, <2>2 DEF Fulfilled
<1>9. OrdersTyped(d) /\ SameOrders(u.orders, d) /\ e.order \in DOMAIN d
  <2>1. d = SetDefault(u.orders, e.order, [count |-> 0, expected |-> FALSE])
    BY <1>6, <1>7 DEF OrderNoted
  <2> QED  BY <1>2, <2>1, NotingCounts
<1>10. d[e.order].count = CountOf(u.orders, e.order)
  BY <1>9 DEF SameOrders, CountOf
<1>13. Process(c, u, e) = Processed(x, e, TRUE)
  <2>1. Process(c, u, e) = Processed(Captured(c, u, e), e, TRUE)
    BY <1>1, ProcessIs
  <2> QED  BY <1>4, <1>7, <2>1
<1>11. CASE again
  <2>1. Only(x, v, {"orders"}) /\ x.orders = d
    BY <1>8, <1>10, <1>11
  <2>2. /\ DOMAIN x = WorldFields /\ x.payments = v.payments /\ x.effects = v.effects
        /\ x.home = v.home /\ x.mandateUsed = v.mandateUsed /\ x.singleUse = v.singleUse
        /\ x.processed = v.processed /\ x.seen = v.seen
    BY <2>1 DEF Only, WorldFields
  <2>3. Typed(x, es)
    BY <1>2, <1>5, <1>6, <1>9, <2>1, <2>2 DEF Typed
  <2>4. Moves(u, x, e, "none", TRUE, es)
    BY <1>5, <1>6, <1>9, <2>1, <2>2, <2>3 DEF Moves, SameOrders
  <2>5. Outcome(c, u, Processed(x, e, TRUE), e, es)
    <3>1. Moves(u, x, e, "none", e.type = "payment.captured", es)
      BY <2>4
    <3>2. x.processed = u.processed /\ x.seen = u.seen
      BY <1>6, <2>2
    <3>3. "none" = IF Would(c, u, e) THEN KindOf(e) ELSE "none"
      BY <1>1, <1>11
    <3> HIDE DEF again
    <3> QED  BY <3>1, <3>2, <3>3, OutcomeIs
  <2> QED  BY <1>13, <2>5
<1>12. CASE ~again
  <2>1. /\ Only(x, v, {"orders", "effects"}) /\ x.orders = OneMore(d, e.order)
        /\ x.effects = Append(v.effects, Effect("fulfilment", e))
    BY <1>8, <1>10, <1>12
  <2>2. /\ DOMAIN x = WorldFields /\ x.payments = v.payments
        /\ x.home = v.home /\ x.mandateUsed = v.mandateUsed /\ x.singleUse = v.singleUse
        /\ x.processed = v.processed /\ x.seen = v.seen
    BY <2>1 DEF Only, WorldFields
  <2>3. /\ OrdersTyped(x.orders)
        /\ \A q : CountOf(x.orders, q) = IF q = e.order THEN CountOf(d, q) + 1 ELSE CountOf(d, q)
    BY <1>9, <2>1, OneMoreCounts
  <2>4. x.effects = Append(u.effects, Effect("fulfilment", e)) /\ x.effects \in Seq(Effects(es))
    <3>1. Effect("fulfilment", e) \in Effects(es)
      BY EffectTyped DEF Kinds
    <3> QED  BY <1>2, <1>6, <2>1, <3>1, Appended
  <2>5. Typed(x, es)
    BY <1>2, <1>5, <1>6, <2>2, <2>3, <2>4 DEF Typed
  <2>6. Moves(u, x, e, "fulfilment", TRUE, es)
    BY <1>5, <1>6, <1>9, <2>2, <2>3, <2>4, <2>5 DEF Moves, SameOrders
  <2>7. Outcome(c, u, Processed(x, e, TRUE), e, es)
    <3>1. Moves(u, x, e, "fulfilment", e.type = "payment.captured", es)
      BY <2>6
    <3>2. x.processed = u.processed /\ x.seen = u.seen
      BY <1>6, <2>2
    <3>3. "fulfilment" = IF Would(c, u, e) THEN KindOf(e) ELSE "none"
      BY <1>1, <1>12
    <3> HIDE DEF again
    <3> QED  BY <3>1, <3>2, <3>3, OutcomeIs
  <2> QED  BY <1>13, <2>7
<1> QED  BY <1>11, <1>12

LEMMA RefundOutcome ==
    ASSUME NEW es, NEW c, "require_captured" \in c, "idempotent_refunds" \in c,
           NEW u, Typed(u, es), NEW e \in es, e.payment \in DOMAIN u.payments, e.amount \in Nat,
           e.type = "refund.processed"
    PROVE  Outcome(c, u, Process(c, u, e), e, es)
<1> DEFINE p == e.payment
<1>2. DOMAIN u = WorldFields /\ PaymentsTyped(u.payments) /\ OrdersTyped(u.orders)
      /\ u.effects \in Seq(Effects(es)) /\ u.mandateUsed \in BOOLEAN
  BY DEF Typed
<1>1. /\ e.type \in EventTypes /\ KindOf(e) = "refund" /\ e.type # "payment.captured"
      /\ Would(c, u, e) <=> ~Overdrawn(u, e)
  <2>1. u.payments[p].captured \in Nat /\ u.payments[p].refunded \in Nat
    BY <1>2 DEF PaymentsTyped
  <2>2. /\ CapturedOf(u.payments, p) = u.payments[p].captured
        /\ RefundedOf(u.payments, p) = u.payments[p].refunded
    BY DEF CapturedOf, RefundedOf
  <2>3. Would(c, u, e) <=> RefundedOf(u.payments, p) + e.amount <= CapturedOf(u.payments, p)
    BY DEF Would
  <2>4. Overdrawn(u, e) <=> u.payments[p].refunded + e.amount > u.payments[p].captured
    BY DEF Overdrawn
  <2>5. Would(c, u, e) <=> ~Overdrawn(u, e)
    BY <2>1, <2>2, <2>3, <2>4
  <2> QED  BY <2>5 DEF EventTypes, KindOf
<1>3. CASE Overdrawn(u, e)
  <2>1. Outcome(c, u, Processed(u, e, FALSE), e, es)
    BY <1>1, <1>3, SameWorld, QuietOutcome
  <2>2. Process(c, u, e) = Processed(u, e, FALSE)
    BY <1>1, <1>3, ProcessIs
  <2> QED  BY <2>1, <2>2
<1>4. CASE ~Overdrawn(u, e)
  <2>1. PICK x : x = RefundWorld(u, e)
    OBVIOUS
  <2>2. /\ Only(x, u, {"payments", "effects"})
        /\ x.payments = RefundMade(u.payments, p, e.amount)
        /\ x.effects = Append(u.effects, Effect("refund", e))
    BY <1>2, <2>1, RefundIs
  <2>3. /\ PaymentsTyped(x.payments)
        /\ \A q : /\ CapturedOf(x.payments, q) = CapturedOf(u.payments, q)
                  /\ RefundedOf(x.payments, q) = IF q = p THEN RefundedOf(u.payments, q) + e.amount
                                                 ELSE RefundedOf(u.payments, q)
    BY <1>2, <2>2, RefundCounts
  <2>4. /\ DOMAIN x = WorldFields /\ x.orders = u.orders
        /\ x.home = u.home /\ x.mandateUsed = u.mandateUsed /\ x.singleUse = u.singleUse
        /\ x.processed = u.processed /\ x.seen = u.seen
    BY <2>2 DEF Only, WorldFields
  <2>5. x.effects \in Seq(Effects(es))
    <3>1. Effect("refund", e) \in Effects(es)
      BY EffectTyped DEF Kinds
    <3> QED  BY <1>2, <2>2, <3>1, Appended
  <2>6. Typed(x, es)
    BY <1>2, <2>3, <2>4, <2>5 DEF Typed
  <2>7. Moves(u, x, e, "refund", FALSE, es)
    BY <2>2, <2>3, <2>4, <2>6 DEF Moves
  <2>8. Moves(u, x, e, "refund", e.type = "payment.captured", es)
    BY <1>1, <2>7
  <2>9. "refund" = IF Would(c, u, e) THEN KindOf(e) ELSE "none"
    BY <1>1, <1>4
  <2>10. Outcome(c, u, Processed(x, e, TRUE), e, es)
    BY <2>4, <2>8, <2>9, OutcomeIs
  <2>11. Process(c, u, e) = Processed(x, e, TRUE)
    BY <1>1, <1>4, <2>1, ProcessIs
  <2> QED  BY <2>10, <2>11
<1> QED  BY <1>3, <1>4

LEMMA PurchaseOutcome ==
    ASSUME NEW es, NEW c, "require_captured" \in c, "idempotent_refunds" \in c,
           NEW u, Typed(u, es), NEW e \in es, e.type = "agent.purchase"
    PROVE  Outcome(c, u, Process(c, u, e), e, es)
<1> DEFINE spent == "mandate_limits" \in c /\ u.mandateUsed
<1>1. /\ e.type \in EventTypes /\ KindOf(e) = "agent_purchase" /\ e.type # "payment.captured"
      /\ Would(c, u, e) <=> ~spent
  BY DEF EventTypes, KindOf, Would
<1>2. DOMAIN u = WorldFields /\ PaymentsTyped(u.payments) /\ OrdersTyped(u.orders)
      /\ u.effects \in Seq(Effects(es)) /\ u.mandateUsed \in BOOLEAN
  BY DEF Typed
<1>3. CASE spent
  <2>1. Outcome(c, u, Processed(u, e, FALSE), e, es)
    BY <1>1, <1>3, SameWorld, QuietOutcome
  <2>2. Process(c, u, e) = Processed(u, e, FALSE)
    BY <1>1, <1>3, ProcessIs
  <2> QED  BY <2>1, <2>2
<1>4. CASE ~spent
  <2>1. PICK x : x = PurchaseWorld(u, e)
    OBVIOUS
  <2>2. /\ Only(x, u, {"mandateUsed", "effects"}) /\ x.mandateUsed = TRUE
        /\ x.effects = Append(u.effects, Effect("agent_purchase", e))
    BY <1>2, <2>1, PurchaseIs
  <2>3. /\ DOMAIN x = WorldFields /\ x.orders = u.orders /\ x.payments = u.payments
        /\ x.home = u.home /\ x.singleUse = u.singleUse
        /\ x.processed = u.processed /\ x.seen = u.seen
    BY <2>2 DEF Only, WorldFields
  <2>4. x.effects \in Seq(Effects(es))
    <3>1. Effect("agent_purchase", e) \in Effects(es)
      BY EffectTyped DEF Kinds
    <3> QED  BY <1>2, <2>2, <3>1, Appended
  <2>5. Typed(x, es)
    BY <1>2, <2>2, <2>3, <2>4 DEF Typed
  <2>6. Moves(u, x, e, "agent_purchase", FALSE, es)
    BY <2>2, <2>3, <2>5 DEF Moves
  <2>7. Moves(u, x, e, "agent_purchase", e.type = "payment.captured", es)
    BY <1>1, <2>6
  <2>8. "agent_purchase" = IF Would(c, u, e) THEN KindOf(e) ELSE "none"
    BY <1>1, <1>4
  <2> HIDE DEF spent
  <2>9. Outcome(c, u, Processed(x, e, TRUE), e, es)
    BY <2>3, <2>7, <2>8, OutcomeIs
  <2>10. Process(c, u, e) = Processed(x, e, TRUE)
    <3>1. ~("mandate_limits" \in c /\ u.mandateUsed)
      BY <1>4 DEF spent
    <3>2. \/ "mandate_limits" \in c /\ u.mandateUsed
             /\ Process(c, u, e) = Processed(u, e, FALSE)
          \/ ~("mandate_limits" \in c /\ u.mandateUsed)
             /\ Process(c, u, e) = Processed(PurchaseWorld(u, e), e, TRUE)
      BY <1>1, ProcessIs
    <3>3. Process(c, u, e) = Processed(PurchaseWorld(u, e), e, TRUE)
      BY <3>1, <3>2
    <3> QED  BY <2>1, <3>3
  <2> QED  BY <2>9, <2>10
<1> QED  BY <1>3, <1>4

LEMMA ProcessOutcome ==
    ASSUME NEW es, NEW c, "require_captured" \in c, "idempotent_refunds" \in c,
           NEW u, Typed(u, es), NEW e \in es, e.payment \in DOMAIN u.payments,
           e.type \in EventTypes, e.amount \in Nat
    PROVE  Outcome(c, u, Process(c, u, e), e, es)
BY PaymentOutcome, OrderOutcome, CaptureOutcome, RefundOutcome, PurchaseOutcome DEF EventTypes

SeenAfter(c, w, e) ==
    IF "verify_signature" \in c /\ ~e.signed THEN w.seen ELSE w.seen \cup {e.id}

LEMMA HandleIs ==
    ASSUME NEW c, NEW w, NEW e
    PROVE  /\ "verify_signature" \in c /\ ~e.signed => Handle(c, w, e) = Processed(w, e, FALSE)
           /\ "dedupe" \in c /\ e.id \in w.seen => Handle(c, w, e) = Processed(w, e, FALSE)
           /\ /\ "verify_signature" \in c => e.signed
              /\ "dedupe" \in c => e.id \notin w.seen
              => IF "tenant_scope" \in c /\ e.tenant # w.home
                 THEN Handle(c, w, e) = Processed([w EXCEPT !.seen = @ \cup {e.id}], e, FALSE)
                 ELSE Handle(c, w, e) = Process(c, Opened(w, e), e)
<1> DEFINE rejected == \/ "verify_signature" \in c /\ ~e.signed
                       \/ "dedupe" \in c /\ e.id \in w.seen
<1>1. Handle(c, w, e) =
        IF rejected THEN Processed(w, e, FALSE)
        ELSE IF "tenant_scope" \in c /\ e.tenant # w.home
             THEN Processed([w EXCEPT !.seen = @ \cup {e.id}], e, FALSE)
             ELSE Process(c, Opened(w, e), e)
  BY DEF Handle, Opened
<1>2. CASE rejected
  BY <1>1, <1>2
<1>3. CASE ~rejected
  BY <1>1, <1>3
<1> QED  BY <1>2, <1>3

\* Every event moves the shop as its controls say.
Handled(c, w, v, e, es) ==
    /\ Moves(w, v, e, Does(c, w, e), Captures(c, w, e), es)
    /\ \E a \in BOOLEAN : /\ Notes(w, v, e, SeenAfter(c, w, e), a)
                          /\ Does(c, w, e) # "none" => a = TRUE

LEMMA HandleMoves ==
    ASSUME NEW es, NEW c, "require_captured" \in c, "idempotent_refunds" \in c,
           NEW w, Typed(w, es), NEW e \in es, e.type \in EventTypes, e.amount \in Nat
    PROVE  Handled(c, w, Handle(c, w, e), e, es)
<1>1. DOMAIN w = WorldFields /\ PaymentsTyped(w.payments)
  BY DEF Typed
\* a rejected event
<1>2. ASSUME NEW x, Only(x, w, {"seen", "payments"}), x.payments = w.payments,
             x.seen = SeenAfter(c, w, e), ~Passes(c, w, e),
             Handle(c, w, e) = Processed(x, e, FALSE)
      PROVE  Handled(c, w, Handle(c, w, e), e, es)
  <2>1. SamePayments(w.payments, x.payments) /\ PaymentsTyped(x.payments)
    BY <1>1, <1>2 DEF SamePayments
  <2>2. Moves(w, x, e, "none", FALSE, es) /\ x.processed = w.processed
    BY <1>2, <2>1, QuietMoves
  <2>3. /\ Moves(w, Processed(x, e, FALSE), e, "none", FALSE, es)
        /\ Notes(w, Processed(x, e, FALSE), e, SeenAfter(c, w, e), FALSE)
    BY <1>2, <2>2, ProcessedMoves
  <2>4. Does(c, w, e) = "none" /\ Captures(c, w, e) = FALSE
    BY <1>2 DEF Does, Captures
  <2> QED  BY <1>2, <2>3, <2>4 DEF Handled
<1>3. CASE ("verify_signature" \in c /\ ~e.signed) \/ ("dedupe" \in c /\ e.id \in w.seen)
  <2>1. Handle(c, w, e) = Processed(w, e, FALSE)
    BY <1>3, HandleIs
  <2>2. ~Passes(c, w, e)
    BY <1>3 DEF Passes
  <2>3. w.seen = SeenAfter(c, w, e)
    BY <1>3 DEF SeenAfter
  <2>4. Only(w, w, {"seen", "payments"})
    BY <1>1 DEF Only
  <2> QED  BY <1>2, <2>1, <2>2, <2>3, <2>4
<1>4. CASE /\ "verify_signature" \in c => e.signed
           /\ "dedupe" \in c => e.id \notin w.seen
           /\ "tenant_scope" \in c /\ e.tenant # w.home
  <2>1. PICK x : x = [w EXCEPT !.seen = @ \cup {e.id}]
    OBVIOUS
  <2>2. Only(x, w, {"seen"}) /\ x.seen = w.seen \cup {e.id}
    BY <1>1, <2>1, SeenIs
  <2>3. Only(x, w, {"seen", "payments"}) /\ x.payments = w.payments
    BY <2>2 DEF Only, WorldFields
  <2>4. Handle(c, w, e) = Processed(x, e, FALSE)
    BY <1>4, <2>1, HandleIs
  <2>5. ~Passes(c, w, e) /\ x.seen = SeenAfter(c, w, e)
    BY <1>4, <2>2 DEF Passes, SeenAfter
  <2> QED  BY <1>2, <2>3, <2>4, <2>5
<1>5. CASE /\ "verify_signature" \in c => e.signed
           /\ "dedupe" \in c => e.id \notin w.seen
           /\ ~("tenant_scope" \in c /\ e.tenant # w.home)
  <2>1. PICK u : u = Opened(w, e)
    OBVIOUS
  <2>2. /\ Only(u, w, {"seen", "payments"}) /\ u.seen = w.seen \cup {e.id}
        /\ u.payments = SetDefault(w.payments, e.payment, NewPayment(e))
    BY <1>1, <2>1, OpenedIs
  <2>3. /\ PaymentsTyped(u.payments) /\ SamePayments(w.payments, u.payments)
        /\ e.payment \in DOMAIN u.payments
    BY <1>1, <2>2, OpeningCounts
  <2>4. Moves(w, u, e, "none", FALSE, es) /\ u.processed = w.processed
    BY <2>2, <2>3, QuietMoves
  <2>5. Typed(u, es)
    BY <2>4 DEF Moves
  <2>6. Handle(c, w, e) = Process(c, u, e)
    BY <1>5, <2>1, HandleIs
  <2>7. Outcome(c, u, Process(c, u, e), e, es)
    BY <2>3, <2>5, ProcessOutcome
  <2>8. Passes(c, w, e) /\ u.seen = SeenAfter(c, w, e)
    BY <1>5, <2>2 DEF Passes, SeenAfter
  <2>9. Would(c, u, e) <=> Would(c, w, e)
    <3>1. u.orders = w.orders /\ u.mandateUsed = w.mandateUsed
      BY <2>2 DEF Only, WorldFields
    <3>2. /\ CapturedOf(u.payments, e.payment) = CapturedOf(w.payments, e.payment)
          /\ RefundedOf(u.payments, e.payment) = RefundedOf(w.payments, e.payment)
      BY <2>3 DEF SamePayments
    <3> QED  BY <3>1, <3>2 DEF Would
  <2> DEFINE k == IF Would(c, u, e) THEN KindOf(e) ELSE "none"
             v == Process(c, u, e)
  <2>10. /\ Moves(u, v, e, k, e.type = "payment.captured", es)
         /\ \E a \in BOOLEAN : Notes(u, v, e, u.seen, a) /\ (k # "none" => a = TRUE)
    BY <2>7 DEF Outcome
  <2>11. Moves(w, v, e, k, e.type = "payment.captured", es)
    <3> HIDE DEF k, v
    <3> QED  BY <2>4, <2>10, NothingMore
  <2>12. k = Does(c, w, e)
    BY <2>8, <2>9 DEF Does
  <2>13. (e.type = "payment.captured") = Captures(c, w, e)
    BY <2>8 DEF Captures
  <2>14. PICK a \in BOOLEAN : Notes(u, v, e, u.seen, a) /\ (k # "none" => a = TRUE)
    BY <2>10
  <2>15. Notes(w, v, e, SeenAfter(c, w, e), a)
    BY <2>4, <2>8, <2>14 DEF Notes
  <2> HIDE DEF k, v
  <2>16. Handled(c, w, v, e, es)
    BY <2>11, <2>12, <2>13, <2>14, <2>15 DEF Handled
  <2> QED  BY <2>6, <2>16 DEF v
<1> QED  BY <1>3, <1>4, <1>5

------------------------------------------------------------------------------
(* What stays true of every shop that has two of the controls.             *)

Two == {"require_captured", "idempotent_refunds"}

\* The premises of DefectsAreSeen, of the events s.
OneEvent(s) == \A i, j \in DOMAIN s : s[i].id = s[j].id => s[i] = s[j]

RefundsAfter(s) ==
    \A i \in DOMAIN s : s[i].type = "refund.processed" =>
        \E j \in 1 .. (i-1) : /\ Genuine(j, s) /\ s[j].type = "payment.captured"
                              /\ s[j].payment = s[i].payment

HasEffect(w, x) == \E i \in DOMAIN w.effects : w.effects[i].src = x

SawEvents(c, w, s) ==
    \A x : x \in w.seen <=>
        \E i \in DOMAIN s : s[i].id = x /\ ("verify_signature" \in c => s[i].signed)

\* A payment whose capture is genuine has captured its amount.
CapturesKnown(w, s) ==
    \A i \in DOMAIN s : Genuine(i, s) /\ s[i].type = "payment.captured"
        => CapturedOf(w.payments, s[i].payment) = s[i].amount

\* What is counted of orders and of the mandate has an effect.
EffectsBacked(w) ==
    /\ \A o : CountOf(w.orders, o) > 0 =>
         \E i \in DOMAIN w.effects : w.effects[i].kind = "fulfilment" /\ w.effects[i].order = o
    /\ w.mandateUsed => \E i \in DOMAIN w.effects : w.effects[i].kind = "agent_purchase"

\* An event that was delivered to the shop has its effect, or would have none again.
NothingLeft(c, w, s) ==
    \A i \in DOMAIN s : s[i].signed /\ s[i].tenant = "t1"
        => HasEffect(w, s[i].id) \/ ~Would(c, w, s[i])

ShopInv(c, w, s, single, es) ==
    /\ s \in Seq(es)
    /\ Typed(w, es) /\ w.home = "t1" /\ w.singleUse = single
    /\ SawEvents(c, w, s)
    /\ CapturesKnown(w, s)
    /\ EffectsBacked(w)
    /\ NothingLeft(c, w, s)

LEMMA CountsAreNat ==
    ASSUME NEW w, NEW es, Typed(w, es)
    PROVE  /\ \A o : CountOf(w.orders, o) \in Nat
           /\ \A p : CapturedOf(w.payments, p) \in Nat /\ RefundedOf(w.payments, p) \in Nat
BY DEF Typed, OrdersTyped, PaymentsTyped, CountOf, CapturedOf, RefundedOf

LEMMA EffectFields ==
    ASSUME NEW k, NEW e
    PROVE  /\ Effect(k, e).kind = k /\ Effect(k, e).order = e.order
           /\ Effect(k, e).tenant = e.tenant /\ Effect(k, e).src = e.id
BY DEF Effect

LEMMA KindsAre ==
    ASSUME NEW c, NEW w, NEW e
    PROVE  /\ KindOf(e) \in Kinds /\ KindOf(e) # "none"
           /\ Does(c, w, e) # "none" <=> Passes(c, w, e) /\ Would(c, w, e)
           /\ Does(c, w, e) # "none" => Does(c, w, e) = KindOf(e)
           /\ Does(c, w, e) = "fulfilment" => e.type = "payment.captured"
BY DEF KindOf, Kinds, Does

\* The n effects grow by the one of the event.
Grown(w, v, e, k, n) ==
    /\ n \in Nat /\ DOMAIN w.effects = 1 .. n
    /\ k = "none" => v.effects = w.effects
    /\ k # "none" =>
         /\ DOMAIN v.effects = 1 .. (n + 1)
         /\ v.effects[n + 1].kind = k /\ v.effects[n + 1].order = e.order
         /\ v.effects[n + 1].tenant = e.tenant /\ v.effects[n + 1].src = e.id
    /\ \A i \in DOMAIN w.effects : i \in DOMAIN v.effects /\ v.effects[i] = w.effects[i]

LEMMA EffectsGrow ==
    ASSUME NEW es, NEW w, Typed(w, es), NEW e \in es, NEW v, NEW k \in Kinds \cup {"none"}, NEW cap,
           Moves(w, v, e, k, cap, es)
    PROVE  Grown(w, v, e, k, Len(w.effects))
<1> DEFINE n == Len(w.effects)
<1>1. w.effects \in Seq(Effects(es))
  BY DEF Typed
<1>2. n \in Nat /\ DOMAIN w.effects = 1 .. n
  BY <1>1
<1>3. CASE k = "none"
  <2>1. v.effects = w.effects
    BY <1>3 DEF Moves
  <2> QED  BY <1>2, <1>3, <2>1 DEF Grown
<1>4. CASE k # "none"
  <2>1. v.effects = Append(w.effects, Effect(k, e))
    BY <1>4 DEF Moves
  <2>2. Effect(k, e) \in Effects(es)
    BY <1>4, EffectTyped
  <2>3. /\ DOMAIN v.effects = 1 .. (n + 1) /\ v.effects[n + 1] = Effect(k, e)
        /\ \A i \in 1 .. n : v.effects[i] = w.effects[i]
    BY <1>1, <2>1, <2>2, Appended
  <2> HIDE DEF n
  <2>4. \A i \in 1 .. n : i \in 1 .. (n + 1)
    BY <1>2
  <2>5. /\ v.effects[n + 1].kind = k /\ v.effects[n + 1].order = e.order
        /\ v.effects[n + 1].tenant = e.tenant /\ v.effects[n + 1].src = e.id
    BY <2>3, EffectFields
  <2> QED  BY <1>2, <1>4, <2>3, <2>4, <2>5 DEF n, Grown
<1> QED  BY <1>3, <1>4

\* What would have no effect still would not.
LEMMA WouldNotStill ==
    ASSUME NEW es, NEW c, NEW w, Typed(w, es), NEW v, NEW e, e.amount \in Nat, NEW k, NEW cap,
           Moves(w, v, e, k, cap, es), NEW d, d.amount \in Nat, ~Would(c, w, d),
           d.type = "refund.processed" =>
               CapturedOf(v.payments, d.payment) = CapturedOf(w.payments, d.payment)
    PROVE  ~Would(c, v, d)
<1>1. Typed(v, es)
  BY DEF Moves
<1>2. CASE d.type = "payment.captured"
  <2>1. "single_fulfilment" \in c /\ CountOf(w.orders, d.order) > 0
    BY <1>2 DEF Would
  <2>2. /\ CountOf(w.orders, d.order) \in Nat
        /\ \/ CountOf(v.orders, d.order) = CountOf(w.orders, d.order)
           \/ CountOf(v.orders, d.order) = CountOf(w.orders, d.order) + 1
    BY CountsAreNat DEF Moves
  <2>3. CountOf(v.orders, d.order) > 0
    BY <2>1, <2>2
  <2> QED  BY <1>2, <2>1, <2>3 DEF Would
<1>3. CASE d.type = "refund.processed"
  <2> DEFINE p == d.payment
  <2>1. ~(RefundedOf(w.payments, p) + d.amount <= CapturedOf(w.payments, p))
    BY <1>3 DEF Would
  <2>2. /\ RefundedOf(w.payments, p) \in Nat /\ CapturedOf(w.payments, p) \in Nat
        /\ \/ RefundedOf(v.payments, p) = RefundedOf(w.payments, p)
           \/ RefundedOf(v.payments, p) = RefundedOf(w.payments, p) + e.amount
    BY CountsAreNat DEF Moves
  <2>3. ~(RefundedOf(v.payments, p) + d.amount <= CapturedOf(v.payments, p))
    BY <1>3, <2>1, <2>2
  <2> QED  BY <1>3, <2>3 DEF Would
<1>4. CASE d.type = "agent.purchase"
  <2>1. "mandate_limits" \in c /\ w.mandateUsed
    BY <1>4 DEF Would
  <2>2. v.mandateUsed = TRUE \/ v.mandateUsed = w.mandateUsed
    BY DEF Moves
  <2>3. "mandate_limits" \in c /\ v.mandateUsed
    BY <2>1, <2>2
  <2> QED  BY <1>4, <2>3 DEF Would
<1> QED  BY <1>2, <1>3, <1>4 DEF Would

\* One event more: what was delivered stays, and the event is genuine if it is new.
Longer(t, s, e, n) ==
    /\ n \in Nat /\ DOMAIN s = 1 .. n /\ DOMAIN t = 1 .. (n + 1) /\ t[n + 1] = e
    /\ \A i \in 1 .. n : t[i] = s[i] /\ (Genuine(i, t) <=> Genuine(i, s))
    /\ Genuine(n + 1, t) <=> /\ e.signed /\ e.tenant = "t1"
                             /\ \A i \in 1 .. n : s[i].signed => s[i].id # e.id

LEMMA OneEventMore ==
    ASSUME NEW es, NEW s \in Seq(es), NEW e \in es
    PROVE  Append(s, e) \in Seq(es) /\ Longer(Append(s, e), s, e, Len(s))
<1> DEFINE n == Len(s)
           t == Append(s, e)
<1>1. /\ n \in Nat /\ DOMAIN t = 1 .. (n + 1) /\ DOMAIN s = 1 .. n /\ t \in Seq(es)
      /\ \A i \in 1 .. n : t[i] = s[i]
      /\ t[n + 1] = e
  BY Appended
<1> HIDE DEF n, t
<1>2. ASSUME NEW i \in 1 .. n PROVE Genuine(i, t) <=> Genuine(i, s)
  <2>1. \A j \in 1 .. (i-1) : j \in 1 .. n
    BY <1>1
  <2>2. t[i] = s[i] /\ \A j \in 1 .. (i-1) : t[j] = s[j]
    BY <1>1, <2>1
  <2> QED  BY <2>2 DEF Genuine
<1>3. Genuine(n + 1, t) <=> /\ e.signed /\ e.tenant = "t1"
                            /\ \A i \in 1 .. n : s[i].signed => s[i].id # e.id
  <2>1. 1 .. (n + 1 - 1) = 1 .. n
    BY <1>1
  <2> QED  BY <1>1, <2>1 DEF Genuine
<1> QED  BY <1>1, <1>2, <1>3 DEF n, t, Longer

\* The premises hold of what was delivered before.
LEMMA PremisesBefore ==
    ASSUME NEW es, NEW s \in Seq(es), NEW e \in es, NEW t, t = Append(s, e),
           OneEvent(t), RefundsAfter(t)
    PROVE  OneEvent(s) /\ RefundsAfter(s)
<1> DEFINE n == Len(s)
<1>1. /\ n \in Nat /\ DOMAIN s = 1 .. n /\ DOMAIN t = 1 .. (n + 1)
      /\ \A i \in 1 .. n : t[i] = s[i] /\ (Genuine(i, t) <=> Genuine(i, s))
  BY OneEventMore DEF Longer
<1> HIDE DEF n
<1>2. \A i \in 1 .. n : i \in 1 .. (n + 1) /\ \A j \in 1 .. (i-1) : j \in 1 .. n
  BY <1>1
<1>3. OneEvent(s)
  BY <1>1, <1>2 DEF OneEvent
<1>4. ASSUME NEW i \in 1 .. n, s[i].type = "refund.processed"
      PROVE  \E j \in 1 .. (i-1) : /\ Genuine(j, s) /\ s[j].type = "payment.captured"
                                   /\ s[j].payment = s[i].payment
  <2>1. PICK j \in 1 .. (i-1) : /\ Genuine(j, t) /\ t[j].type = "payment.captured"
                                /\ t[j].payment = t[i].payment
    BY <1>1, <1>2, <1>4 DEF RefundsAfter
  <2> QED  BY <1>1, <1>2, <2>1
<1> QED  BY <1>1, <1>3, <1>4 DEF RefundsAfter

LEMMA SeenStays ==
    ASSUME NEW c, NEW w, NEW s, SawEvents(c, w, s), NEW e, NEW t, NEW n, Longer(t, s, e, n),
           NEW v, v.seen = SeenAfter(c, w, e)
    PROVE  SawEvents(c, v, t)
<1>1. /\ n \in Nat /\ DOMAIN s = 1 .. n /\ DOMAIN t = 1 .. (n + 1) /\ t[n + 1] = e
      /\ \A i \in 1 .. n : t[i] = s[i]
  BY DEF Longer
<1>2. \A x : x \in w.seen <=> \E i \in 1 .. n : s[i].id = x /\ ("verify_signature" \in c => s[i].signed)
  BY <1>1 DEF SawEvents
<1>3. ASSUME NEW x \in v.seen
      PROVE  \E i \in 1 .. (n + 1) : t[i].id = x /\ ("verify_signature" \in c => t[i].signed)
  <2>1. CASE x \in w.seen
    <3>1. PICK i \in 1 .. n : s[i].id = x /\ ("verify_signature" \in c => s[i].signed)
      BY <1>2, <2>1
    <3>2. i \in 1 .. (n + 1) /\ t[i] = s[i]
      BY <1>1
    <3> QED  BY <3>1, <3>2
  <2>2. CASE x \notin w.seen
    <3>1. x = e.id /\ ("verify_signature" \in c => e.signed)
      BY <1>3, <2>2 DEF SeenAfter
    <3>2. n + 1 \in 1 .. (n + 1)
      BY <1>1
    <3> QED  BY <1>1, <3>1, <3>2
  <2> QED  BY <2>1, <2>2
<1>4. ASSUME NEW i \in 1 .. (n + 1), "verify_signature" \in c => t[i].signed
      PROVE  t[i].id \in v.seen
  <2>1. CASE i \in 1 .. n
    <3>1. t[i].id \in w.seen
      BY <1>1, <1>2, <1>4, <2>1
    <3> QED  BY <3>1 DEF SeenAfter
  <2>2. CASE i = n + 1
    BY <1>1, <1>4, <2>2 DEF SeenAfter
  <2> QED  BY <1>1, <2>1, <2>2
<1> QED  BY <1>1, <1>3, <1>4 DEF SawEvents

LEMMA NewIsUnseen ==
    ASSUME NEW es, Coherent(es), NEW c, NEW w, NEW s \in Seq(es), SawEvents(c, w, s), NEW e \in es,
           e.signed, \A i \in DOMAIN s : s[i].signed => s[i].id # e.id
    PROVE  e.id \notin w.seen
<1> SUFFICES ASSUME e.id \in w.seen PROVE FALSE
  OBVIOUS
<1>1. PICK i \in DOMAIN s : s[i].id = e.id
  BY DEF SawEvents
<1>2. s[i] \in es
  OBVIOUS
<1>3. s[i].signed = e.signed
  BY <1>1, <1>2 DEF Coherent
<1> QED  BY <1>1, <1>3

LEMMA CapturesStay ==
    ASSUME NEW es, Coherent(es), NEW c, NEW w, w.home = "t1", NEW s \in Seq(es),
           SawEvents(c, w, s), CapturesKnown(w, s), NEW e \in es,
           NEW t, NEW n, Longer(t, s, e, n), NEW v,
           \A p : CapturedOf(v.payments, p) = IF Captures(c, w, e) /\ p = e.payment
                                              THEN e.amount ELSE CapturedOf(w.payments, p)
    PROVE  CapturesKnown(v, t)
<1>1. /\ n \in Nat /\ DOMAIN s = 1 .. n /\ DOMAIN t = 1 .. (n + 1) /\ t[n + 1] = e
      /\ \A i \in 1 .. n : t[i] = s[i] /\ (Genuine(i, t) <=> Genuine(i, s))
      /\ Genuine(n + 1, t) => /\ e.signed /\ e.tenant = "t1"
                              /\ \A i \in 1 .. n : s[i].signed => s[i].id # e.id
  BY DEF Longer
<1>2. ASSUME NEW i \in 1 .. (n + 1), Genuine(i, t), t[i].type = "payment.captured"
      PROVE  CapturedOf(v.payments, t[i].payment) = t[i].amount
  <2>1. CASE i \in 1 .. n
    <3>1. /\ t[i] = s[i] /\ s[i] \in es /\ Genuine(i, s)
      BY <1>1, <1>2, <2>1
    <3>2. CapturedOf(w.payments, t[i].payment) = t[i].amount
      BY <1>1, <1>2, <2>1, <3>1 DEF CapturesKnown
    <3>3. CASE Captures(c, w, e) /\ t[i].payment = e.payment
      <4>1. t[i].amount = e.amount
        BY <1>2, <3>1, <3>3 DEF Captures, Coherent
      <4> QED  BY <3>3, <4>1
    <3> QED  BY <3>2, <3>3
  <2>2. CASE i = n + 1
    <3>1. /\ e.signed /\ e.tenant = "t1" /\ t[i] = e
          /\ \A j \in 1 .. n : s[j].signed => s[j].id # e.id
      BY <1>1, <1>2, <2>2
    <3>2. e.id \notin w.seen
      BY <1>1, <3>1, NewIsUnseen
    <3>3. Captures(c, w, e)
      BY <1>2, <3>1, <3>2 DEF Captures, Passes
    <3> QED  BY <3>1, <3>3
  <2> QED  BY <1>1, <2>1, <2>2
<1> QED  BY <1>1, <1>2 DEF CapturesKnown

LEMMA BackedStays ==
    ASSUME NEW es, NEW c, NEW w, Typed(w, es), EffectsBacked(w), NEW e \in es, NEW v, NEW cap,
           Moves(w, v, e, Does(c, w, e), cap, es)
    PROVE  EffectsBacked(v)
<1> DEFINE k == Does(c, w, e)
           n == Len(w.effects)
<1>1. k \in Kinds \cup {"none"}
  BY KindsAre
<1>2. Moves(w, v, e, k, cap, es)
  OBVIOUS
<1> HIDE DEF k
<1>3. /\ n \in Nat /\ DOMAIN w.effects = 1 .. n
      /\ k # "none" => /\ DOMAIN v.effects = 1 .. (n + 1)
                       /\ v.effects[n + 1].kind = k /\ v.effects[n + 1].order = e.order
      /\ \A i \in DOMAIN w.effects : i \in DOMAIN v.effects /\ v.effects[i] = w.effects[i]
  <2>1. Grown(w, v, e, k, n)
    BY <1>1, <1>2, EffectsGrow
  <2> QED  BY <2>1 DEF Grown
<1> HIDE DEF n
<1>4. n + 1 \in 1 .. (n + 1)
  BY <1>3
<1>5. ASSUME NEW o, CountOf(v.orders, o) > 0
      PROVE  \E i \in DOMAIN v.effects : v.effects[i].kind = "fulfilment" /\ v.effects[i].order = o
  <2>1. CASE k = "fulfilment" /\ o = e.order
    BY <1>3, <1>4, <2>1
  <2>2. CASE ~(k = "fulfilment" /\ o = e.order)
    <3>1. CountOf(w.orders, o) > 0
      BY <1>2, <1>5, <2>2 DEF Moves
    <3> QED  BY <1>3, <3>1 DEF EffectsBacked
  <2> QED  BY <2>1, <2>2
<1>6. ASSUME v.mandateUsed
      PROVE  \E i \in DOMAIN v.effects : v.effects[i].kind = "agent_purchase"
  <2>1. CASE k = "agent_purchase"
    BY <1>3, <1>4, <2>1
  <2>2. CASE k # "agent_purchase"
    <3>1. w.mandateUsed
      BY <1>2, <1>6, <2>2 DEF Moves
    <3> QED  BY <1>3, <3>1 DEF EffectsBacked
  <2> QED  BY <2>1, <2>2
<1> QED  BY <1>5, <1>6 DEF EffectsBacked

\* What is captured of a payment whose refund was delivered does not change.
LEMMA RefundsKnow ==
    ASSUME NEW es, NEW s, NEW e, NEW t, NEW n, Longer(t, s, e, n), RefundsAfter(t),
           NEW w, NEW v, CapturesKnown(w, s), CapturesKnown(v, t),
           NEW i \in 1 .. (n + 1), t[i].type = "refund.processed"
    PROVE  CapturedOf(v.payments, t[i].payment) = CapturedOf(w.payments, t[i].payment)
<1>1. /\ n \in Nat /\ DOMAIN s = 1 .. n /\ DOMAIN t = 1 .. (n + 1)
      /\ \A j \in 1 .. n : t[j] = s[j] /\ (Genuine(j, t) <=> Genuine(j, s))
  BY DEF Longer
<1>2. PICK j \in 1 .. (i-1) : /\ Genuine(j, t) /\ t[j].type = "payment.captured"
                              /\ t[j].payment = t[i].payment
  BY <1>1 DEF RefundsAfter
<1>3. j \in 1 .. n /\ j \in 1 .. (n + 1)
  BY <1>1
<1>4. CapturedOf(v.payments, t[i].payment) = t[j].amount
  BY <1>1, <1>2, <1>3 DEF CapturesKnown
<1>5. CapturedOf(w.payments, t[i].payment) = t[j].amount
  BY <1>1, <1>2, <1>3 DEF CapturesKnown
<1> QED  BY <1>4, <1>5

LEMMA NothingLeftStays ==
    ASSUME NEW es, Coherent(es), NEW c, NEW w, Typed(w, es), w.home = "t1", NEW s \in Seq(es),
           SawEvents(c, w, s), CapturesKnown(w, s), NothingLeft(c, w, s), NEW e \in es,
           NEW t, NEW n, Longer(t, s, e, n), OneEvent(t), RefundsAfter(t), t \in Seq(es),
           NEW v, NEW cap, Moves(w, v, e, Does(c, w, e), cap, es), CapturesKnown(v, t)
    PROVE  NothingLeft(c, v, t)
<1> DEFINE k == Does(c, w, e)
           Done(d) == HasEffect(v, d.id) \/ ~Would(c, v, d)
<1>1. /\ n \in Nat /\ DOMAIN s = 1 .. n /\ DOMAIN t = 1 .. (n + 1) /\ t[n + 1] = e
      /\ \A i \in 1 .. n : t[i] = s[i]
  BY DEF Longer
<1>2. k \in Kinds \cup {"none"} /\ (k # "none" <=> Passes(c, w, e) /\ Would(c, w, e))
  BY KindsAre
<1>3. Moves(w, v, e, k, cap, es)
  OBVIOUS
<1> HIDE DEF k
<1>4. /\ Len(w.effects) \in Nat
      /\ k # "none" => /\ DOMAIN v.effects = 1 .. (Len(w.effects) + 1)
                       /\ v.effects[Len(w.effects) + 1].src = e.id
      /\ \A i \in DOMAIN w.effects : i \in DOMAIN v.effects /\ v.effects[i] = w.effects[i]
  <2>1. Grown(w, v, e, k, Len(w.effects))
    BY <1>2, <1>3, EffectsGrow
  <2> QED  BY <2>1 DEF Grown
<1>5. ASSUME NEW i \in 1 .. (n + 1), ~Would(c, w, t[i]) PROVE ~Would(c, v, t[i])
  <2>1. t[i].type = "refund.processed" =>
          CapturedOf(v.payments, t[i].payment) = CapturedOf(w.payments, t[i].payment)
    BY RefundsKnow
  <2>2. t[i] \in es
    BY <1>1
  <2>3. t[i].amount \in Nat /\ e.amount \in Nat
    BY <2>2 DEF Coherent
  <2> QED  BY <1>3, <1>5, <2>1, <2>3, WouldNotStill
<1>6. ASSUME NEW i \in 1 .. n, s[i].signed, s[i].tenant = "t1" PROVE Done(s[i])
  <2>1. HasEffect(w, s[i].id) \/ ~Would(c, w, s[i])
    BY <1>1, <1>6 DEF NothingLeft
  <2>2. CASE HasEffect(w, s[i].id)
    BY <1>4, <2>2 DEF HasEffect
  <2>3. CASE ~Would(c, w, s[i])
    <3>1. i \in 1 .. (n + 1) /\ t[i] = s[i]
      BY <1>1
    <3> QED  BY <1>5, <2>3, <3>1
  <2> QED  BY <2>1, <2>2, <2>3
<1>7. ASSUME e.signed, e.tenant = "t1" PROVE Done(e)
  <2>0. n + 1 \in 1 .. (n + 1)
    BY <1>1
  <2>1. CASE k # "none"
    <3>1. Len(w.effects) + 1 \in DOMAIN v.effects /\ v.effects[Len(w.effects) + 1].src = e.id
      BY <1>4, <2>1
    <3> QED  BY <3>1 DEF HasEffect
  <2>2. CASE ~Would(c, w, e)
    BY <1>1, <1>5, <2>0, <2>2
  <2>3. CASE ~Passes(c, w, e)
    <3>1. e.id \in w.seen
      BY <1>7, <2>3 DEF Passes
    <3>2. PICK i \in 1 .. n : s[i].id = e.id
      BY <1>1, <3>1 DEF SawEvents
    <3>3. i \in 1 .. (n + 1) /\ t[i] = s[i]
      BY <1>1
    <3>4. s[i] = e
      BY <1>1, <2>0, <3>2, <3>3 DEF OneEvent
    <3> QED  BY <1>6, <1>7, <3>4
  <2> QED  BY <1>2, <2>1, <2>2, <2>3
<1>8. ASSUME NEW i \in 1 .. (n + 1), t[i].signed, t[i].tenant = "t1" PROVE Done(t[i])
  <2>1. CASE i \in 1 .. n
    BY <1>1, <1>6, <1>8, <2>1
  <2>2. CASE i = n + 1
    BY <1>1, <1>7, <1>8, <2>2
  <2> QED  BY <1>1, <2>1, <2>2
<1> QED  BY <1>1, <1>8 DEF NothingLeft

LEMMA ShopStep ==
    ASSUME NEW es, Coherent(es), NEW c, Two \subseteq c, NEW w, NEW s, NEW single,
           ShopInv(c, w, s, single, es), NEW e \in es,
           OneEvent(Append(s, e)), RefundsAfter(Append(s, e))
    PROVE  ShopInv(c, Handle(c, w, e), Append(s, e), single, es)
<1> DEFINE v == Handle(c, w, e)
           t == Append(s, e)
           n == Len(s)
<1>1. /\ s \in Seq(es) /\ Typed(w, es) /\ w.home = "t1" /\ w.singleUse = single
      /\ SawEvents(c, w, s) /\ CapturesKnown(w, s) /\ EffectsBacked(w) /\ NothingLeft(c, w, s)
  BY DEF ShopInv
<1>2. t \in Seq(es) /\ Longer(t, s, e, n)
  BY <1>1, OneEventMore
<1>3. "require_captured" \in c /\ "idempotent_refunds" \in c
      /\ e.type \in EventTypes /\ e.amount \in Nat
  BY DEF Two, Coherent
<1>4. Handled(c, w, v, e, es)
  BY <1>1, <1>3, HandleMoves
<1> HIDE DEF v
<1>5. Moves(w, v, e, Does(c, w, e), Captures(c, w, e), es) /\ v.seen = SeenAfter(c, w, e)
  BY <1>4 DEF Handled, Notes
<1>6. OneEvent(t) /\ RefundsAfter(t)
  OBVIOUS
<1> HIDE DEF t, n
<1>7. SawEvents(c, v, t)
  BY <1>1, <1>2, <1>5, SeenStays
<1>8. CapturesKnown(v, t)
  <2>1. \A p : CapturedOf(v.payments, p) = IF Captures(c, w, e) /\ p = e.payment
                                           THEN e.amount ELSE CapturedOf(w.payments, p)
    BY <1>5 DEF Moves
  <2> QED  BY <1>1, <1>2, <2>1, CapturesStay
<1>9. EffectsBacked(v)
  BY <1>1, <1>5, BackedStays
<1>10. NothingLeft(c, v, t)
  BY <1>1, <1>2, <1>5, <1>6, <1>8, NothingLeftStays
<1>11. Typed(v, es) /\ v.home = "t1" /\ v.singleUse = single
  BY <1>1, <1>5 DEF Moves
<1>12. ShopInv(c, v, t, single, es)
  BY <1>2, <1>7, <1>8, <1>9, <1>10, <1>11 DEF ShopInv
<1> QED  BY <1>12 DEF v, t

------------------------------------------------------------------------------
(* A shop that lacks controls beside the correct one.                      *)

\* Worlds that nothing the lab looks at tells apart.
View(b, w) ==
    /\ b.effects = w.effects
    /\ \A o : CountOf(b.orders, o) = CountOf(w.orders, o)
    /\ \A p : RefundedOf(b.payments, p) = RefundedOf(w.payments, p)
    /\ b.mandateUsed = w.mandateUsed

Purchase(w, i) == i \in DOMAIN w.effects /\ w.effects[i].kind = "agent_purchase"

\* The lab has found the defect, and will not lose it.
Caught(w) ==
    \/ Twice(w, DOMAIN w.effects, "src")
    \/ \E r \in w.processed : ~r.signed /\ r.accepted
    \/ TenantLeak(w)
    \/ w.singleUse /\ \E i, j : i # j /\ Purchase(w, i) /\ Purchase(w, j)
    \/ Twice(w, Fulfilments(w), "order")

LEMMA CaughtShows ==
    ASSUME NEW w, NEW es, Typed(w, es), Caught(w)
    PROVE  Evaluate(w) # {}
<1>1. CASE Twice(w, DOMAIN w.effects, "src")
  <2>1. Violates(w, "PTWIN-INV-002")
    BY <1>1 DEF Violates
  <2> QED  BY <2>1 DEF Evaluate, InvariantIds
<1>2. CASE \E r \in w.processed : ~r.signed /\ r.accepted
  <2>1. Violates(w, "PTWIN-INV-003")
    BY <1>2 DEF Violates
  <2> QED  BY <2>1 DEF Evaluate, InvariantIds
<1>3. CASE TenantLeak(w)
  <2>1. Violates(w, "PTWIN-INV-005")
    BY <1>3 DEF Violates
  <2> QED  BY <2>1 DEF Evaluate, InvariantIds
<1>4. CASE w.singleUse /\ \E i, j : i # j /\ Purchase(w, i) /\ Purchase(w, j)
  <2> DEFINE P == {i \in DOMAIN w.effects : w.effects[i].kind = "agent_purchase"}
             n == Len(w.effects)
  <2>1. PICK i, j : i # j /\ Purchase(w, i) /\ Purchase(w, j)
    BY <1>4
  <2>2. {i, j} \subseteq P
    BY <2>1 DEF Purchase
  <2>3. n \in Nat /\ DOMAIN w.effects = 1 .. n
    BY DEF Typed
  <2>4. IsFiniteSet(P)
    <3>1. IsFiniteSet(1 .. n)
      BY <2>3, FS_Interval
    <3> HIDE DEF n
    <3>2. P \subseteq 1 .. n
      BY <2>3
    <3> QED  BY <3>1, <3>2, FS_Subset
  <2> HIDE DEF P, n
  <2>5. Cardinality({i, j}) = 2
    <3>1. IsFiniteSet({i}) /\ Cardinality({i}) = 1
      BY FS_Singleton
    <3>2. Cardinality({i} \cup {j}) = 1 + 1
      BY <2>1, <3>1, FS_AddElement
    <3>3. {i, j} = {i} \cup {j}
      OBVIOUS
    <3> QED  BY <3>2, <3>3
  <2>6. Cardinality(P) > 1
    <3>1. Cardinality({i, j}) <= Cardinality(P) /\ Cardinality(P) \in Nat
      BY <2>2, <2>4, FS_Subset, FS_CardinalityType
    <3> QED  BY <2>5, <3>1
  <2>7. w.singleUse
    BY <1>4
  <2>8. MandateReplayed(w)
    BY <2>6, <2>7 DEF MandateReplayed, P
  <2>9. Violates(w, "PTWIN-INV-007")
    BY <2>8 DEF Violates
  <2> QED  BY <2>9 DEF Evaluate, InvariantIds
<1>5. CASE Twice(w, Fulfilments(w), "order")
  <2>1. Violates(w, "PTWIN-INV-008")
    BY <1>5 DEF Violates
  <2> QED  BY <2>1 DEF Evaluate, InvariantIds
<1> QED  BY <1>1, <1>2, <1>3, <1>4, <1>5 DEF Caught

LEMMA CaughtStays ==
    ASSUME NEW w, NEW v, v.home = w.home, v.singleUse = w.singleUse,
           w.processed \subseteq v.processed, Caught(w),
           \A i \in DOMAIN w.effects : i \in DOMAIN v.effects /\ v.effects[i] = w.effects[i]
    PROVE  Caught(v)
<1>1. CASE Twice(w, DOMAIN w.effects, "src")
  <2>1. Twice(v, DOMAIN v.effects, "src")
    BY <1>1 DEF Twice
  <2> QED  BY <2>1 DEF Caught
<1>2. CASE \E r \in w.processed : ~r.signed /\ r.accepted
  BY <1>2 DEF Caught
<1>3. CASE TenantLeak(w)
  <2>1. TenantLeak(v)
    BY <1>3 DEF TenantLeak
  <2> QED  BY <2>1 DEF Caught
<1>4. CASE w.singleUse /\ \E i, j : i # j /\ Purchase(w, i) /\ Purchase(w, j)
  <2>1. \A i : Purchase(w, i) => Purchase(v, i)
    BY DEF Purchase
  <2>2. v.singleUse
    BY <1>4
  <2> QED  BY <1>4, <2>1, <2>2 DEF Caught
<1>5. CASE Twice(w, Fulfilments(w), "order")
  <2>1. Twice(v, Fulfilments(v), "order")
    BY <1>5 DEF Twice, Fulfilments
  <2> QED  BY <2>1 DEF Caught
<1> QED  BY <1>1, <1>2, <1>3, <1>4, <1>5 DEF Caught

\* The controls of a shop whose defects show: it has the two that every shop needs
\* here, and the limit on mandates unless they are for one use.
Lacking(c, single) == Two \subseteq c /\ c \subseteq Controls /\ ("mandate_limits" \in c \/ single)

\* The worlds of the two shops after the events s, and the event e that is next.
Beside(c, b, w, s, single, e, es) ==
    /\ Coherent(es) /\ Lacking(c, single) /\ e \in es
    /\ ShopInv(c, b, s, single, es) /\ ShopInv(Controls, w, s, single, es)
    /\ OneEvent(Append(s, e)) /\ RefundsAfter(Append(s, e))
    /\ View(b, w)

LEMMA SeenAgree ==
    ASSUME NEW es, NEW c, NEW b, NEW w, NEW s, NEW single, NEW e,
           Beside(c, b, w, s, single, e, es), e.signed
    PROVE  e.id \in b.seen <=> e.id \in w.seen
<1>1. /\ s \in Seq(es) /\ SawEvents(c, b, s) /\ SawEvents(Controls, w, s) /\ Coherent(es) /\ e \in es
  BY DEF Beside, ShopInv
<1>2. ASSUME NEW i \in DOMAIN s, s[i].id = e.id PROVE s[i].signed
  <2>1. s[i] \in es
    BY <1>1
  <2> QED  BY <1>1, <1>2, <2>1 DEF Coherent
<1> QED  BY <1>1, <1>2 DEF SawEvents

LEMMA RefundsAgree ==
    ASSUME NEW es, NEW c, NEW b, NEW w, NEW s, NEW single, NEW e,
           Beside(c, b, w, s, single, e, es), e.type = "refund.processed"
    PROVE  CapturedOf(b.payments, e.payment) = CapturedOf(w.payments, e.payment)
<1> DEFINE t == Append(s, e)
           n == Len(s)
<1>1. /\ s \in Seq(es) /\ CapturesKnown(b, s) /\ CapturesKnown(w, s) /\ e \in es /\ RefundsAfter(t)
  BY DEF Beside, ShopInv
<1>2. Longer(t, s, e, n)
  BY <1>1, OneEventMore
<1> HIDE DEF t, n
<1>3. /\ n \in Nat /\ DOMAIN s = 1 .. n /\ DOMAIN t = 1 .. (n + 1) /\ t[n + 1] = e
      /\ \A i \in 1 .. n : t[i] = s[i] /\ (Genuine(i, t) <=> Genuine(i, s))
      /\ n + 1 \in 1 .. (n + 1) /\ 1 .. (n + 1 - 1) = 1 .. n
  BY <1>2 DEF Longer
<1>4. PICK j \in 1 .. n : Genuine(j, s) /\ s[j].type = "payment.captured" /\ s[j].payment = e.payment
  BY <1>1, <1>3 DEF RefundsAfter
<1> QED  BY <1>1, <1>3, <1>4 DEF CapturesKnown

\* What has an effect in the correct shop has it in the other.
LEMMA CorrectIsDone ==
    ASSUME NEW es, NEW c, NEW b, NEW w, NEW s, NEW single, NEW e,
           Beside(c, b, w, s, single, e, es), Does(Controls, w, e) # "none"
    PROVE  Does(c, b, e) # "none"
<1>1. Passes(Controls, w, e) /\ Would(Controls, w, e)
  BY KindsAre
<1>2. c \subseteq Controls /\ View(b, w) /\ b.home = "t1" /\ w.home = "t1"
  BY DEF Beside, Lacking, ShopInv
<1>3. e.signed /\ e.id \notin w.seen /\ e.tenant = w.home
  BY <1>1 DEF Passes, Controls
<1>4. Passes(c, b, e)
  <2>1. e.id \notin b.seen
    BY <1>3, SeenAgree
  <2> QED  BY <1>2, <1>3, <2>1 DEF Passes
<1>5. Would(c, b, e)
  <2>1. CASE e.type = "payment.captured"
    <3>1. ~("single_fulfilment" \in Controls /\ CountOf(w.orders, e.order) > 0)
      BY <1>1, <2>1 DEF Would
    <3>2. CountOf(b.orders, e.order) = CountOf(w.orders, e.order)
      BY <1>2 DEF View
    <3>3. ~("single_fulfilment" \in c /\ CountOf(b.orders, e.order) > 0)
      BY <1>2, <3>1, <3>2
    <3> QED  BY <2>1, <3>3 DEF Would
  <2>2. CASE e.type = "refund.processed"
    <3>1. RefundedOf(w.payments, e.payment) + e.amount <= CapturedOf(w.payments, e.payment)
      BY <1>1, <2>2 DEF Would
    <3>2. RefundedOf(b.payments, e.payment) = RefundedOf(w.payments, e.payment)
      BY <1>2 DEF View
    <3>3. CapturedOf(b.payments, e.payment) = CapturedOf(w.payments, e.payment)
      BY <2>2, RefundsAgree
    <3> QED  BY <2>2, <3>1, <3>2, <3>3 DEF Would
  <2>3. CASE e.type = "agent.purchase"
    <3>1. ~("mandate_limits" \in Controls /\ w.mandateUsed)
      BY <1>1, <2>3 DEF Would
    <3>2. b.mandateUsed = w.mandateUsed
      BY <1>2 DEF View
    <3>3. ~("mandate_limits" \in c /\ b.mandateUsed)
      BY <1>2, <3>1, <3>2
    <3> QED  BY <2>3, <3>3 DEF Would
  <2> QED  BY <1>1, <2>1, <2>2, <2>3 DEF Would
<1> QED  BY <1>4, <1>5, KindsAre

\* What has an effect in the other shop only is found.
LEMMA DefectIsCaught ==
    ASSUME NEW es, NEW c, NEW b, NEW w, NEW s, NEW single, NEW e,
           Beside(c, b, w, s, single, e, es),
           Does(c, b, e) # "none", Does(Controls, w, e) = "none",
           NEW v, Handled(c, b, v, e, es)
    PROVE  Caught(v)
<1> DEFINE k == Does(c, b, e)
           n == Len(b.effects)
<1>1. Passes(c, b, e) /\ Would(c, b, e) /\ k = KindOf(e) /\ k \in Kinds
  BY KindsAre
<1>2. ~(Passes(Controls, w, e) /\ Would(Controls, w, e))
  BY KindsAre
<1>3. /\ c \subseteq Controls /\ View(b, w) /\ b.home = "t1" /\ w.home = "t1" /\ Typed(b, es)
      /\ ("mandate_limits" \in c \/ single) /\ b.singleUse = single
      /\ EffectsBacked(b) /\ NothingLeft(c, b, s) /\ SawEvents(c, b, s)
      /\ s \in Seq(es) /\ e \in es /\ Coherent(es) /\ OneEvent(Append(s, e))
  BY DEF Beside, Lacking, ShopInv
<1>4. Moves(b, v, e, k, Captures(c, b, e), es)
  BY DEF Handled
<1>5. Notes(b, v, e, SeenAfter(c, b, e), TRUE)
  BY DEF Handled
<1> HIDE DEF k
<1>6. Grown(b, v, e, k, n)
  BY <1>1, <1>3, <1>4, EffectsGrow
<1> HIDE DEF n
<1>7. /\ n \in Nat /\ DOMAIN b.effects = 1 .. n /\ DOMAIN v.effects = 1 .. (n + 1)
      /\ v.effects[n + 1].kind = k /\ v.effects[n + 1].order = e.order
      /\ v.effects[n + 1].tenant = e.tenant /\ v.effects[n + 1].src = e.id
      /\ \A i \in DOMAIN b.effects : i \in DOMAIN v.effects /\ v.effects[i] = b.effects[i]
  BY <1>1, <1>6, KindsAre DEF Grown
<1>8. /\ n + 1 \in DOMAIN v.effects /\ \A i \in DOMAIN b.effects : i # n + 1
      /\ v.home = "t1" /\ v.singleUse = single
  BY <1>3, <1>4, <1>7 DEF Moves
\* the shop took an unsigned event, one of another tenant, or one for the second time
<1>9. CASE ~e.signed
  <2> DEFINE r == [id |-> e.id, signed |-> e.signed, accepted |-> TRUE]
  <2>1. r.signed = e.signed /\ r.accepted = TRUE
    OBVIOUS
  <2>2. r \in v.processed
    BY <1>5 DEF Notes
  <2> HIDE DEF r
  <2>3. ~r.signed /\ r.accepted
    BY <1>9, <2>1, Zenon
  <2> QED  BY <2>2, <2>3 DEF Caught
<1>10. CASE e.tenant # "t1"
  <2>1. TenantLeak(v)
    BY <1>7, <1>8, <1>10 DEF TenantLeak
  <2> QED  BY <2>1 DEF Caught
<1>11. CASE e.signed /\ e.tenant = "t1" /\ e.id \in w.seen
  <2>1. e.id \in b.seen
    BY <1>11, SeenAgree
  <2>2. PICK i \in DOMAIN s : s[i].id = e.id
    BY <1>3, <2>1 DEF SawEvents
  <2>3. s[i] = e
    <3> DEFINE t == Append(s, e)
               m == Len(s)
    <3>1. Longer(t, s, e, m) /\ OneEvent(t)
      BY <1>3, OneEventMore
    <3> HIDE DEF t, m
    <3>2. /\ m \in Nat /\ i \in 1 .. m /\ i \in 1 .. (m + 1) /\ m + 1 \in 1 .. (m + 1)
          /\ DOMAIN t = 1 .. (m + 1) /\ t[m + 1] = e /\ t[i] = s[i]
      BY <3>1 DEF Longer
    <3> QED  BY <2>2, <3>1, <3>2 DEF OneEvent
  <2>4. HasEffect(b, e.id)
    BY <1>1, <1>3, <1>11, <2>2, <2>3 DEF NothingLeft
  <2>5. PICK j \in DOMAIN b.effects : b.effects[j].src = e.id
    BY <2>4 DEF HasEffect
  <2>6. /\ j \in DOMAIN v.effects /\ v.effects[j].src = e.id /\ j # n + 1
    BY <1>7, <1>8, <2>5
  <2>7. Twice(v, DOMAIN v.effects, "src")
    BY <1>7, <1>8, <2>6 DEF Twice
  <2> QED  BY <2>7 DEF Caught
\* or an order was fulfilled, or the mandate used, for the second time
<1>12. CASE e.signed /\ e.tenant = "t1" /\ e.id \notin w.seen
  <2>1. Passes(Controls, w, e)
    BY <1>3, <1>12 DEF Passes
  <2>2. ~Would(Controls, w, e)
    BY <1>2, <2>1
  <2>3. CASE e.type = "payment.captured"
    <3>1. CountOf(w.orders, e.order) > 0 /\ k = "fulfilment"
      BY <1>1, <2>2, <2>3 DEF Would, KindOf
    <3>2. CountOf(b.orders, e.order) > 0
      BY <1>3, <3>1 DEF View
    <3>3. PICK j \in DOMAIN b.effects : b.effects[j].kind = "fulfilment" /\ b.effects[j].order = e.order
      BY <1>3, <3>2 DEF EffectsBacked
    <3>4. /\ j \in DOMAIN v.effects /\ v.effects[j] = b.effects[j] /\ j # n + 1
      BY <1>7, <1>8
    <3>5. j \in Fulfilments(v) /\ n + 1 \in Fulfilments(v)
      BY <1>7, <1>8, <3>1, <3>3, <3>4 DEF Fulfilments
    <3>6. Twice(v, Fulfilments(v), "order")
      BY <1>7, <3>3, <3>4, <3>5 DEF Twice
    <3> QED  BY <3>6 DEF Caught
  <2>4. CASE e.type = "refund.processed"
    <3>1. /\ RefundedOf(b.payments, e.payment) = RefundedOf(w.payments, e.payment)
          /\ CapturedOf(b.payments, e.payment) = CapturedOf(w.payments, e.payment)
      BY <1>3, <2>4, RefundsAgree DEF View
    <3>2. RefundedOf(b.payments, e.payment) + e.amount <= CapturedOf(b.payments, e.payment)
      BY <1>1, <2>4 DEF Would
    <3> QED  BY <2>2, <2>4, <3>1, <3>2 DEF Would
  <2>5. CASE e.type = "agent.purchase"
    <3>1. "mandate_limits" \in Controls /\ w.mandateUsed /\ k = "agent_purchase"
      BY <1>1, <2>2, <2>5 DEF Would, KindOf
    <3>2. b.mandateUsed
      BY <1>3, <3>1 DEF View
    <3>3. "mandate_limits" \notin c
      BY <1>1, <2>5, <3>2 DEF Would
    <3>4. PICK j \in DOMAIN b.effects : b.effects[j].kind = "agent_purchase"
      BY <1>3, <3>2 DEF EffectsBacked
    <3>5. /\ j \in DOMAIN v.effects /\ v.effects[j] = b.effects[j] /\ j # n + 1
      BY <1>7, <1>8
    <3>6. Purchase(v, j) /\ Purchase(v, n + 1)
      BY <1>7, <1>8, <3>1, <3>4, <3>5 DEF Purchase
    <3>7. v.singleUse
      BY <1>3, <1>8, <3>3
    <3> QED  BY <3>5, <3>6, <3>7 DEF Caught
  <2> QED  BY <1>1, <2>3, <2>4, <2>5 DEF Would
<1> QED  BY <1>9, <1>10, <1>11, <1>12

LEMMA ViewMoves ==
    ASSUME NEW es, NEW b, NEW w, View(b, w), NEW e, NEW k, NEW cap, NEW also, NEW v, NEW x,
           Moves(b, v, e, k, cap, es), Moves(w, x, e, k, also, es)
    PROVE  View(v, x)
BY DEF View, Moves

\* Whatever is delivered next, the shops stay alike or the defect is found for good.
LEMMA DefectStep ==
    ASSUME NEW es, Coherent(es), NEW c, NEW single, Lacking(c, single), NEW b, NEW w, NEW s,
           ShopInv(c, b, s, single, es), ShopInv(Controls, w, s, single, es), NEW e \in es,
           OneEvent(Append(s, e)), RefundsAfter(Append(s, e)), Caught(b) \/ View(b, w)
    PROVE  Caught(Handle(c, b, e)) \/ View(Handle(c, b, e), Handle(Controls, w, e))
<1> DEFINE v == Handle(c, b, e)
           x == Handle(Controls, w, e)
<1>1. /\ "require_captured" \in c /\ "idempotent_refunds" \in c
      /\ e.type \in EventTypes /\ e.amount \in Nat
  BY DEF Lacking, Two, Coherent
<1>2. Typed(b, es) /\ Typed(w, es)
  BY DEF ShopInv
<1>3. Handled(c, b, v, e, es)
  BY <1>1, <1>2, HandleMoves
<1>4. Handled(Controls, w, x, e, es)
  BY <1>1, <1>2, ControlsHave, HandleMoves
<1> HIDE DEF v, x
<1>5. /\ Moves(b, v, e, Does(c, b, e), Captures(c, b, e), es)
      /\ Moves(w, x, e, Does(Controls, w, e), Captures(Controls, w, e), es)
  BY <1>3, <1>4 DEF Handled
<1>6. CASE Caught(b)
  <2>1. v.home = b.home /\ v.singleUse = b.singleUse
    BY <1>5 DEF Moves
  <2>2. b.processed \subseteq v.processed
    BY <1>3 DEF Handled, Notes
  <2>3. Does(c, b, e) \in Kinds \cup {"none"}
    BY KindsAre
  <2>4. Grown(b, v, e, Does(c, b, e), Len(b.effects))
    BY <1>2, <1>5, <2>3, EffectsGrow
  <2>5. \A i \in DOMAIN b.effects : i \in DOMAIN v.effects /\ v.effects[i] = b.effects[i]
    BY <2>4 DEF Grown
  <2>6. Caught(v)
    BY <1>6, <2>1, <2>2, <2>5, CaughtStays
  <2> QED  BY <2>6 DEF v
<1>7. CASE View(b, w)
  <2>1. Beside(c, b, w, s, single, e, es)
    BY <1>7 DEF Beside
  <2>2. CASE Does(c, b, e) = Does(Controls, w, e)
    <3>1. View(v, x)
      BY <1>5, <1>7, <2>2, ViewMoves
    <3> QED  BY <3>1 DEF v, x
  <2>3. CASE Does(c, b, e) # Does(Controls, w, e)
    <3>1. Does(Controls, w, e) = "none"
      <4> SUFFICES ASSUME Does(Controls, w, e) # "none" PROVE FALSE
        OBVIOUS
      <4>1. Does(c, b, e) # "none"
        BY <2>1, CorrectIsDone
      <4>2. Does(c, b, e) = KindOf(e) /\ Does(Controls, w, e) = KindOf(e)
        BY <4>1, KindsAre
      <4> QED  BY <2>3, <4>2
    <3>2. Caught(v)
      BY <1>3, <2>1, <2>3, <3>1, DefectIsCaught
    <3> QED  BY <3>2 DEF v
  <2> QED  BY <2>2, <2>3
<1> QED  BY <1>6, <1>7

(***************************************************************************)
(* The shops of the lab.                                                   *)
(***************************************************************************)
DefectsInv ==
    OneEvent(delivered) /\ RefundsAfter(delivered) =>
        /\ ShopInv(Controls, shop["correct"], delivered, SingleUse(scenario), Playable)
        /\ \A p \in Revealing :
            /\ ShopInv(Preset(p), shop[p], delivered, SingleUse(scenario), Playable)
            /\ Caught(shop[p]) \/ View(shop[p], shop["correct"])

LEMMA RevealingLack ==
    ASSUME NEW p \in Revealing
    PROVE  p \in Presets /\ Lacking(Preset(p), SingleUse(scenario))
<1>1. CASE p \in {"no_verify", "no_dedupe", "cross_tenant_blind", "duplicate_fulfilment"}
  <2>1. p \in Presets
    BY <1>1 DEF Presets, Lacks
  <2>2. Two \subseteq Preset(p) /\ Preset(p) \subseteq Controls /\ "mandate_limits" \in Preset(p)
    BY <1>1 DEF Preset, Lacks, Controls, Two
  <2> QED  BY <2>1, <2>2 DEF Lacking
<1>2. CASE p = "mandate_limits_off" /\ SingleUse(scenario)
  <2>1. p \in Presets
    BY <1>2 DEF Presets, Lacks
  <2>2. Two \subseteq Preset(p) /\ Preset(p) \subseteq Controls
    BY <1>2 DEF Preset, Lacks, Controls, Two
  <2> QED  BY <1>2, <2>1, <2>2 DEF Lacking
<1> QED  BY <1>1, <1>2 DEF Revealing

LEMMA ShopStarts ==
    ASSUME NEW c, NEW single, NEW es
    PROVE  ShopInv(c, NewWorld(single), <<>>, single, es)
<1> DEFINE w == NewWorld(single)
<1>1. /\ DOMAIN w = WorldFields /\ w.home = "t1" /\ w.processed = {} /\ w.seen = {}
      /\ w.payments = <<>> /\ w.orders = <<>> /\ w.effects = <<>>
      /\ w.singleUse = single /\ w.mandateUsed = FALSE
  BY DEF NewWorld, WorldFields
<1> HIDE DEF w
<1>2. <<>> \in Seq(es) /\ DOMAIN <<>> = {} /\ <<>> \in Seq(Effects(es))
  OBVIOUS
<1>3. Typed(w, es)
  BY <1>1, <1>2 DEF Typed, PaymentsTyped, OrdersTyped
<1>4. SawEvents(c, w, <<>>) /\ CapturesKnown(w, <<>>) /\ NothingLeft(c, w, <<>>)
  BY <1>1, <1>2 DEF SawEvents, CapturesKnown, NothingLeft
<1>5. EffectsBacked(w)
  BY <1>1, <1>2 DEF EffectsBacked, CountOf
<1> QED  BY <1>1, <1>2, <1>3, <1>4, <1>5 DEF ShopInv, w

LEMMA DefectsStart == ShopsInit => DefectsInv
<1> SUFFICES ASSUME ShopsInit PROVE DefectsInv
  OBVIOUS
<1>1. /\ delivered = <<>>
      /\ \A p \in Presets : shop[p] = NewWorld(SingleUse(scenario))
  BY DEF ShopsInit
<1>2. \A c : ShopInv(c, NewWorld(SingleUse(scenario)), delivered, SingleUse(scenario), Playable)
  BY <1>1, ShopStarts
<1>3. shop["correct"] = NewWorld(SingleUse(scenario))
  BY <1>1, CorrectPreset
<1>4. ASSUME NEW p \in Revealing PROVE shop[p] = shop["correct"]
  BY <1>1, <1>3, RevealingLack
<1> QED  BY <1>2, <1>3, <1>4 DEF DefectsInv, View

LEMMA DefectsMove ==
    ASSUME ShopsInv, DefectsInv, NEW e \in Playable, Deliver(e)
    PROVE  DefectsInv'
<1> DEFINE single == SingleUse(scenario)
           es == Playable
           w == shop["correct"]
<1>1. Coherent(es) /\ delivered \in Seq(es)
  BY PlayableIs DEF ShopsInv, CorrectInv
<1>2. /\ delivered' = Append(delivered, e) /\ es' = es /\ single' = single
      /\ Revealing' = Revealing
      /\ \A p \in Presets : shop'[p] = Handle(Preset(p), shop[p], e)
  BY DEF Deliver, Playable, SingleUse, Revealing
<1>3. shop'["correct"] = Handle(Controls, w, e)
  BY <1>2, CorrectPreset
<1> SUFFICES ASSUME OneEvent(delivered'), RefundsAfter(delivered')
             PROVE  /\ ShopInv(Controls, shop'["correct"], delivered', single, es)
                    /\ \A p \in Revealing :
                        /\ ShopInv(Preset(p), shop'[p], delivered', single, es)
                        /\ Caught(shop'[p]) \/ View(shop'[p], shop'["correct"])
  BY <1>2 DEF DefectsInv
<1> HIDE DEF single, es, w
<1>4. OneEvent(Append(delivered, e)) /\ RefundsAfter(Append(delivered, e)) /\ e \in es
  BY <1>2 DEF es
<1>5. OneEvent(delivered) /\ RefundsAfter(delivered)
  BY <1>1, <1>4, PremisesBefore
<1>6. /\ ShopInv(Controls, w, delivered, single, es)
      /\ \A p \in Revealing : /\ ShopInv(Preset(p), shop[p], delivered, single, es)
                              /\ Caught(shop[p]) \/ View(shop[p], w)
  BY <1>5 DEF DefectsInv, single, es, w
<1>7. ShopInv(Controls, Handle(Controls, w, e), Append(delivered, e), single, es)
  <2>1. Two \subseteq Controls
    BY ControlsHave DEF Two
  <2> QED  BY <1>1, <1>4, <1>6, <2>1, ShopStep
<1>8. ASSUME NEW p \in Revealing
      PROVE  /\ ShopInv(Preset(p), shop'[p], delivered', single, es)
             /\ Caught(shop'[p]) \/ View(shop'[p], shop'["correct"])
  <2> DEFINE c == Preset(p)
             b == shop[p]
  <2>1. p \in Presets /\ Lacking(c, single)
    BY RevealingLack DEF single
  <2>2. Two \subseteq c
    BY <2>1 DEF Lacking
  <2>3. shop'[p] = Handle(c, b, e)
    BY <1>2, <2>1
  <2>4. ShopInv(c, b, delivered, single, es) /\ (Caught(b) \/ View(b, w))
    BY <1>6
  <2> HIDE DEF c, b
  <2>5. ShopInv(c, Handle(c, b, e), Append(delivered, e), single, es)
    BY <1>1, <1>4, <2>2, <2>4, ShopStep
  <2>6. Caught(Handle(c, b, e)) \/ View(Handle(c, b, e), Handle(Controls, w, e))
    BY <1>1, <1>4, <1>6, <2>1, <2>4, DefectStep
  <2> QED  BY <1>2, <1>3, <2>3, <2>5, <2>6 DEF c
<1> QED  BY <1>2, <1>3, <1>7, <1>8

LEMMA DefectsKeep == ShopsInv /\ DefectsInv /\ [ShopsNext]_shopsVars => DefectsInv'
<1> SUFFICES ASSUME ShopsInv, DefectsInv, [ShopsNext]_shopsVars PROVE DefectsInv'
  OBVIOUS
<1>1. CASE UNCHANGED shopsVars
  BY <1>1 DEF shopsVars, DefectsInv, Playable, SingleUse, Revealing
<1>2. CASE /\ scenario # "any" /\ ~Finished
           /\ Deliver(Scenarios[scenario].events[Len(delivered) + 1])
  <2>1. Scenarios[scenario].events[Len(delivered) + 1] \in Playable
    BY <1>2, NextIsPlayable
  <2> QED  BY <1>2, <2>1, DefectsMove
<1>3. CASE scenario = "any" /\ \E e \in Possible : Deliver(e)
  <2>1. PICK e \in Possible : Deliver(e)
    BY <1>3
  <2>2. e \in Playable
    BY <1>3 DEF Playable
  <2> QED  BY <2>1, <2>2, DefectsMove
<1> QED  BY <1>1, <1>2, <1>3 DEF ShopsNext

\* After every sequence of coherent events in which an id is of one event and a
\* refund follows the capture of its payment: if a shop that lacks one of these
\* controls has other effects than the correct one, some invariant says so.  The
\* lab misses none of these defects (fixtures.py, engine.py and invariants.py).
THEOREM NoDefectMissed == ShopsSpec => []DefectsAreSeen
<1>1. ShopsInv /\ DefectsInv => DefectsAreSeen
  <2> SUFFICES ASSUME ShopsInv, DefectsInv, OneEventPerId, RefundsFollow, NEW p \in Revealing,
                      shop[p].effects # shop["correct"].effects
               PROVE  Evaluate(shop[p]) # {}
    BY DEF DefectsAreSeen
  <2>1. OneEvent(delivered) /\ RefundsAfter(delivered)
    BY DEF OneEventPerId, RefundsFollow, OneEvent, RefundsAfter
  <2>2. /\ ShopInv(Preset(p), shop[p], delivered, SingleUse(scenario), Playable)
        /\ Caught(shop[p]) \/ View(shop[p], shop["correct"])
    BY <2>1 DEF DefectsInv
  <2>3. Caught(shop[p]) /\ Typed(shop[p], Playable)
    BY <2>2 DEF View, ShopInv
  <2> QED  BY <2>3, CaughtShows
<1> QED  BY <1>1, ShopsStarts, ShopsStep, DefectsStart, DefectsKeep, PTL DEF ShopsSpec

==============================================================================
