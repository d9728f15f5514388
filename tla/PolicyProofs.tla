----------------------------- MODULE PolicyProofs -----------------------------
(***************************************************************************)
(* Theorems about the policies: about those who write them (AdminState)    *)
(* and about those who act under them (Incident).                          *)
(*                                                                         *)
(* AdminState: only the newest version of a policy speaks, the model       *)
(* promoted last serves when nothing raced, and the secrets of deliveries  *)
(* that are still retried stay valid.  The three parts share nothing but   *)
(* the sessions, so each has an inductive invariant of its own.  Each says *)
(* what a request that waits to be committed may rely on: little, since    *)
(* what it has read may be stale.                                          *)
(*                                                                         *)
(* Incident: the ids of an organization's incidents have no gap, the       *)
(* autopilot keeps the rules in force, a halt leaves nothing active but    *)
(* what was approved, and nobody promises more than the policy allows.     *)
(*   The verdict: RulesInForce shows that what is merged from the live     *)
(* policies of a merchant is a complete set of rules.  The verdict on an   *)
(* action then depends on little of what is said of it (Alike), and grows  *)
(* stricter with the amount (LessIsAllowed) and with fewer minutes since   *)
(* the last action (LongAgoKeeps).                                         *)
(*   The sweeps: they overlap and each numbers its incidents by a count.   *)
(* SweepInv says why the committed numbers are right all the same: a sweep *)
(* that has inserted something holds the next numbers of its organization, *)
(* no other sweep of the organization can insert beside it (OneOpens), and *)
(* a number that was counted too early is at most the next one, which the  *)
(* unique constraint refuses once it is taken.                             *)
(***************************************************************************)
EXTENDS AdminState, Incident, NatFacts

------------------------------------------------------------------------------
(* The policies.                                                           *)

PolicyRow == [merchant : Merchants, human : 7 .. 6 + Wrap, version : Nat \ {0},
              status : {"live", "draft", "archived"}, rules : Rules]

\* Two rows that the unique constraint takes for one.
SameKey(p, q) == p.merchant = q.merchant /\ p.human = q.human /\ p.version = q.version

\* A request to write a policy: a new policy starts with version 1, and an edit
\* writes the version after one that was there and still is.
GoodPolicyRequest(r) ==
    /\ r.op = "create" => r.row \in PolicyRow /\ r.row.version = 1
    /\ r.op = "patch" =>
          /\ r.row \in PolicyRow /\ r.latest \in PolicyRow
          /\ r.row.merchant = r.latest.merchant /\ r.row.human = r.latest.human
          /\ r.row.version = r.latest.version + 1
          /\ \E p \in policies : SameKey(p, r.latest)

\* The versions of a policy are numbered without a gap, and all but the newest
\* are archived.
PolicyInv ==
    /\ policies \subseteq PolicyRow /\ IsFiniteSet(policies)
    /\ \A p, q \in policies : SameKey(p, q) => p = q
    /\ \A p \in policies : \A k \in 1 .. p.version :
          \E q \in policies : q.merchant = p.merchant /\ q.human = p.human /\ q.version = k
    /\ \A p, q \in policies :
          p.merchant = q.merchant /\ p.human = q.human /\ p.version < q.version
             => p.status = "archived"
    /\ session = [a \in Admins |-> session[a]]
    /\ \A a \in Admins : GoodPolicyRequest(session[a])

\* Reading a good request leaves the requests good.
LEMMA PolicyReads ==
    ASSUME NEW a \in Admins, NEW r, Reads(a, r), PolicyInv, GoodPolicyRequest(r)
    PROVE  PolicyInv'
<1>1. policies' = policies /\ session' = [session EXCEPT ![a] = r]
  BY DEF Reads
<1>2. ASSUME NEW b \in Admins PROVE GoodPolicyRequest(session[b])'
  <2>1. session'[b] = IF b = a THEN r ELSE session[b]
    BY <1>1 DEF PolicyInv
  <2> QED  BY <1>1, <2>1 DEF PolicyInv, GoodPolicyRequest
<1>3. session' = [b \in Admins |-> session'[b]]
  BY <1>1 DEF PolicyInv
<1> QED  BY <1>1, <1>2, <1>3 DEF PolicyInv

\* So does the end of a request that has left the policies alone.
LEMMA PolicyEnds ==
    ASSUME NEW a \in Admins, Ends(a), UNCHANGED policies, PolicyInv
    PROVE  PolicyInv'
<1>1. session' = [session EXCEPT ![a] = AdminIdle]
  BY DEF Ends
<1>2. ASSUME NEW b \in Admins PROVE GoodPolicyRequest(session[b])'
  <2>1. session'[b] = IF b = a THEN AdminIdle ELSE session[b]
    BY <1>1 DEF PolicyInv
  <2> QED  BY <2>1 DEF PolicyInv, GoodPolicyRequest, AdminIdle
<1>3. session' = [b \in Admins |-> session'[b]]
  BY <1>1 DEF PolicyInv
<1> QED  BY <1>2, <1>3 DEF PolicyInv

LEMMA PolicyCreates ==
    ASSUME NEW a \in Admins, NEW m \in Merchants, NEW rules \in Rules, NEW status \in Statuses,
           CreatePolicy(a, m, rules, status), PolicyInv
    PROVE  PolicyInv'
<1> DEFINE row == [merchant |-> m, human |-> NextPolicyId(policies), version |-> 1,
                   status |-> status, rules |-> rules]
           r == [op |-> "create", row |-> row]
<1>1. row \in PolicyRow
  <2>1. Cardinality(policies) \in Nat
    BY FS_CardinalityType DEF PolicyInv
  <2>2. NextPolicyId(policies) \in 7 .. 6 + Wrap
    BY <2>1, AdminAssumption DEF NextPolicyId
  <2> QED  BY <2>2, AdminAssumption DEF PolicyRow
<1>2. GoodPolicyRequest(r)
  BY <1>1 DEF GoodPolicyRequest
<1>3. Reads(a, r)
  BY DEF CreatePolicy
<1> HIDE DEF r
<1> QED  BY <1>2, <1>3, PolicyReads

LEMMA PolicyPatches ==
    ASSUME NEW a \in Admins, NEW human, NEW given \in {{}} \cup {{r} : r \in Rules},
           NEW status \in Statuses \cup {None},
           PatchPolicy(a, human, given, status), PolicyInv
    PROVE  PolicyInv'
<1>1. PICK latest \in Latest(human) :
         Reads(a, [op |-> "patch", latest |-> latest,
                   row |-> [latest EXCEPT !.version = @ + 1,
                                          !.status = IF status = None THEN @ ELSE status,
                                          !.rules = IF given = {} THEN @
                                                    ELSE CHOOSE rules \in given : TRUE]])
  BY DEF PatchPolicy
<1> DEFINE row == [latest EXCEPT !.version = @ + 1,
                                 !.status = IF status = None THEN @ ELSE status,
                                 !.rules = IF given = {} THEN @
                                           ELSE CHOOSE rules \in given : TRUE]
           r   == [op |-> "patch", latest |-> latest, row |-> row]
<1>2. latest \in policies /\ latest \in PolicyRow
  BY DEF Latest, PolicyInv
<1>3. row \in PolicyRow /\ row.merchant = latest.merchant /\ row.human = latest.human
      /\ row.version = latest.version + 1
  <2>1. (IF given = {} THEN latest.rules ELSE CHOOSE rules \in given : TRUE) \in Rules
    BY <1>2 DEF PolicyRow
  <2>2. (IF status = None THEN latest.status ELSE status) \in {"live", "draft", "archived"}
    BY <1>2, AdminAssumption DEF PolicyRow
  <2> DEFINE rules1  == IF given = {} THEN latest.rules ELSE CHOOSE rules \in given : TRUE
             status1 == IF status = None THEN latest.status ELSE status
  <2>3. row = [latest EXCEPT !.version = @ + 1, !.status = status1, !.rules = rules1]
    OBVIOUS
  <2>4. rules1 \in Rules /\ status1 \in {"live", "draft", "archived"}
    BY <2>1, <2>2
  <2> HIDE DEF row, rules1, status1
  <2>5. latest = [merchant |-> latest.merchant, human |-> latest.human, version |-> latest.version,
                  status |-> latest.status, rules |-> latest.rules]
    BY <1>2 DEF PolicyRow
  <2>6. row = [merchant |-> latest.merchant, human |-> latest.human, version |-> latest.version + 1,
               status |-> status1, rules |-> rules1]
    BY <2>3, <2>5
  <2>7. latest.merchant \in Merchants /\ latest.human \in 7 .. 6 + Wrap
        /\ latest.version + 1 \in Nat \ {0}
    BY <1>2 DEF PolicyRow
  <2> QED  BY <2>4, <2>6, <2>7 DEF PolicyRow
<1>4. GoodPolicyRequest(r)
  <2> HIDE DEF row
  <2>1. SameKey(latest, latest)
    BY DEF SameKey
  <2> QED  BY <1>2, <1>3, <2>1 DEF GoodPolicyRequest
<1>5. Reads(a, r)
  BY <1>1
<1> HIDE DEF r
<1> QED  BY <1>4, <1>5, PolicyReads

\* A row whose key is free may be added when it is the first version, or the one
\* after a row that is there, which then is the newest.
LEMMA NewestIsLatest ==
    ASSUME PolicyInv, NEW row \in PolicyRow, ~Taken(row),
           NEW p \in policies, p.merchant = row.merchant, p.human = row.human
    PROVE  p.version < row.version
<1>1. p \in PolicyRow
  BY DEF PolicyInv
<1>2. ASSUME row.version <= p.version PROVE FALSE
  <2>1. row.version \in 1 .. p.version
    BY <1>1, <1>2 DEF PolicyRow
  <2> QED  BY <2>1 DEF PolicyInv, Taken
<1> QED  BY <1>1, <1>2 DEF PolicyRow

LEMMA PolicyCommits ==
    ASSUME NEW a \in Admins, CommitPolicy(a), PolicyInv
    PROVE  PolicyInv'
<1> DEFINE r   == session[a]
           row == session[a].row
<1>1. r.op \in {"create", "patch"} /\ ~Taken(row) /\ GoodPolicyRequest(r) /\ row \in PolicyRow
  BY DEF CommitPolicy, PolicyInv, GoodPolicyRequest
<1>2. session' = [b \in Admins |-> IF b = a THEN AdminIdle ELSE session[b]]
  BY DEF CommitPolicy, Ends, PolicyInv
<1>3. CASE r.op = "create"
  <2>1. policies' = policies \cup {row} /\ row.version = 1
    BY <1>1, <1>3 DEF CommitPolicy, GoodPolicyRequest
  <2>2. ASSUME NEW p \in policies, p.merchant = row.merchant, p.human = row.human
        PROVE  FALSE
    <3>1. p.version < 1 /\ p \in PolicyRow
      BY <2>1, <2>2, <1>1, NewestIsLatest DEF PolicyInv
    <3> QED  BY <3>1 DEF PolicyRow
  <2>3. policies' \subseteq PolicyRow /\ IsFiniteSet(policies')
    BY <1>1, <2>1, FS_AddElement DEF PolicyInv
  <2>4. \A p, q \in policies' : SameKey(p, q) => p = q
    BY <2>1, <2>2 DEF PolicyInv, SameKey
  <2>5. ASSUME NEW p \in policies', NEW k \in 1 .. p.version
        PROVE  \E q \in policies' : q.merchant = p.merchant /\ q.human = p.human /\ q.version = k
    BY <2>1 DEF PolicyInv
  <2>6. ASSUME NEW p \in policies', NEW q \in policies',
               p.merchant = q.merchant, p.human = q.human, p.version < q.version
        PROVE  p.status = "archived"
    <3>1. ~ (row.version < row.version)
      BY <2>1
    <3> QED  BY <2>1, <2>2, <2>6, <3>1 DEF PolicyInv
  <2>7. ASSUME NEW b \in Admins PROVE GoodPolicyRequest(session[b])'
    BY <1>2, <2>1 DEF PolicyInv, GoodPolicyRequest, AdminIdle
  <2> QED  BY <1>2, <2>3, <2>4, <2>5, <2>6, <2>7 DEF PolicyInv
<1>4. CASE r.op = "patch"
  <2> DEFINE old == r.latest
             now == CHOOSE p \in policies : \A key \in {"merchant", "human", "version"} : p[key] = old[key]
             arc == [now EXCEPT !.status = "archived"]
  <2>1. policies' = (policies \ {now}) \cup {arc, row}
    BY <1>1, <1>4 DEF CommitPolicy, Archived
  <2>2. /\ old \in PolicyRow /\ row.merchant = old.merchant /\ row.human = old.human
        /\ row.version = old.version + 1
        /\ \E p \in policies : SameKey(p, old)
    BY <1>1, <1>4 DEF GoodPolicyRequest
  <2>3. now \in policies /\ SameKey(now, old)
    <3>1. \E p \in policies : \A key \in {"merchant", "human", "version"} : p[key] = old[key]
      BY <2>2 DEF SameKey
    <3>2. now \in policies /\ \A key \in {"merchant", "human", "version"} : now[key] = old[key]
      BY <3>1
    <3> QED  BY <3>2 DEF SameKey
  <2> HIDE DEF now
  <2>4. now \in PolicyRow /\ arc \in PolicyRow /\ SameKey(arc, old) /\ arc.status = "archived"
    BY <2>3 DEF PolicyInv, PolicyRow, SameKey
  <2> HIDE DEF arc, old
  <2>5. ASSUME NEW p \in policies', p # row PROVE \E q \in policies : SameKey(p, q)
    BY <2>1, <2>3, <2>4, <2>5 DEF SameKey
  <2>6. ASSUME NEW q \in policies PROVE \E p \in policies' : SameKey(p, q)
    BY <2>1, <2>3, <2>4 DEF SameKey
  <2>7. ASSUME NEW p \in policies', p # row, p.merchant = row.merchant, p.human = row.human
        PROVE  p.version <= old.version
    <3>1. PICK q \in policies : SameKey(p, q)
      BY <2>5, <2>7
    <3>2. q.version < row.version
      BY <3>1, <2>7, <1>1, NewestIsLatest DEF SameKey
    <3> QED  BY <3>1, <3>2, <2>2 DEF SameKey, PolicyInv, PolicyRow
  <2>8. policies' \subseteq PolicyRow /\ IsFiniteSet(policies')
    <3>1. IsFiniteSet(policies \ {now})
      BY FS_RemoveElement DEF PolicyInv
    <3>2. IsFiniteSet((policies \ {now}) \cup {arc})
      BY <3>1, FS_AddElement
    <3>3. IsFiniteSet(((policies \ {now}) \cup {arc}) \cup {row})
      BY <3>2, FS_AddElement
    <3>4. policies' = ((policies \ {now}) \cup {arc}) \cup {row}
      BY <2>1
    <3> QED  BY <3>3, <3>4, <2>1, <2>4, <1>1 DEF PolicyInv
  <2>9. \A p, q \in policies' : SameKey(p, q) => p = q
    BY <2>1, <2>2, <2>3, <2>4, <2>7 DEF PolicyInv, PolicyRow, SameKey
  <2>10. ASSUME NEW p \in policies', NEW k \in 1 .. p.version
         PROVE  \E q \in policies' : q.merchant = p.merchant /\ q.human = p.human /\ q.version = k
    <3>1. CASE p # row
      <4>1. PICK q \in policies : SameKey(p, q)
        BY <2>5, <3>1
      <4>2. PICK u \in policies : u.merchant = p.merchant /\ u.human = p.human /\ u.version = k
        BY <4>1 DEF PolicyInv, SameKey
      <4> QED  BY <4>2, <2>6 DEF SameKey
    <3>2. CASE p = row /\ k = row.version
      BY <3>2
    <3>3. CASE p = row /\ k # row.version
      <4>1. k \in 1 .. now.version
        BY <3>3, <2>2, <2>3, <2>4 DEF SameKey, PolicyRow
      <4>2. PICK u \in policies : u.merchant = now.merchant /\ u.human = now.human /\ u.version = k
        BY <4>1, <2>3 DEF PolicyInv
      <4> QED  BY <4>2, <3>3, <2>2, <2>3, <2>6 DEF SameKey
    <3> QED  BY <3>1, <3>2, <3>3
  <2>11. ASSUME NEW p \in policies', NEW q \in policies',
                p.merchant = q.merchant, p.human = q.human, p.version < q.version
         PROVE  p.status = "archived"
    <3>1. CASE p = row
      <4>1. q # row
        BY <3>1, <2>11, <1>1 DEF PolicyRow
      <4>2. q.version <= old.version
        BY <3>1, <4>1, <2>7, <2>11
      <4> QED  BY <3>1, <4>2, <2>2, <2>8, <2>11 DEF PolicyRow
    <3>2. CASE p = arc
      BY <3>2, <2>4
    <3>3. CASE p \in policies \ {now} /\ p # row
      <4>1. CASE q = row
        <5>1. p.version <= old.version
          BY <3>3, <4>1, <2>7, <2>11
        <5>2. p.version # now.version
          BY <3>3, <4>1, <2>2, <2>3, <2>11 DEF PolicyInv, SameKey
        <5>3. p.version < now.version
          BY <5>1, <5>2, <2>3, <2>4, <2>8 DEF SameKey, PolicyRow
        <5> QED  BY <3>3, <4>1, <5>3, <2>2, <2>3, <2>11 DEF PolicyInv, SameKey
      <4>2. CASE q # row
        <5>1. PICK u \in policies : SameKey(q, u)
          BY <4>2, <2>5
        <5> QED  BY <5>1, <3>3, <2>11 DEF PolicyInv, SameKey
      <4> QED  BY <4>1, <4>2
    <3> QED  BY <3>1, <3>2, <3>3, <2>1
  <2>12. ASSUME NEW b \in Admins PROVE GoodPolicyRequest(session[b])'
    <3>1. CASE b = a
      BY <3>1, <1>2 DEF GoodPolicyRequest, AdminIdle
    <3>2. CASE b # a
      <4>1. session'[b] = session[b] /\ GoodPolicyRequest(session[b])
        BY <3>2, <1>2 DEF PolicyInv
      <4> QED  BY <4>1, <2>6 DEF GoodPolicyRequest, SameKey
    <3> QED  BY <3>1, <3>2
  <2> QED  BY <1>2, <2>8, <2>9, <2>10, <2>11, <2>12 DEF PolicyInv
<1> QED  BY <1>1, <1>3, <1>4

\* A request of another kind that is read.
LEMMA PolicyReadsOther ==
    ASSUME NEW a \in Admins, NEW r, Reads(a, r), r.op \notin {"create", "patch"}, PolicyInv
    PROVE  PolicyInv'
<1>1. GoodPolicyRequest(r)
  BY DEF GoodPolicyRequest
<1> QED  BY <1>1, PolicyReads

LEMMA PolicyInit == AdminInit => PolicyInv
<1> SUFFICES ASSUME AdminInit PROVE PolicyInv
  OBVIOUS
<1>1. policies = {} /\ session = [a \in Admins |-> AdminIdle] /\ IsFiniteSet({})
  BY FS_EmptySet DEF AdminInit
<1> QED  BY <1>1 DEF PolicyInv, GoodPolicyRequest, AdminIdle

LEMMA PolicyStep == PolicyInv /\ [AdminNext]_adminVars => PolicyInv'
<1> SUFFICES ASSUME PolicyInv, [AdminNext]_adminVars PROVE PolicyInv'
  OBVIOUS
<1>1. ASSUME NEW a \in Admins, NEW m \in Merchants, NEW rules \in Rules, NEW status \in Statuses,
             CreatePolicy(a, m, rules, status)
      PROVE  PolicyInv'
  BY <1>1, PolicyCreates
<1>2. ASSUME NEW a \in Admins, NEW human, NEW given \in {{}} \cup {{r} : r \in Rules},
             NEW status \in Statuses \cup {None}, PatchPolicy(a, human, given, status)
      PROVE  PolicyInv'
  BY <1>2, PolicyPatches
<1>3. ASSUME NEW a \in Admins, CommitPolicy(a) PROVE PolicyInv'
  BY <1>3, PolicyCommits
<1>4. ASSUME NEW a \in Admins, PolicyFails(a) \/ CommitRegistration(a) \/ CommitPromotion(a)
                               \/ CommitIntegration(a)
      PROVE  PolicyInv'
  <2>1. Ends(a) /\ UNCHANGED policies
    BY <1>4 DEF PolicyFails, CommitRegistration, CommitPromotion, CommitIntegration
  <2> QED  BY <2>1, PolicyEnds
<1>5. ASSUME NEW a \in Admins, NEW v \in Models, NEW stage, Register(a, v, stage) PROVE PolicyInv'
  BY <1>5, PolicyReadsOther DEF Register
<1>6. ASSUME NEW a \in Admins, NEW v \in Models, NEW stage, Promote(a, v, stage) PROVE PolicyInv'
  BY <1>6, PolicyReadsOther DEF Promote
<1>7. ASSUME NEW a \in Admins, NEW ref, Connect(a, ref) PROVE PolicyInv'
  BY <1>7, PolicyReadsOther DEF Connect
<1>8. ASSUME NEW a \in Admins, NEW ref, Rotate(a, ref) PROVE PolicyInv'
  BY <1>8, PolicyReadsOther DEF Rotate
<1>9. CASE SweepReads \/ SweepCommits \/ Tick \/ UNCHANGED adminVars
  <2>1. UNCHANGED <<policies, session>>
    BY <1>9 DEF SweepReads, SweepCommits, Tick, adminVars
  <2> QED  BY <2>1 DEF PolicyInv, GoodPolicyRequest
<1> QED  BY <1>1, <1>2, <1>3, <1>4, <1>5, <1>6, <1>7, <1>8, <1>9 DEF AdminNext

\* An edit of a policy archives the version it has read and fails on the unique
\* constraint when there is a newer one (patch_policy): whatever overlaps, only
\* the newest version of a policy ever speaks for its merchant.
THEOREM NewestPolicySpeaks == AdminSpec => []OnlyNewestSpeaks
<1>1. PolicyInv => OnlyNewestSpeaks
  <2> SUFFICES ASSUME PolicyInv, NEW m \in Merchants, NEW said \in ActiveLabel(RowsOf(m)),
                      NEW p \in RowsOf(m), p.human = said[1]
               PROVE  p.version <= said[2]
    BY DEF OnlyNewestSpeaks
  <2>1. PICK r \in LiveRows(RowsOf(m)) : said = <<r.human, r.version>>
    BY DEF ActiveLabel
  <2>2. r \in RowsOf(m) /\ r.status = "live"
    BY DEF LiveRows
  <2>3. r \in PolicyRow /\ p \in PolicyRow /\ r.merchant = p.merchant
    BY <2>2 DEF RowsOf, PolicyInv
  <2>4. ~ (r.version < p.version)
    BY <2>1, <2>2, <2>3 DEF RowsOf, PolicyInv
  <2> QED  BY <2>1, <2>3, <2>4 DEF PolicyRow
<1> QED  BY PolicyInit, PolicyStep, <1>1, PTL DEF AdminSpec

------------------------------------------------------------------------------
(* The models.                                                             *)

Row == [stage : {None, "TRAINED", "VALIDATED", "CHAMPION", "ARCHIVED"}, at : Nat]

\* Requests have read rows.  A registration makes no champion and unmakes none.
\* What a promotion has read was promoted at most at b.
GoodModelRequest(r, b) ==
    /\ r.op = "register" =>
          /\ r.version \in Models /\ r.seen \in Row /\ r.new \in Row
          /\ r.new.stage = "CHAMPION" <=> r.seen.stage = "CHAMPION"
    /\ r.op = "promote" =>
          /\ r.version \in Models /\ r.stage \in Stages /\ r.seen \in [Models -> Row]
          /\ \A v \in Models : r.seen[v].at <= b

\* b bounds the times of all promotions so far.
PromotedBy(b) ==
    /\ \A v \in Models : models[v].at <= b
    /\ \A a \in Admins : GoodModelRequest(session[a], b)

\* As long as nothing raced, the model promoted last is the only champion.
ModelInv ==
    /\ models \in [Models -> Row]
    /\ promoted \in Models \cup {None, "raced"}
    /\ session = [a \in Admins |-> session[a]]
    /\ \E b \in Nat : PromotedBy(b)
    /\ promoted \in Models =>
          \A v \in Models : models[v].stage = "CHAMPION" <=> v = promoted
    /\ promoted = None => \A v \in Models : models[v].stage # "CHAMPION"

LEMMA ModelReads ==
    ASSUME NEW a \in Admins, NEW r, Reads(a, r), ModelInv,
           \A b \in Nat : PromotedBy(b) => GoodModelRequest(r, b)
    PROVE  ModelInv'
<1>1. UNCHANGED <<models, promoted>> /\ session' = [session EXCEPT ![a] = r]
  BY DEF Reads
<1>2. PICK b \in Nat : PromotedBy(b)
  BY DEF ModelInv
<1>3. ASSUME NEW c \in Admins PROVE GoodModelRequest(session'[c], b)
  BY <1>1, <1>2 DEF ModelInv, PromotedBy
<1>4. PromotedBy(b)'
  BY <1>1, <1>2, <1>3 DEF PromotedBy
<1>5. session' = [c \in Admins |-> session'[c]]
  BY <1>1 DEF ModelInv
<1> QED  BY <1>1, <1>4, <1>5 DEF ModelInv

\* The requests that stay when one ends are good for any later bound.
LEMMA ModelEnds ==
    ASSUME NEW a \in Admins, Ends(a), ModelInv, NEW b \in Nat, NEW c \in Nat, b <= c, PromotedBy(b)
    PROVE  /\ session' = [d \in Admins |-> session'[d]]
           /\ \A d \in Admins : GoodModelRequest(session'[d], c)
<1>1. session' = [d \in Admins |-> IF d = a THEN AdminIdle ELSE session[d]]
  BY DEF Ends, ModelInv
<1>2. ASSUME NEW d \in Admins PROVE GoodModelRequest(session'[d], c)
  <2>1. CASE d = a
    BY <2>1, <1>1 DEF GoodModelRequest, AdminIdle
  <2>2. CASE d # a
    <3>1. GoodModelRequest(session[d], b) /\ session'[d] = session[d]
      BY <2>2, <1>1 DEF PromotedBy
    <3>2. ASSUME session[d].op = "promote", NEW v \in Models PROVE session[d].seen[v].at <= c
      <4>1. session[d].seen[v].at <= b /\ session[d].seen[v].at \in Nat
        BY <3>1, <3>2 DEF GoodModelRequest, Row
      <4> QED  BY <4>1
    <3> QED  BY <3>1, <3>2 DEF GoodModelRequest
  <2> QED  BY <2>1, <2>2
<1> QED  BY <1>1, <1>2

\* An end that leaves the models alone.
LEMMA ModelEndsOther ==
    ASSUME NEW a \in Admins, Ends(a), UNCHANGED <<models, promoted>>, ModelInv
    PROVE  ModelInv'
<1>1. PICK b \in Nat : PromotedBy(b)
  BY DEF ModelInv
<1>2. /\ session' = [d \in Admins |-> session'[d]]
      /\ \A d \in Admins : GoodModelRequest(session'[d], b)
  BY <1>1, ModelEnds
<1> QED  BY <1>1, <1>2 DEF ModelInv, PromotedBy

\* A row whose columns are written keeps its type.
LEMMA FlushedRow ==
    ASSUME NEW row \in Row, NEW seen \in Row, NEW new \in Row
    PROVE  /\ Flush(row, seen, new) \in Row
           /\ Flush(row, seen, new).stage = IF new.stage = seen.stage THEN row.stage ELSE new.stage
           /\ Flush(row, seen, new).at = IF new.at = seen.at THEN row.at ELSE new.at
<1>1. DOMAIN row = {"stage", "at"}
  BY DEF Row
<1>2. Flush(row, seen, new) = [stage |-> IF new.stage = seen.stage THEN row.stage ELSE new.stage,
                               at    |-> IF new.at = seen.at THEN row.at ELSE new.at]
  BY <1>1 DEF Flush
<1> QED  BY <1>2 DEF Row

\* The time of a promotion is that after the latest it has read.
LEMMA PromotionTime ==
    ASSUME NEW seen \in [Models -> Row], NEW v \in Models,
           NEW b \in Nat, \A w \in Models : seen[w].at <= b
    PROVE  /\ 1 + Max({seen[w].at : w \in Models}) \in Nat
           /\ 1 + Max({seen[w].at : w \in Models}) <= b + 1
<1> DEFINE Times == {seen[w].at : w \in Models}
<1>1. Times \subseteq Nat /\ Times # {} /\ \A t \in Times : t <= b
  BY DEF Row
<1> HIDE DEF Times
<1>2. \E t \in Times : \A u \in Times : u <= t
  BY <1>1, GreatestNat
<1>3. Max(Times) \in Times
  BY <1>2 DEF Max
<1>4. Max(Times) \in Nat /\ Max(Times) <= b
  BY <1>1, <1>3
<1>5. ASSUME NEW t \in Nat, t <= b PROVE 1 + t \in Nat /\ 1 + t <= b + 1
  BY <1>5
<1> QED  BY <1>4, <1>5 DEF Times

LEMMA ModelPromotes ==
    ASSUME NEW a \in Admins, CommitPromotion(a), ModelInv
    PROVE  ModelInv'
<1> DEFINE r     == session[a]
           v     == r.version
           seen  == r.seen
           at    == 1 + Max({seen[w].at : w \in Models})
           new   == [w \in Models |->
                       IF w \in Demoted(seen, v, r.stage) THEN [seen[w] EXCEPT !.stage = "ARCHIVED"]
                       ELSE IF w = v THEN [stage |-> r.stage, at |-> at]
                       ELSE seen[w]]
<1>1. PICK b \in Nat : PromotedBy(b)
  BY DEF ModelInv
<1>2. /\ v \in Models /\ r.stage \in Stages /\ seen \in [Models -> Row]
      /\ \A w \in Models : seen[w].at <= b
  BY <1>1 DEF PromotedBy, GoodModelRequest, CommitPromotion
<1>3. models' = [w \in Models |-> Flush(models[w], seen[w], new[w])]
  BY DEF CommitPromotion, Promoted
<1>4. at \in Nat /\ at <= b + 1
  BY <1>2, PromotionTime
<1> HIDE DEF at
<1>5. ASSUME NEW w \in Models
      PROVE  new[w] \in Row /\ new[w].at <= b + 1
  <2>1. seen[w] \in Row /\ seen[w].at \in Nat /\ seen[w].at <= b
    BY <1>2 DEF Row
  <2>2. [seen[w] EXCEPT !.stage = "ARCHIVED"] \in Row
        /\ [seen[w] EXCEPT !.stage = "ARCHIVED"].at = seen[w].at
    BY <2>1 DEF Row
  <2>3. [stage |-> r.stage, at |-> at] \in Row
    BY <1>2, <1>4, AdminAssumption DEF Row
  <2>4. seen[w].at <= b + 1
    BY <2>1
  <2> QED  BY <2>1, <2>2, <2>3, <2>4, <1>4
<1> HIDE DEF new
<1>6. ASSUME NEW w \in Models
      PROVE  /\ models'[w] = Flush(models[w], seen[w], new[w])
             /\ models'[w] \in Row /\ models'[w].at <= b + 1
  <2>1. models[w] \in Row /\ models[w].at \in Nat /\ models[w].at <= b
    BY <1>1 DEF ModelInv, PromotedBy, Row
  <2>2. models[w].at <= b + 1
    BY <2>1
  <2>3. seen[w] \in Row
    BY <1>2
  <2> QED  BY <1>3, <1>5, <2>1, <2>2, <2>3, FlushedRow
<1>7. models' \in [Models -> Row]
  BY <1>3, <1>6
<1>8. Ends(a) /\ b + 1 \in Nat /\ b <= b + 1
  BY DEF CommitPromotion
<1>9. /\ session' = [d \in Admins |-> session'[d]]
      /\ \A d \in Admins : GoodModelRequest(session'[d], b + 1)
  BY <1>1, <1>8, ModelEnds
<1>10. PromotedBy(b + 1)'
  BY <1>6, <1>9 DEF PromotedBy
<1>11. promoted' = IF Raced(seen) THEN "raced"
                   ELSE IF promoted = "raced" THEN promoted
                   ELSE IF r.stage = "CHAMPION" THEN v
                   ELSE IF promoted = v THEN None
                   ELSE promoted
  BY DEF CommitPromotion
<1>12. promoted' \in Models \cup {None, "raced"}
  BY <1>2, <1>11 DEF ModelInv
<1>13. ASSUME promoted' # "raced", NEW w \in Models
       PROVE  models'[w].stage = "CHAMPION" <=> w = promoted'
  <2>1. seen = models /\ promoted # "raced"
    BY <1>11, <1>13 DEF Raced
  <2>2. models'[w].stage = new[w].stage
    BY <1>2, <1>5, <1>6, <2>1, FlushedRow
  <2>3. None \notin Models /\ promoted \in Models \cup {None}
    BY <2>1, AdminAssumption DEF ModelInv, None
  <2>4. models[w].stage = "CHAMPION" <=> w = promoted
    BY <2>3 DEF ModelInv
  <2>5. models[w] \in Row
    BY DEF ModelInv
  <2>6. new[w].stage = IF w # v /\ r.stage = "CHAMPION" /\ models[w].stage = "CHAMPION"
                       THEN "ARCHIVED" ELSE IF w = v THEN r.stage ELSE models[w].stage
    BY <2>1, <2>5 DEF new, Demoted, Row
  <2>7. promoted' = IF r.stage = "CHAMPION" THEN v ELSE IF promoted = v THEN None ELSE promoted
    BY <2>1, <1>11 DEF Raced
  <2> HIDE DEF r, v
  <2> QED  BY <2>2, <2>3, <2>4, <2>6, <2>7, <1>2
<1>14. None \notin Models /\ "raced" \notin Models /\ None # "raced"
  BY AdminAssumption DEF None
<1>15. /\ promoted' \in Models =>
             \A w \in Models : models'[w].stage = "CHAMPION" <=> w = promoted'
       /\ promoted' = None => \A w \in Models : models'[w].stage # "CHAMPION"
  BY <1>13, <1>14
<1> QED  BY <1>7, <1>8, <1>9, <1>10, <1>12, <1>15 DEF ModelInv

LEMMA ModelRegisters ==
    ASSUME NEW a \in Admins, CommitRegistration(a), ModelInv
    PROVE  ModelInv'
<1> DEFINE r == session[a]
           v == r.version
<1>1. PICK b \in Nat : PromotedBy(b)
  BY DEF ModelInv
<1>2. /\ v \in Models /\ r.seen \in Row /\ r.new \in Row
      /\ r.new.stage = "CHAMPION" <=> r.seen.stage = "CHAMPION"
  BY <1>1 DEF PromotedBy, GoodModelRequest, CommitRegistration
<1>3. models[v] \in Row
  BY <1>2 DEF ModelInv
<1>4. PICK c \in Nat : /\ b <= c
                       /\ Flush(models[v], r.seen, r.new).at <= c
  <2>1. b \in Nat /\ Flush(models[v], r.seen, r.new).at \in Nat
    BY <1>2, <1>3, FlushedRow DEF Row
  <2>2. \A m, n \in Nat : \E c \in Nat : m <= c /\ n <= c
    <3> TAKE m, n \in Nat
    <3> WITNESS m + n \in Nat
    <3> QED  OBVIOUS
  <2> QED  BY <2>1, <2>2
<1>5. \/ models' = models
      \/ models' = [models EXCEPT ![v] = Flush(models[v], r.seen, r.new)]
  BY DEF CommitRegistration
<1>6. models' \in [Models -> Row]
  BY <1>2, <1>3, <1>5, FlushedRow DEF ModelInv
<1>7. ASSUME NEW w \in Models PROVE models'[w].at <= c
  <2>1. models[w].at \in Nat /\ models[w].at <= b
    BY <1>1 DEF ModelInv, PromotedBy, Row
  <2>2. models[w].at <= c
    BY <2>1, <1>4
  <2>3. models'[w] = models[w] \/ (w = v /\ models'[w] = Flush(models[v], r.seen, r.new))
    BY <1>5 DEF ModelInv
  <2> QED  BY <2>2, <2>3, <1>4
<1>8. Ends(a)
  BY DEF CommitRegistration
<1>9. /\ session' = [d \in Admins |-> session'[d]]
      /\ \A d \in Admins : GoodModelRequest(session'[d], c)
  BY <1>1, <1>4, <1>8, ModelEnds
<1>10. PromotedBy(c)'
  BY <1>7, <1>9 DEF PromotedBy
<1>11. promoted' = IF r.seen # models[v] THEN "raced" ELSE promoted
  BY DEF CommitRegistration
<1>12. ASSUME r.seen = models[v], NEW w \in Models
       PROVE  models'[w].stage = "CHAMPION" <=> models[w].stage = "CHAMPION"
  <2>1. Flush(models[v], r.seen, r.new).stage = r.new.stage
    BY <1>2, <1>3, <1>12, FlushedRow
  <2>2. models'[w] = models[w] \/ (w = v /\ models'[w] = Flush(models[v], r.seen, r.new))
    BY <1>5 DEF ModelInv
  <2> QED  BY <2>1, <2>2, <1>2, <1>12
<1>13. "raced" \notin Models /\ None # "raced"
  BY AdminAssumption DEF None
<1> HIDE DEF r, v
<1>14. /\ promoted' \in Models =>
             \A w \in Models : models'[w].stage = "CHAMPION" <=> w = promoted'
       /\ promoted' = None => \A w \in Models : models'[w].stage # "CHAMPION"
       /\ promoted' \in Models \cup {None, "raced"}
  BY <1>11, <1>12, <1>13 DEF ModelInv
<1> QED  BY <1>4, <1>6, <1>9, <1>10, <1>14 DEF ModelInv

LEMMA ModelInit == AdminInit => ModelInv
<1> SUFFICES ASSUME AdminInit PROVE ModelInv
  OBVIOUS
<1>1. /\ models = [v \in Models |-> [stage |-> None, at |-> 0]]
      /\ session = [a \in Admins |-> AdminIdle] /\ promoted = None
  BY DEF AdminInit
<1>2. [stage |-> None, at |-> 0] \in Row /\ None \notin Models /\ None # "CHAMPION"
  BY AdminAssumption DEF Row, None
<1>3. PromotedBy(0)
  BY <1>1 DEF PromotedBy, GoodModelRequest, AdminIdle
<1> QED  BY <1>1, <1>2, <1>3 DEF ModelInv

\* A request that concerns no model.
LEMMA ModelReadsOther ==
    ASSUME NEW a \in Admins, NEW r, Reads(a, r), r.op \notin {"register", "promote"}, ModelInv
    PROVE  ModelInv'
<1>1. \A b \in Nat : GoodModelRequest(r, b)
  BY DEF GoodModelRequest
<1> QED  BY <1>1, ModelReads

LEMMA ModelStep == ModelInv /\ [AdminNext]_adminVars => ModelInv'
<1> SUFFICES ASSUME ModelInv, [AdminNext]_adminVars PROVE ModelInv'
  OBVIOUS
<1>1. ASSUME NEW a \in Admins, CommitPromotion(a) PROVE ModelInv'
  BY <1>1, ModelPromotes
<1>2. ASSUME NEW a \in Admins, CommitRegistration(a) PROVE ModelInv'
  BY <1>2, ModelRegisters
<1>3. ASSUME NEW a \in Admins, PolicyFails(a) \/ CommitPolicy(a) \/ CommitIntegration(a)
      PROVE  ModelInv'
  <2>1. Ends(a) /\ UNCHANGED <<models, promoted>>
    BY <1>3 DEF PolicyFails, CommitPolicy, CommitIntegration
  <2> QED  BY <2>1, ModelEndsOther
<1>4. ASSUME NEW a \in Admins, NEW v \in Models, NEW stage \in {"TRAINED", "VALIDATED"},
             Register(a, v, stage)
      PROVE  ModelInv'
  <2> DEFINE new == [models[v] EXCEPT !.stage =
                        IF @ = None \/ (@ = "TRAINED" /\ stage = "VALIDATED") THEN stage ELSE @]
             r   == [op |-> "register", version |-> v, seen |-> models[v], new |-> new]
  <2>1. models[v] \in Row
    BY DEF ModelInv
  <2>2. new \in Row /\ (new.stage = "CHAMPION" <=> models[v].stage = "CHAMPION")
    BY <2>1 DEF Row, None
  <2> HIDE DEF new
  <2>3. \A b \in Nat : GoodModelRequest(r, b)
    BY <2>1, <2>2 DEF GoodModelRequest
  <2>4. Reads(a, r)
    BY <1>4 DEF Register, new
  <2> HIDE DEF r
  <2> QED  BY <2>3, <2>4, ModelReads
<1>5. ASSUME NEW a \in Admins, NEW v \in Models, NEW stage \in Stages, Promote(a, v, stage)
      PROVE  ModelInv'
  <2> DEFINE r == [op |-> "promote", version |-> v, stage |-> stage, seen |-> models]
  <2>1. \A b \in Nat : PromotedBy(b) => GoodModelRequest(r, b)
    BY DEF GoodModelRequest, PromotedBy, ModelInv
  <2>2. Reads(a, r)
    BY <1>5 DEF Promote
  <2> HIDE DEF r
  <2> QED  BY <2>1, <2>2, ModelReads
<1>6. ASSUME NEW a \in Admins, NEW m, NEW rules, NEW status, CreatePolicy(a, m, rules, status)
      PROVE  ModelInv'
  BY <1>6, ModelReadsOther DEF CreatePolicy
<1>7. ASSUME NEW a \in Admins, NEW human, NEW given, NEW status, PatchPolicy(a, human, given, status)
      PROVE  ModelInv'
  BY <1>7, ModelReadsOther DEF PatchPolicy
<1>8. ASSUME NEW a \in Admins, NEW ref, Connect(a, ref) PROVE ModelInv'
  BY <1>8, ModelReadsOther DEF Connect
<1>9. ASSUME NEW a \in Admins, NEW ref, Rotate(a, ref) PROVE ModelInv'
  BY <1>9, ModelReadsOther DEF Rotate
<1>10. CASE SweepReads \/ SweepCommits \/ Tick \/ UNCHANGED adminVars
  <2>1. UNCHANGED <<models, promoted, session>>
    BY <1>10 DEF SweepReads, SweepCommits, Tick, adminVars
  <2> QED  BY <2>1 DEF ModelInv, PromotedBy
<1> QED  BY <1>1, <1>2, <1>3, <1>4, <1>5, <1>6, <1>7, <1>8, <1>9, <1>10 DEF AdminNext

\* As long as no two changes of the models overlapped, payments are scored with
\* the model that was last made champion (promote_model, runtime_version), whose
\* promotion has left no other champion beside it.
THEOREM PromotedModelServes == AdminSpec => []PromotedServes
<1>1. ModelInv => PromotedServes
  <2> SUFFICES ASSUME ModelInv, promoted \in Models PROVE RuntimeModel = {promoted}
    BY DEF PromotedServes
  <2>1. \A v \in Models : models[v].stage = "CHAMPION" <=> v = promoted
    BY DEF ModelInv
  <2>2. models[promoted].at \in Nat
    BY DEF ModelInv, Row
  <2>3. {v \in Models : models[v].stage = "CHAMPION"} = {promoted}
    BY <2>1
  <2> QED  BY <2>2, <2>3 DEF RuntimeModel
<1> QED  BY ModelInit, ModelStep, <1>1, PTL DEF AdminSpec

------------------------------------------------------------------------------
(* The secrets.                                                            *)

SecretRow == [exists : BOOLEAN, current : Refs \cup {None}, previous : Refs \cup {None},
              expires : Nat]

\* A rotation that waits keeps the secret it has read, until the grace is over
\* that began today: the clock does not move under a transaction.  A connection
\* changes neither.
GoodSecretRequest(r) ==
    /\ r.op \in {"connect", "rotate"} => r.seen \in SecretRow /\ r.new \in SecretRow
    /\ r.op = "connect" => r.new.previous = r.seen.previous /\ r.new.expires = r.seen.expires
    /\ r.op = "rotate" => r.new.previous = r.seen.current /\ r.new.expires = clock + Grace

GoodSweep ==
    /\ sweep.seen \in SecretRow
    /\ sweep.new = IF Expired(sweep.seen, clock) THEN Retired(sweep.seen) ELSE sweep.seen

SecretInv ==
    /\ clock \in Nat \ {0}
    /\ integration \in SecretRow
    /\ session = [a \in Admins |-> session[a]]
    /\ \A a \in Admins : GoodSecretRequest(session[a])
    /\ sweep = AdminIdle \/ GoodSweep

LEMMA SecretReads ==
    ASSUME NEW a \in Admins, NEW r, Reads(a, r), SecretInv, GoodSecretRequest(r)
    PROVE  SecretInv'
<1>1. UNCHANGED <<clock, integration, sweep>> /\ session' = [session EXCEPT ![a] = r]
  BY DEF Reads
<1>2. ASSUME NEW c \in Admins PROVE GoodSecretRequest(session[c])'
  BY <1>1 DEF SecretInv, GoodSecretRequest
<1>3. session' = [c \in Admins |-> session'[c]]
  BY <1>1 DEF SecretInv
<1> QED  BY <1>1, <1>2, <1>3 DEF SecretInv, GoodSweep

LEMMA SecretEnds ==
    ASSUME NEW a \in Admins, Ends(a), UNCHANGED <<clock, sweep>>, SecretInv,
           integration' \in SecretRow
    PROVE  SecretInv'
<1>1. session' = [c \in Admins |-> IF c = a THEN AdminIdle ELSE session[c]]
  BY DEF Ends, SecretInv
<1>2. ASSUME NEW c \in Admins PROVE GoodSecretRequest(session[c])'
  BY <1>1 DEF SecretInv, GoodSecretRequest, AdminIdle
<1> QED  BY <1>1, <1>2 DEF SecretInv, GoodSweep

\* An integration whose columns are written keeps its type, and is the new one
\* when it still is as it was read.
LEMMA FlushedSecret ==
    ASSUME NEW row \in SecretRow, NEW seen \in SecretRow, NEW new \in SecretRow
    PROVE  /\ Flush(row, seen, new) \in SecretRow
           /\ seen = row => Flush(row, seen, new) = new
<1> DEFINE f == [exists   |-> IF new.exists = seen.exists THEN row.exists ELSE new.exists,
                 current  |-> IF new.current = seen.current THEN row.current ELSE new.current,
                 previous |-> IF new.previous = seen.previous THEN row.previous ELSE new.previous,
                 expires  |-> IF new.expires = seen.expires THEN row.expires ELSE new.expires]
<1>1. DOMAIN row = {"exists", "current", "previous", "expires"}
  BY DEF SecretRow
<1>2. Flush(row, seen, new) = f
  BY <1>1 DEF Flush
<1>3. f \in SecretRow
  BY DEF SecretRow
<1>4. ASSUME seen = row PROVE f = new
  BY <1>4 DEF SecretRow
<1> QED  BY <1>2, <1>3, <1>4

LEMMA RetiredIsRow ==
    ASSUME NEW row \in SecretRow
    PROVE  /\ Retired(row) \in SecretRow
           /\ Retired(row).current = row.current /\ Retired(row).expires = 0
BY DEF SecretRow, Retired

LEMMA SecretCommits ==
    ASSUME NEW a \in Admins, CommitIntegration(a), SecretInv
    PROVE  SecretInv'
<1> DEFINE r   == session[a]
           row == Flush(integration, r.seen, r.new)
<1>1. r.seen \in SecretRow /\ r.new \in SecretRow /\ integration \in SecretRow
  BY DEF CommitIntegration, SecretInv, GoodSecretRequest
<1>2. row \in SecretRow
  BY <1>1, FlushedSecret
<1>3. [row EXCEPT !.expires = r.new.expires] \in SecretRow
  BY <1>1, <1>2 DEF SecretRow
<1>4. integration' \in SecretRow /\ Ends(a) /\ UNCHANGED <<clock, sweep>>
  BY <1>1, <1>2, <1>3 DEF CommitIntegration
<1> QED  BY <1>4, SecretEnds

LEMMA SecretInit == AdminInit => SecretInv
<1> SUFFICES ASSUME AdminInit PROVE SecretInv
  OBVIOUS
<1>1. /\ clock = 1 /\ sweep = AdminIdle /\ session = [a \in Admins |-> AdminIdle]
      /\ integration = [exists |-> FALSE, current |-> None, previous |-> None, expires |-> 0]
  BY DEF AdminInit
<1> QED  BY <1>1 DEF SecretInv, SecretRow, GoodSecretRequest, AdminIdle

\* A request that concerns no secret.
LEMMA SecretReadsOther ==
    ASSUME NEW a \in Admins, NEW r, Reads(a, r), r.op \notin {"connect", "rotate"}, SecretInv
    PROVE  SecretInv'
<1>1. GoodSecretRequest(r)
  BY DEF GoodSecretRequest
<1> QED  BY <1>1, SecretReads

LEMMA SecretStep == SecretInv /\ [AdminNext]_adminVars => SecretInv'
<1> SUFFICES ASSUME SecretInv, [AdminNext]_adminVars PROVE SecretInv'
  OBVIOUS
<1>1. ASSUME NEW a \in Admins, CommitIntegration(a) PROVE SecretInv'
  BY <1>1, SecretCommits
<1>2. ASSUME NEW a \in Admins, PolicyFails(a) \/ CommitPolicy(a) \/ CommitRegistration(a)
                               \/ CommitPromotion(a)
      PROVE  SecretInv'
  <2>1. Ends(a) /\ UNCHANGED <<clock, sweep, integration>>
    BY <1>2 DEF PolicyFails, CommitPolicy, CommitRegistration, CommitPromotion
  <2> QED  BY <2>1, SecretEnds DEF SecretInv
<1>3. ASSUME NEW a \in Admins, NEW ref \in Refs \cup {None}, Connect(a, ref) PROVE SecretInv'
  <2> DEFINE current == IF ref # None THEN ref ELSE IF integration.current # None
                        THEN integration.current ELSE DefaultRef
             new == [integration EXCEPT !.exists = TRUE, !.current = current]
             r   == [op |-> "connect", seen |-> integration, new |-> new]
  <2>1. integration \in SecretRow /\ current \in Refs \cup {None}
    BY AdminAssumption DEF SecretInv, SecretRow
  <2>2. Reads(a, r)
    BY <1>3 DEF Connect
  <2> HIDE DEF current
  <2>3. new \in SecretRow /\ new.previous = integration.previous /\ new.expires = integration.expires
    BY <2>1 DEF SecretRow
  <2> HIDE DEF new
  <2>4. GoodSecretRequest(r)
    BY <2>1, <2>3 DEF GoodSecretRequest
  <2> HIDE DEF r
  <2> QED  BY <2>2, <2>4, SecretReads
<1>4. ASSUME NEW a \in Admins, NEW ref \in Refs, Rotate(a, ref) PROVE SecretInv'
  <2> DEFINE new == Rotated(integration, ref)
             r   == [op |-> "rotate", seen |-> integration, new |-> new]
  <2>1. integration \in SecretRow /\ clock + Grace \in Nat
    BY AdminAssumption DEF SecretInv
  <2>2. new \in SecretRow /\ new.previous = integration.current /\ new.expires = clock + Grace
    BY <2>1 DEF SecretRow, Rotated
  <2>3. Reads(a, r)
    BY <1>4 DEF Rotate
  <2> HIDE DEF new
  <2>4. GoodSecretRequest(r)
    BY <2>1, <2>2 DEF GoodSecretRequest
  <2> HIDE DEF r
  <2> QED  BY <2>3, <2>4, SecretReads
<1>5. ASSUME NEW a \in Admins, NEW m, NEW rules, NEW status, CreatePolicy(a, m, rules, status)
      PROVE  SecretInv'
  BY <1>5, SecretReadsOther DEF CreatePolicy
<1>6. ASSUME NEW a \in Admins, NEW human, NEW given, NEW status, PatchPolicy(a, human, given, status)
      PROVE  SecretInv'
  BY <1>6, SecretReadsOther DEF PatchPolicy
<1>7. ASSUME NEW a \in Admins, NEW v, NEW stage, Register(a, v, stage) PROVE SecretInv'
  BY <1>7, SecretReadsOther DEF Register
<1>8. ASSUME NEW a \in Admins, NEW v, NEW stage, Promote(a, v, stage) PROVE SecretInv'
  BY <1>8, SecretReadsOther DEF Promote
<1>9. CASE SweepReads
  <2>1. /\ sweep' = [op |-> "sweep", seen |-> integration,
                     new |-> IF Expired(integration, clock) THEN Retired(integration) ELSE integration]
        /\ UNCHANGED <<integration, session, clock>>
    BY <1>9 DEF SweepReads
  <2>2. GoodSweep'
    BY <2>1 DEF GoodSweep, SecretInv, Expired
  <2> QED  BY <2>1, <2>2 DEF SecretInv, GoodSecretRequest
<1>10. CASE SweepCommits
  <2>1. /\ integration' = Flush(integration, sweep.seen, sweep.new)
        /\ sweep' = AdminIdle /\ GoodSweep /\ UNCHANGED <<session, clock>>
    BY <1>10 DEF SweepCommits, SecretInv
  <2>2. integration' \in SecretRow
    BY <2>1, FlushedSecret, RetiredIsRow DEF GoodSweep, SecretInv
  <2> QED  BY <2>1, <2>2 DEF SecretInv, GoodSecretRequest
<1>11. CASE Tick
  <2>1. /\ sweep' = AdminIdle /\ clock' = clock + 1 /\ UNCHANGED <<integration, session>>
        /\ \A a \in Admins : session[a] = AdminIdle
    BY <1>11 DEF Tick
  <2>2. clock' \in Nat \ {0}
    BY <2>1 DEF SecretInv
  <2> QED  BY <2>1, <2>2 DEF SecretInv, GoodSecretRequest, AdminIdle
<1>12. CASE UNCHANGED adminVars
  BY <1>12 DEF adminVars, SecretInv, GoodSecretRequest, GoodSweep
<1> QED  BY <1>1, <1>2, <1>3, <1>4, <1>5, <1>6, <1>7, <1>8, <1>9, <1>10, <1>11, <1>12 DEF AdminNext

\* While its grace lasts, the secret that was rotated last is the previous one.
Held(row, o) == row.previous = o.secret /\ row.expires = o.until

OwedInv == \A o \in owed : o.until \in Nat /\ (clock <= o.until => Held(integration, o))

LEMMA HeldIsAccepted == SecretInv /\ OwedInv => GraceKept
BY DEF OwedInv, Held, SecretInv, GraceKept, SecretsFor

\* A commit of a connection leaves the previous secret and its grace alone.
LEMMA ConnectionHolds ==
    ASSUME SecretInv, OwedInv, NEW a \in Admins, CommitIntegration(a), session[a].op = "connect"
    PROVE  OwedInv'
<1> DEFINE r   == session[a]
           row == Flush(integration, r.seen, r.new)
<1>1. /\ r.new.previous = r.seen.previous /\ r.new.expires = r.seen.expires
      /\ integration \in SecretRow
  BY DEF SecretInv, GoodSecretRequest
<1>2. row.previous = integration.previous /\ row.expires = integration.expires
  BY <1>1 DEF Flush, SecretRow
<1>3. integration' \in {integration, row} /\ UNCHANGED <<owed, clock>>
  BY DEF CommitIntegration
<1> HIDE DEF row
<1> QED  BY <1>2, <1>3 DEF OwedInv, Held

\* A rotation that finds the row as it has read it leaves its secret accepted.
LEMMA RotationHolds ==
    ASSUME SecretInv, OwedInv, NEW a \in Admins, CommitIntegration(a), session[a].op = "rotate"
    PROVE  OwedInv'
<1> DEFINE r   == session[a]
           row == Flush(integration, r.seen, r.new)
<1>1. CASE r.seen # integration
  <2>1. owed' = {}
    BY <1>1 DEF CommitIntegration
  <2> QED  BY <2>1 DEF OwedInv
<1>2. CASE r.seen = integration
  <2>1. /\ r.new \in SecretRow /\ integration \in SecretRow
        /\ r.new.previous = integration.current /\ r.new.expires = clock + Grace
    BY <1>2 DEF SecretInv, GoodSecretRequest
  <2>2. row = r.new
    BY <1>2, <2>1, FlushedSecret
  <2>3. integration' = [row EXCEPT !.expires = r.new.expires]
    BY <1>2 DEF CommitIntegration
  <2>4. integration'.previous = integration.current /\ integration'.expires = r.new.expires
    BY <2>1, <2>2, <2>3 DEF SecretRow
  <2>5. owed' = {[secret |-> integration.current, until |-> r.new.expires]} /\ r.new.expires \in Nat
    BY <1>2, <2>1 DEF CommitIntegration, SecretRow
  <2> QED  BY <2>4, <2>5 DEF OwedInv, Held
<1> QED  BY <1>1, <1>2

\* A sweep that finds the row as it has read it retires no secret in its grace.
LEMMA SweepHolds ==
    ASSUME SecretInv, OwedInv, SweepCommits
    PROVE  OwedInv'
<1>1. GoodSweep /\ integration' = Flush(integration, sweep.seen, sweep.new) /\ UNCHANGED clock
  BY DEF SweepCommits, SecretInv
<1>2. integration \in SecretRow /\ clock \in Nat
  BY DEF SecretInv
<1>3. CASE sweep.new = sweep.seen
  <2>1. integration' = integration
    <3>1. integration' = [c \in DOMAIN integration |-> integration[c]]
      BY <1>1, <1>3 DEF Flush
    <3> QED  BY <3>1, <1>2 DEF SecretRow
  <2>2. owed' = owed
    BY <1>3 DEF SweepCommits
  <2> QED  BY <1>1, <2>1, <2>2 DEF OwedInv
<1>4. CASE sweep.new # sweep.seen /\ sweep.seen # integration
  <2>1. owed' = {}
    BY <1>4 DEF SweepCommits
  <2> QED  BY <2>1 DEF OwedInv
<1>5. CASE sweep.new # sweep.seen /\ sweep.seen = integration
  <2>1. integration.expires < clock
    BY <1>1, <1>5 DEF GoodSweep, Expired
  <2>2. owed' = owed
    BY <1>5 DEF SweepCommits
  <2>3. ASSUME NEW o \in owed
        PROVE  ~ (clock <= o.until)
    BY <1>2, <2>1 DEF OwedInv, Held, SecretRow
  <2> QED  BY <1>1, <2>2, <2>3 DEF OwedInv
<1> QED  BY <1>3, <1>4, <1>5

LEMMA OwedStep == SecretInv /\ OwedInv /\ [AdminNext]_adminVars => OwedInv'
<1> SUFFICES ASSUME SecretInv, OwedInv, [AdminNext]_adminVars PROVE OwedInv'
  OBVIOUS
<1>1. ASSUME NEW a \in Admins, CommitIntegration(a) PROVE OwedInv'
  BY <1>1, ConnectionHolds, RotationHolds DEF CommitIntegration
<1>2. CASE SweepCommits
  BY <1>2, SweepHolds
<1>3. CASE Tick
  <2>1. clock' = clock + 1 /\ clock \in Nat /\ UNCHANGED <<integration, owed>>
    BY <1>3 DEF Tick, SecretInv
  <2> QED  BY <2>1 DEF OwedInv, Held
<1>4. CASE UNCHANGED <<integration, clock, owed>>
  BY <1>4 DEF OwedInv, Held
<1>5. ASSUME NEW a \in Admins, NEW r, Reads(a, r) PROVE OwedInv'
  BY <1>4, <1>5 DEF Reads
<1>6. ASSUME NEW a \in Admins, PolicyFails(a) \/ CommitPolicy(a) \/ CommitRegistration(a)
                               \/ CommitPromotion(a)
      PROVE  OwedInv'
  BY <1>4, <1>6 DEF PolicyFails, CommitPolicy, CommitRegistration, CommitPromotion
<1>7. CASE SweepReads \/ UNCHANGED adminVars
  BY <1>4, <1>7 DEF SweepReads, adminVars
<1>8. ASSUME NEW a \in Admins, NEW m, NEW rules, NEW status, CreatePolicy(a, m, rules, status)
      PROVE  OwedInv'
  BY <1>5, <1>8 DEF CreatePolicy
<1>9. ASSUME NEW a \in Admins, NEW human, NEW given, NEW status, PatchPolicy(a, human, given, status)
      PROVE  OwedInv'
  BY <1>5, <1>9 DEF PatchPolicy
<1>10. ASSUME NEW a \in Admins, NEW v, NEW stage, Register(a, v, stage) \/ Promote(a, v, stage)
       PROVE  OwedInv'
  BY <1>5, <1>10 DEF Register, Promote
<1>11. ASSUME NEW a \in Admins, NEW ref, Connect(a, ref) \/ Rotate(a, ref) PROVE OwedInv'
  BY <1>5, <1>11 DEF Connect, Rotate
<1> QED  BY <1>1, <1>2, <1>3, <1>6, <1>7, <1>8, <1>9, <1>10, <1>11 DEF AdminNext

(***************************************************************************)
(* Deliveries that are retried stay valid (routers/integrations.py,        *)
(* services/reconciliation.py): whatever overlaps with a rotation that     *)
(* found the row as it had read it, the secret it replaced is the previous *)
(* one until its grace is over, unless another rotation replaces it or a   *)
(* sweep writes what it has decided on an older row.                       *)
(***************************************************************************)
THEOREM RetriesStayValid == AdminSpec => []GraceKept
<1>1. AdminInit => OwedInv
  BY DEF AdminInit, OwedInv
<1> QED  BY <1>1, SecretInit, SecretStep, OwedStep, HeldIsAccepted, PTL DEF AdminSpec

------------------------------------------------------------------------------
(* The rules in force.                                                     *)

\* A number for each human id, in the order of their strings.
Place(k) == IF k < 10 THEN 1000 * k ELSE IF k < 100 THEN 100 * k + 1 ELSE 10 * k + 2

HumanIds == 7 .. 996
Rank     == [k \in HumanIds |-> Place(k)]

LEMMA RankRange ==
    /\ Rank \in [HumanIds -> Nat]
    /\ \A k \in HumanIds : Rank[k] <= 9999
    /\ \A j, k \in HumanIds : Rank[j] = Rank[k] => j = k
<1>1. \A k \in HumanIds : Place(k) \in Nat /\ Place(k) <= 9999
  BY SMT DEF Place, HumanIds
<1>2. \A j, k \in HumanIds : Place(j) = Place(k) => j = k
  BY SMT DEF Place, HumanIds
<1> QED  BY <1>1, <1>2 DEF Rank

LEMMA RankOrders ==
    ASSUME NEW j \in HumanIds, NEW k \in HumanIds, Rank[j] < Rank[k]
    PROVE  HumanBefore(j, k)
<1>1. Place(j) < Place(k)
  BY DEF Rank
<1> DEFINE scaled(i) == IF i < 10 THEN 100 * i ELSE IF i < 100 THEN 10 * i ELSE i
<1>2. scaled(j) < scaled(k) \/ (scaled(j) = scaled(k) /\ j < k)
  BY <1>1, SMT DEF Place, HumanIds
<1> QED  BY <1>2 DEF HumanBefore

\* The rows of a merchant.
OwnRows(rows) == rows \subseteq Policies /\ \A q, r \in rows : q.merchant = r.merchant

(***************************************************************************)
(* Of the live rows that speak about a rule, one comes last.               *)
(***************************************************************************)
LEMMA LastSpeaks ==
    ASSUME NEW rows, OwnRows(rows), NEW says, says \subseteq LiveRows(rows), says # {}
    PROVE  \E r \in says : \A q \in says \ {r} : HumanBefore(q.human, r.human)
<1>1. says \subseteq Policies
  BY DEF OwnRows, LiveRows
<1>2. \A r \in says : r.human \in HumanIds /\ r.version \in Nat
  BY <1>1, PolicyAssumption DEF HumanIds
<1> DEFINE Ranks == {Rank[r.human] : r \in says}
<1>3. Ranks \subseteq Nat /\ Ranks # {} /\ \A x \in Ranks : x <= 9999
  <2>1. \A r \in says : Rank[r.human] \in Nat /\ Rank[r.human] <= 9999
    BY <1>2, RankRange
  <2> QED  BY <2>1
<1>4. PICK x \in Ranks : \A y \in Ranks : y <= x
  <2> DEFINE bound == 9999
  <2>1. bound \in Nat /\ \A y \in Ranks : y <= bound
    BY <1>3
  <2> HIDE DEF Ranks, bound
  <2>2. Ranks \subseteq Nat /\ Ranks # {}
    BY <1>3
  <2> QED  BY <2>1, <2>2, GreatestNat
<1>5. PICK r \in says : x = Rank[r.human]
  BY <1>4
<1>6. ASSUME NEW q \in says \ {r}
      PROVE  HumanBefore(q.human, r.human)
  <2>1. Rank[q.human] <= Rank[r.human]
    BY <1>4, <1>5
  <2>2. q.human # r.human
    <3> SUFFICES ASSUME q.human = r.human PROVE FALSE
      OBVIOUS
    <3>1. q.version <= r.version /\ r.version <= q.version
      BY DEF LiveRows
    <3>2. q.version = r.version
      BY <3>1, <1>2
    <3>3. q.merchant = r.merchant
      BY DEF OwnRows, LiveRows
    <3> QED  BY <3>2, <3>3, <1>1, PolicyAssumption
  <2>3. q.human \in HumanIds /\ r.human \in HumanIds
    BY <1>2
  <2>4. Rank[q.human] # Rank[r.human]
    BY <2>2, <2>3, RankRange
  <2>5. Rank[q.human] \in Nat /\ Rank[r.human] \in Nat
    BY <2>3, RankRange
  <2>6. Rank[q.human] < Rank[r.human]
    BY <2>1, <2>4, <2>5
  <2> QED  BY <2>3, <2>6, RankOrders
<1> QED  BY <1>6

\* Complete rules, with the ranges that validate_rules keeps to.
Complete(rules) ==
    /\ MergeRules(rules) = rules
    /\ rules.amount_cap \in 1 .. 100
    /\ rules.cooldown_ok \in Int

(***************************************************************************)
(* The rules in force are complete and valid, whichever policies speak.    *)
(***************************************************************************)
LEMMA ActiveIsComplete ==
    ASSUME NEW rows, OwnRows(rows)
    PROVE  Complete(ActiveRules(rows, <<>>))
<1> DEFINE live == LiveRows(rows)
           says(id) == {r \in live : id \in DOMAIN r.rules}
           last(id) == CHOOSE r \in says(id) : \A q \in says(id) \ {r} : HumanBefore(q.human, r.human)
           ids == UNION {DOMAIN r.rules : r \in live}
           merged == [id \in ids |-> last(id).rules[id]]
           all == Overriding(merged, <<>>)
           rules == MergeRules(all)
<1>1. rules = ActiveRules(rows, <<>>)
  BY DEF ActiveRules
<1>2. ASSUME NEW id \in ids
      PROVE  /\ last(id) \in Policies
             /\ id \in DOMAIN last(id).rules
  <2>1. says(id) # {} /\ says(id) \subseteq LiveRows(rows)
    OBVIOUS
  <2>2. \E r \in says(id) : \A q \in says(id) \ {r} : HumanBefore(q.human, r.human)
    <3> HIDE DEF says
    <3> QED  BY <2>1, LastSpeaks
  <2>3. last(id) \in says(id)
    <3> HIDE DEF says
    <3> QED  BY <2>2
  <2> HIDE DEF last
  <2> QED  BY <2>3 DEF LiveRows, OwnRows
<1>3. ASSUME NEW id \in ids, id \in DOMAIN Bounds
      PROVE  merged[id] \in Bounds[id]
  <2> HIDE DEF last
  <2>1. ValidRules(last(id).rules)
    BY <1>2, PolicyAssumption
  <2> QED  BY <2>1, <1>2, <1>3 DEF ValidRules
<1> HIDE DEF last, says, live
<1>4. all = [id \in ids |-> merged[id]]
  BY DEF Overriding
<1> HIDE DEF merged
<1>5. rules = [id \in ids \cup DOMAIN DefaultRules |->
                 IF id \in ids THEN merged[id] ELSE DefaultRules[id]]
  <2> HIDE DEF ids
  <2> QED  BY <1>4 DEF MergeRules, Overriding
<1> HIDE DEF ids, rules
<1>6. MergeRules(rules) = rules
  BY <1>5 DEF MergeRules, Overriding
<1>7. rules.amount_cap \in 1 .. 100
  BY <1>3, <1>5 DEF DefaultRules, Bounds
<1>8. rules.cooldown_ok \in Int
  <2>1. "cooldown_ok" \in ids => merged["cooldown_ok"] \in 0 .. 1440
    BY <1>3 DEF Bounds
  <2>2. \A x \in 0 .. 1440 : x \in Int
    BY SMT
  <2>3. rules.cooldown_ok = IF "cooldown_ok" \in ids THEN merged["cooldown_ok"] ELSE 30
    BY <1>5 DEF DefaultRules
  <2> QED  BY <2>1, <2>2, <2>3
<1> QED  BY <1>1, <1>6, <1>7, <1>8 DEF Complete

LEMMA RulesInForce ==
    ASSUME NEW m \in Merchants
    PROVE  Complete(RulesOf[m])
<1> DEFINE rows == {r \in Policies : r.merchant = m}
<1>1. OwnRows(rows)
  BY DEF OwnRows
<1>2. RulesOf[m] = ActiveRules(rows, <<>>)
  BY DEF RulesOf
<1> HIDE DEF rows
<1> QED  BY <1>1, <1>2, ActiveIsComplete

------------------------------------------------------------------------------
(* Verdicts.                                                               *)

(***************************************************************************)
(* No rule fails just when each of them is kept.                           *)
(***************************************************************************)
LEMMA NoneFails ==
    ASSUME NEW rules, NEW ctx
    PROVE  FailedRules(rules, ctx) = {} <=>
             /\ ~ (ctx.attempts >= rules.max_attempts)
             /\ ~ (ctx.amount > rules.amount_cap)
             /\ ~ (ctx.minutes < rules.cooldown_ok)
             /\ Unproven(rules, ctx) = {}
             /\ ctx.kind \in ContactActions => Contacts(rules, ctx) = {}
BY DEF FailedRules

(***************************************************************************)
(* What is allowed fails no rule and needs no human.                       *)
(***************************************************************************)
LEMMA AllowedKeeps ==
    ASSUME NEW rules, NEW ctx, Evaluate(rules, ctx) = "allow"
    PROVE  /\ FailedRules(rules, ctx) = {}
           /\ \/ ctx.kind \notin MoneyActions
              \/ ctx.mode >= Autonomous
              \/ ctx.mode = BoundedAutopilot /\ 2 * ctx.amount <= rules.amount_cap
BY DEF Evaluate, Ladder

LEMMA Allowed ==
    ASSUME NEW rules, NEW ctx, FailedRules(rules, ctx) = {},
           \/ ctx.kind \notin MoneyActions
           \/ ctx.mode >= Autonomous
           \/ ctx.mode = BoundedAutopilot /\ 2 * ctx.amount <= rules.amount_cap
    PROVE  Evaluate(rules, ctx) = "allow"
BY DEF Evaluate, Ladder

\* Two contexts that differ in the amount and in the minutes alone.
Alike(c, d) ==
    /\ c.mode = d.mode /\ c.kind = d.kind /\ c.attempts = d.attempts
    /\ c.contacts = d.contacts /\ c.hour = d.hour /\ c.healthy = d.healthy
    /\ c.consent = d.consent /\ c.mandate = d.mandate /\ c.authority = d.authority

(***************************************************************************)
(* What is allowed for an amount is allowed for a smaller one.             *)
(***************************************************************************)
LEMMA LessIsAllowed ==
    ASSUME NEW rules, rules.amount_cap \in Int, NEW c, NEW d, Alike(c, d),
           c.amount \in Nat, d.amount \in Nat, c.amount <= d.amount,
           ~ (c.minutes < rules.cooldown_ok),
           Evaluate(rules, d) = "allow"
    PROVE  Evaluate(rules, c) = "allow"
<1>1. FailedRules(rules, d) = {}
  BY AllowedKeeps
<1>2. \/ d.kind \notin MoneyActions
      \/ d.mode >= Autonomous
      \/ d.mode = BoundedAutopilot /\ 2 * d.amount <= rules.amount_cap
  BY AllowedKeeps
<1>3. /\ ~ (d.attempts >= rules.max_attempts)
      /\ ~ (d.amount > rules.amount_cap)
      /\ Unproven(rules, d) = {}
      /\ d.kind \in ContactActions => Contacts(rules, d) = {}
  BY <1>1, NoneFails
<1>4. Unproven(rules, c) = Unproven(rules, d)
  BY DEF Alike, Unproven
<1>5. Contacts(rules, c) = Contacts(rules, d)
  BY DEF Alike, Contacts
<1>6. FailedRules(rules, c) = {}
  <2>1. ~ (c.attempts >= rules.max_attempts)
    BY <1>3 DEF Alike
  <2>2. ~ (c.amount > rules.amount_cap)
    BY <1>3
  <2>3. c.kind \in ContactActions => Contacts(rules, c) = {}
    BY <1>3, <1>5 DEF Alike
  <2> QED  BY <2>1, <2>2, <2>3, <1>3, <1>4, NoneFails
<1>7. \/ c.kind \notin MoneyActions
      \/ c.mode >= Autonomous
      \/ c.mode = BoundedAutopilot /\ 2 * c.amount <= rules.amount_cap
  <2>1. CASE d.mode = BoundedAutopilot /\ 2 * d.amount <= rules.amount_cap
    <3>1. 2 * c.amount <= rules.amount_cap
      BY <2>1
    <3> QED  BY <3>1, <2>1 DEF Alike
  <2> QED  BY <2>1, <1>2 DEF Alike
<1> QED  BY <1>6, <1>7, Allowed

(***************************************************************************)
(* The exposure of an action is at most what the failed payments are worth. *)
(***************************************************************************)
LEMMA ExposureRange ==
    ASSUME NEW m \in Merchants, NEW kind \in Kinds
    PROVE  /\ Total[m] \in Nat
           /\ Exposure(m, kind) \in Nat
           /\ Exposure(m, kind) <= Total[m]
<1>1. Total[m] \in Nat
  BY IncidentAssumption
<1>2. SliceValue(m) \in Nat /\ SliceValue(m) <= Total[m]
  BY <1>1 DEF SliceValue
<1> QED  BY <1>1, <1>2 DEF Exposure

(***************************************************************************)
(* An action that is allowed keeps the rules in force.                     *)
(***************************************************************************)
LEMMA VerdictKeeps ==
    ASSUME NEW m \in Merchants, NEW kind \in Kinds, NEW hour \in Hours,
           Verdict[m][kind][hour] = "allow"
    PROVE  /\ Exposure(m, kind) <= RulesOf[m].amount_cap
           /\ kind \in ContactActions => ~ Quiet(RulesOf[m].dnd_window_ok, hour)
           /\ kind \in MoneyActions =>
                 \/ Mode[m] = Autonomous
                 \/ Mode[m] = BoundedAutopilot /\ 2 * SliceValue(m) <= RulesOf[m].amount_cap
<1> DEFINE rules == RulesOf[m]
           ctx == Context(m, kind, Exposure(m, kind), hour)
<1>1. Evaluate(rules, ctx) = "allow"
  BY DEF Verdict
<1>2. /\ ctx.amount = Exposure(m, kind) /\ ctx.kind = kind
      /\ ctx.mode = Mode[m] /\ ctx.hour = hour
  BY DEF Context
<1>3. Exposure(m, kind) \in Nat /\ rules.amount_cap \in Int
  <2>1. Complete(rules)
    BY RulesInForce
  <2>2. rules.amount_cap \in Int
    BY <2>1 DEF Complete
  <2> QED  BY <2>2, ExposureRange
<1> HIDE DEF ctx, rules
<1>4. /\ ~ (ctx.amount > rules.amount_cap)
      /\ ctx.kind \in ContactActions => Contacts(rules, ctx) = {}
  BY <1>1, AllowedKeeps, NoneFails
<1>5. Exposure(m, kind) <= rules.amount_cap
  BY <1>2, <1>3, <1>4
<1>6. ASSUME kind \in ContactActions
      PROVE  ~ Quiet(rules.dnd_window_ok, hour)
  <2>1. Contacts(rules, ctx) = {}
    BY <1>2, <1>4, <1>6
  <2> QED  BY <2>1, <1>2 DEF Contacts
<1>7. ASSUME kind \in MoneyActions
      PROVE  \/ Mode[m] = Autonomous
             \/ Mode[m] = BoundedAutopilot /\ 2 * SliceValue(m) <= rules.amount_cap
  <2>1. \/ Mode[m] >= Autonomous
        \/ Mode[m] = BoundedAutopilot /\ 2 * Exposure(m, kind) <= rules.amount_cap
    BY <1>1, <1>2, <1>7, AllowedKeeps
  <2>2. Exposure(m, kind) = SliceValue(m)
    BY <1>7 DEF Exposure, MoneyActions
  <2>3. Mode[m] \in 0 .. 4
    BY IncidentAssumption DEF Modes, Autonomous
  <2> QED  BY <2>1, <2>2, <2>3 DEF Autonomous
<1> QED  BY <1>5, <1>6, <1>7 DEF rules

(***************************************************************************)
(* A draft for more payments is judged no laxer than the action.           *)
(***************************************************************************)
LEMMA DraftKeeps ==
    ASSUME NEW m \in Merchants, NEW kind \in Kinds, NEW all \in BOOLEAN, NEW hour \in Hours,
           DraftVerdict[m][kind][all][hour] = "allow"
    PROVE  Verdict[m][kind][hour] = "allow"
<1> DEFINE rules == RulesOf[m]
           amount == IF all /\ kind # "do_nothing" THEN Total[m] ELSE Exposure(m, kind)
           c == Context(m, kind, Exposure(m, kind), hour)
           d == Context(m, kind, amount, hour)
<1>1. Evaluate(rules, d) = "allow"
  BY DEF DraftVerdict, DraftRules
<1>2. /\ c.amount = Exposure(m, kind) /\ d.amount = amount
      /\ c.minutes = d.minutes /\ Alike(c, d)
  BY DEF Context, Alike
<1>3. /\ Exposure(m, kind) \in Nat /\ amount \in Nat
      /\ Exposure(m, kind) <= amount
  BY ExposureRange
<1>4. rules.amount_cap \in Int
  <2>1. Complete(rules)
    BY RulesInForce
  <2> QED  BY <2>1 DEF Complete
<1>5. Evaluate(rules, c) = "allow" => Verdict[m][kind][hour] = "allow"
  BY DEF Verdict
<1> HIDE DEF rules, c, d, amount
<1>6. ~ (c.minutes < rules.cooldown_ok)
  BY <1>1, <1>2, AllowedKeeps, NoneFails
<1>7. Evaluate(rules, c) = "allow"
  BY <1>1, <1>2, <1>3, <1>4, <1>6, LessIsAllowed
<1> QED  BY <1>5, <1>7

(***************************************************************************)
(* What the page of an incident and a preview show is the verdict, where   *)
(* the cooldown asks for no more than an hour.                             *)
(***************************************************************************)
LEMMA LongAgoKeeps ==
    ASSUME NEW m \in Merchants, NEW kind \in Kinds, NEW hour \in Hours, kind # "do_nothing",
           RulesOf[m].cooldown_ok <= 60,
           NEW d, d.amount = Exposure(m, kind),
           Alike(Context(m, kind, Exposure(m, kind), hour), d),
           Evaluate(RulesOf[m], d) = "allow"
    PROVE  Verdict[m][kind][hour] = "allow"
<1> DEFINE rules == RulesOf[m]
           c == Context(m, kind, Exposure(m, kind), hour)
<1>1. Evaluate(rules, c) = "allow" => Verdict[m][kind][hour] = "allow"
  BY DEF Verdict
<1>2. c.amount = Exposure(m, kind) /\ c.minutes = 60
  BY DEF Context
<1>3. Exposure(m, kind) \in Nat
  BY ExposureRange
<1>4. rules.amount_cap \in Int /\ ~ (c.minutes < rules.cooldown_ok)
  <2>1. Complete(rules)
    BY RulesInForce
  <2>2. rules.amount_cap \in Int /\ rules.cooldown_ok \in Int
    BY <2>1 DEF Complete
  <2> QED  BY <1>2, <2>2
<1>5. Evaluate(rules, c) = "allow"
  <2>1. Alike(c, d) /\ Evaluate(rules, d) = "allow" /\ d.amount = Exposure(m, kind)
    OBVIOUS
  <2>2. c.amount \in Nat /\ d.amount \in Nat /\ c.amount <= d.amount
    BY <1>2, <1>3
  <2> HIDE DEF rules, c
  <2> QED  BY <2>1, <2>2, <1>4, LessIsAllowed
<1> QED  BY <1>1, <1>5

LEMMA ShownKeeps ==
    ASSUME NEW m \in Merchants, NEW kind \in Kinds, NEW hour \in Hours, kind # "do_nothing",
           RulesOf[m].cooldown_ok <= 60, Shown[m][kind][hour] = "allow"
    PROVE  Verdict[m][kind][hour] = "allow"
<1> DEFINE d == [Context(m, "retry_burst", Exposure(m, kind), hour) EXCEPT
                    !.kind = kind, !.minutes = 9999]
<1>1. Evaluate(RulesOf[m], d) = "allow"
  BY DEF Shown
<1>2. Alike(Context(m, kind, Exposure(m, kind), hour), d) /\ d.amount = Exposure(m, kind)
  BY DEF Context, Alike
<1> HIDE DEF d
<1> QED  BY <1>1, <1>2, LongAgoKeeps

LEMMA PreviewKeeps ==
    ASSUME NEW m \in Merchants, NEW kind \in Kinds, NEW hour \in Hours, kind # "do_nothing",
           RulesOf[m].cooldown_ok <= 60, Preview(m, kind, RulesOf[m], hour) = "allow"
    PROVE  Verdict[m][kind][hour] = "allow"
<1> DEFINE d == [mode |-> Mode[m], kind |-> kind, amount |-> Exposure(m, kind), attempts |-> 1,
                 contacts |-> 0, minutes |-> 9999, healthy |-> TRUE, consent |-> TRUE,
                 mandate |-> TRUE, authority |-> TRUE, hour |-> hour]
<1>1. Evaluate(RulesOf[m], d) = "allow"
  <2>1. MergeRules(RulesOf[m]) = RulesOf[m]
    BY RulesInForce DEF Complete
  <2> QED  BY <2>1 DEF Preview
<1>2. Alike(Context(m, kind, Exposure(m, kind), hour), d) /\ d.amount = Exposure(m, kind)
  <2> DEFINE c == Context(m, kind, Exposure(m, kind), hour)
  <2>1. c.healthy = TRUE /\ c.consent = TRUE /\ c.mandate = TRUE /\ c.authority = TRUE
    BY DEF Context
  <2>2. /\ c.mode = Mode[m] /\ c.kind = kind /\ c.attempts = 1 /\ c.contacts = 0
        /\ c.hour = hour
    BY DEF Context
  <2>3. d.healthy = TRUE /\ d.consent = TRUE /\ d.mandate = TRUE /\ d.authority = TRUE
    OBVIOUS
  <2>4. /\ d.mode = Mode[m] /\ d.kind = kind /\ d.attempts = 1 /\ d.contacts = 0
        /\ d.hour = hour /\ d.amount = Exposure(m, kind)
    OBVIOUS
  <2> HIDE DEF c, d
  <2>5. c.healthy = d.healthy /\ c.consent = d.consent
    BY <2>1, <2>3, Zenon
  <2>6. c.mandate = d.mandate /\ c.authority = d.authority
    BY <2>1, <2>3, Zenon
  <2>7. Alike(c, d)
    BY <2>2, <2>4, <2>5, <2>6, Zenon DEF Alike
  <2> QED  BY <2>4, <2>7 DEF c
<1> HIDE DEF d
<1> QED  BY <1>1, <1>2, LongAgoKeeps

------------------------------------------------------------------------------
(* The human ids of an organization.                                       *)

\* InOrg for any sequence of incidents.
RowsIn(rows, org) == {i \in DOMAIN rows : OrgOf[rows[i].merchant] = org}

UpTo(rows, org, i) == {j \in RowsIn(rows, org) : j <= i}

\* Numbered in the order of the commits, without a gap.
Numbered(rows, org) ==
    \A i \in RowsIn(rows, org) : rows[i].number = Cardinality(UpTo(rows, org, i))

LEMMA RowsInFinite ==
    ASSUME NEW rows \in Seq(IncidentRow), NEW org
    PROVE  /\ RowsIn(rows, org) \subseteq 1 .. Len(rows)
           /\ IsFiniteSet(RowsIn(rows, org))
           /\ Cardinality(RowsIn(rows, org)) \in Nat
           /\ \A i : /\ IsFiniteSet(UpTo(rows, org, i))
                    /\ Cardinality(UpTo(rows, org, i)) \in Nat
<1>1. RowsIn(rows, org) \subseteq 1 .. Len(rows)
  BY DEF RowsIn
<1>2. Len(rows) \in Int /\ 1 \in Int
  OBVIOUS
<1>3. IsFiniteSet(1 .. Len(rows))
  BY <1>2, FS_Interval
<1>4. IsFiniteSet(RowsIn(rows, org))
  BY <1>1, <1>3, FS_Subset
<1>5. \A i : UpTo(rows, org, i) \in SUBSET RowsIn(rows, org)
  BY DEF UpTo
<1>6. \A i : IsFiniteSet(UpTo(rows, org, i))
  BY <1>4, <1>5, FS_Subset
<1> QED  BY <1>1, <1>4, <1>6, FS_CardinalityType

(***************************************************************************)
(* Without a gap, the ids are those from 1 to the number of the incidents. *)
(***************************************************************************)
LEMMA NumbersCover ==
    ASSUME NEW rows \in Seq(IncidentRow), NEW org, Numbered(rows, org)
    PROVE  LET c == Cardinality(RowsIn(rows, org))
           IN  /\ \A i \in RowsIn(rows, org) : rows[i].number \in 1 .. c
               /\ \A n \in 1 .. c : \E i \in RowsIn(rows, org) : rows[i].number = n
<1> DEFINE S == RowsIn(rows, org)
           c == Cardinality(S)
           f == [i \in S |-> Cardinality(UpTo(rows, org, i))]
<1>1. S \subseteq 1 .. Len(rows) /\ IsFiniteSet(S) /\ c \in Nat
  BY RowsInFinite
<1>2. ASSUME NEW i \in S
      PROVE  f[i] \in 1 .. c
  <2>1. UpTo(rows, org, i) \in SUBSET S
    BY DEF UpTo
  <2>2. Cardinality(UpTo(rows, org, i)) <= c
    BY <1>1, <2>1, FS_Subset
  <2>3. i \in UpTo(rows, org, i)
    BY <1>1 DEF UpTo
  <2>4. Cardinality(UpTo(rows, org, i)) # 0
    BY <2>3, RowsInFinite, FS_EmptySet
  <2>5. Cardinality(UpTo(rows, org, i)) \in Nat
    BY RowsInFinite
  <2> QED  BY <1>1, <2>2, <2>4, <2>5
<1>3. ASSUME NEW i \in S, NEW j \in S, i < j
      PROVE  f[i] < f[j]
  <2>1. UpTo(rows, org, i) \in SUBSET UpTo(rows, org, j)
    BY <1>1, <1>3 DEF UpTo
  <2>2. j \in UpTo(rows, org, j) /\ j \notin UpTo(rows, org, i)
    BY <1>1, <1>3 DEF UpTo
  <2>3. /\ Cardinality(UpTo(rows, org, i)) <= Cardinality(UpTo(rows, org, j))
        /\ Cardinality(UpTo(rows, org, i)) # Cardinality(UpTo(rows, org, j))
    BY <2>1, <2>2, RowsInFinite, FS_Subset
  <2>4. Cardinality(UpTo(rows, org, i)) \in Nat /\ Cardinality(UpTo(rows, org, j)) \in Nat
    BY RowsInFinite
  <2> QED  BY <2>3, <2>4
<1>4. f \in Injection(S, 1 .. c)
  <2>1. \A i, j \in S : f[i] = f[j] => i = j
    <3> SUFFICES ASSUME NEW i \in S, NEW j \in S, f[i] = f[j], i # j
                 PROVE  FALSE
      OBVIOUS
    <3>1. i < j \/ j < i
      BY <1>1
    <3>2. f[i] \in Nat /\ f[j] \in Nat
      BY RowsInFinite
    <3> HIDE DEF f
    <3> QED  BY <3>1, <3>2, <1>3
  <2>2. f \in [S -> 1 .. c]
    BY <1>2
  <2> HIDE DEF f
  <2> QED  BY <2>1, <2>2 DEF Injection, IsInjective
<1>5. f \in Surjection(S, 1 .. c)
  <2>1. IsFiniteSet(1 .. c) /\ Cardinality(1 .. c) = c
    BY <1>1, FS_Interval
  <2> HIDE DEF f, S
  <2> QED  BY <1>1, <1>4, <2>1, FS_Injection
<1>6. \A n \in 1 .. c : \E i \in S : f[i] = n
  <2> HIDE DEF f
  <2> QED  BY <1>5 DEF Surjection
<1>7. \A i \in S : rows[i].number = f[i]
  BY DEF Numbered
<1> HIDE DEF f
<1> QED  BY <1>2, <1>6, <1>7

\* Incidents of the organization own, which have the next ids.
Continue(rows, new, own) ==
    \A k \in DOMAIN new : /\ OrgOf[new[k].merchant] = own
                         /\ new[k].number = Cardinality(RowsIn(rows, own)) + k

(***************************************************************************)
(* Incidents that are appended with the next ids keep the ids without a    *)
(* gap; those of other organizations are not concerned.                    *)
(***************************************************************************)
LEMMA AppendNumbered ==
    ASSUME NEW rows \in Seq(IncidentRow), NEW new \in Seq(IncidentRow), NEW org, NEW own,
           Numbered(rows, org), Continue(rows, new, own)
    PROVE  /\ Numbered(rows \o new, org)
           /\ Cardinality(RowsIn(rows \o new, org)) =
                Cardinality(RowsIn(rows, org)) + IF org = own THEN Len(new) ELSE 0
<1> DEFINE n == Len(rows)
           all == rows \o new
           S == RowsIn(rows, org)
           T(d) == n+1 .. n+d
<1>0. \A k \in DOMAIN new : /\ OrgOf[new[k].merchant] = own
                            /\ org = own => new[k].number = Cardinality(RowsIn(rows, org)) + k
  BY DEF Continue
<1>1. /\ n \in Nat /\ Len(new) \in Nat /\ Len(all) = n + Len(new) /\ all \in Seq(IncidentRow)
      /\ DOMAIN all = 1 .. (n + Len(new)) /\ DOMAIN new = 1 .. Len(new) /\ DOMAIN rows = 1 .. n
      /\ \A i \in 1 .. n : all[i] = rows[i]
      /\ \A d \in 1 .. Len(new) : all[n + d] = new[d]
  OBVIOUS
<1>2. S \subseteq 1 .. n /\ IsFiniteSet(S)
  BY RowsInFinite
<1>3. ASSUME NEW i \in 1 .. n
      PROVE  /\ i \in RowsIn(all, org) <=> i \in S
             /\ UpTo(all, org, i) = UpTo(rows, org, i)
  <2> HIDE DEF all
  <2> QED  BY <1>1 DEF RowsIn, UpTo
<1>4. CASE org # own
  <2>1. RowsIn(all, org) = S
    <3>1. ASSUME NEW i \in DOMAIN all, i \notin 1 .. n
          PROVE  i \notin RowsIn(all, org)
      <4>1. i - n \in 1 .. Len(new) /\ i = n + (i - n)
        BY <1>1, <3>1
      <4>2. all[i] = new[i - n]
        BY <1>1, <4>1
      <4> HIDE DEF all
      <4> QED  BY <4>1, <4>2, <1>0, <1>1, <1>4 DEF RowsIn
    <3>2. RowsIn(all, org) \subseteq DOMAIN all
      BY DEF RowsIn
    <3> HIDE DEF all
    <3> QED  BY <3>1, <3>2, <1>1, <1>2, <1>3
  <2>2. Numbered(all, org)
    <3> HIDE DEF all
    <3> QED  BY <2>1, <1>1, <1>2, <1>3 DEF Numbered
  <2>3. Cardinality(S) + 0 = Cardinality(S)
    BY RowsInFinite
  <2> QED  BY <2>1, <2>2, <2>3, <1>4
<1>5. CASE org = own
  <2>1. ASSUME NEW d \in 1 .. Len(new)
        PROVE  n + d \in RowsIn(all, org)
    <3>1. n + d \in DOMAIN all /\ all[n + d] = new[d]
      BY <1>1
    <3>2. OrgOf[new[d].merchant] = org
      BY <1>0, <1>1, <1>5
    <3> HIDE DEF all
    <3> QED  BY <3>1, <3>2 DEF RowsIn
  <2>2. ASSUME NEW i \in RowsIn(all, org)
        PROVE  i \in S \/ (i - n \in 1 .. Len(new) /\ i = n + (i - n))
    <3>1. i \in 1 .. (n + Len(new))
      BY <1>1 DEF RowsIn
    <3> HIDE DEF all
    <3> QED  BY <3>1, <1>1, <1>3
  <2>3. ASSUME NEW d \in 0 .. Len(new)
        PROVE  UpTo(all, org, n + d) = S \cup T(d)
    <3>1. ASSUME NEW i \in UpTo(all, org, n + d) PROVE i \in S \cup T(d)
      <4>1. i \in RowsIn(all, org) /\ i <= n + d
        BY DEF UpTo
      <4> HIDE DEF S
      <4> QED  BY <4>1, <2>2, <1>1
    <3>2. ASSUME NEW i \in S PROVE i \in UpTo(all, org, n + d)
      <4>1. i \in 1 .. n
        BY <1>2
      <4>2. i <= n + d
        BY <4>1, <1>1
      <4> QED  BY <4>1, <4>2, <1>3 DEF UpTo
    <3>3. ASSUME NEW i \in T(d) PROVE i \in UpTo(all, org, n + d)
      <4>1. i - n \in 1 .. Len(new) /\ i = n + (i - n) /\ i <= n + d
        BY <1>1
      <4>2. i \in RowsIn(all, org)
        BY <2>1, <4>1
      <4> QED  BY <4>1, <4>2 DEF UpTo
    <3> HIDE DEF S, T, all
    <3> QED  BY <3>1, <3>2, <3>3
  <2>4. ASSUME NEW d \in 0 .. Len(new)
        PROVE  Cardinality(UpTo(all, org, n + d)) = Cardinality(S) + d
    <3>1. n + 1 \in Int /\ n + d \in Int
      BY <1>1
    <3>2. IsFiniteSet(T(d)) /\ Cardinality(T(d)) = d
      <4> DEFINE a == n + 1
                 b == n + d
      <4>1. a \in Int /\ b \in Int
        BY <3>1
      <4>2. (IF a > b THEN 0 ELSE b - a + 1) = d
        BY <1>1
      <4>3. IsFiniteSet(a .. b) /\ Cardinality(a .. b) = IF a > b THEN 0 ELSE b - a + 1
        <5> HIDE DEF a, b
        <5> QED  BY <4>1, FS_Interval
      <4> QED  BY <4>2, <4>3
    <3>3. S \cap T(d) = {}
      BY <1>1, <1>2
    <3>4. Cardinality(S \cap T(d)) = 0
      BY <3>3, FS_EmptySet
    <3>5. Cardinality(S) \in Nat
      BY RowsInFinite
    <3> HIDE DEF S, T, all
    <3>6. Cardinality(S \cup T(d)) = Cardinality(S) + Cardinality(T(d)) - Cardinality(S \cap T(d))
      BY <1>2, <3>2, FS_Union
    <3>7. Cardinality(S) + d - 0 = Cardinality(S) + d
      BY <3>5
    <3> QED  BY <2>3, <3>2, <3>4, <3>6, <3>7
  <2>5. Numbered(all, org)
    <3>1. ASSUME NEW i \in RowsIn(all, org), i \in S
          PROVE  all[i].number = Cardinality(UpTo(all, org, i))
      <4>1. i \in 1 .. n
        BY <3>1, <1>2
      <4>2. rows[i].number = Cardinality(UpTo(rows, org, i))
        BY <3>1 DEF Numbered
      <4> HIDE DEF all
      <4> QED  BY <4>1, <4>2, <1>1, <1>3
    <3>2. ASSUME NEW d \in 1 .. Len(new)
          PROVE  all[n + d].number = Cardinality(UpTo(all, org, n + d))
      <4>1. new[d].number = Cardinality(S) + d
        BY <1>0, <1>1, <1>5
      <4>2. d \in 0 .. Len(new)
        OBVIOUS
      <4> HIDE DEF all, S
      <4> QED  BY <4>1, <4>2, <2>4, <1>1
    <3> HIDE DEF all, S
    <3> QED  BY <3>1, <3>2, <2>2 DEF Numbered
  <2>6. RowsIn(all, org) = UpTo(all, org, n + Len(new))
    <3>1. \A i \in RowsIn(all, org) : i \in 1 .. (n + Len(new))
      BY <1>1 DEF RowsIn
    <3> HIDE DEF all
    <3> QED  BY <3>1, <1>1 DEF UpTo
  <2>7. Len(new) \in 0 .. Len(new)
    BY <1>1
  <2>8. Cardinality(RowsIn(all, org)) = Cardinality(S) + Len(new)
    BY <2>4, <2>6, <2>7
  <2> QED  BY <2>5, <2>8, <1>5
<1> QED  BY <1>4, <1>5

------------------------------------------------------------------------------
(* The invariant.                                                          *)

\* A sweep that is at an organization: what it visits and has opened is of that
\* organization, what it has opened takes the next ids, and the id it has counted
\* is at most the one after those.
SweepOK(p, rows) ==
    LET count == Cardinality(RowsIn(rows, Head(p.orgs)))
    IN  /\ p.orgs = <<>> => p = Idle
        /\ \A m \in p.todo : OrgOf[m] = Head(p.orgs)
        /\ p.at # "none" => p.at \in p.todo
        /\ \A k \in DOMAIN p.new : /\ p.new[k].state = "ACTION_PROPOSED"
                                  /\ OrgOf[p.new[k].merchant] = Head(p.orgs)
                                  /\ p.new[k].number = count + k
        /\ p.number # 0 => /\ p.at # "none"
                           /\ p.number <= count + Len(p.new) + 1
                           /\ p.new # <<>> => p.number = count + Len(p.new) + 1

\* Of the sweeps of one organization at most one has opened incidents.
OneOpens ==
    \A s, t \in Sweepers : s # t /\ proc[s].new # <<>> /\ proc[t].new # <<>> => OrgAt(s) # OrgAt(t)

SweepInv == TypeOK /\ (\A s \in Sweepers : SweepOK(proc[s], incidents)) /\ OneOpens

(***************************************************************************)
(* A step of a sweep that commits nothing.                                 *)
(***************************************************************************)
LEMMA SweepMoves ==
    ASSUME SweepInv, NEW s \in Sweepers, NEW p \in SweepState, SweepOK(p, incidents),
           proc' = [proc EXCEPT ![s] = p], UNCHANGED <<incidents, failing, operations, desk>>,
           p.new # <<>> => \A t \in Sweepers \ {s} : proc[t].new # <<>> => OrgAt(t) # Head(p.orgs)
    PROVE  SweepInv'
<1>1. proc \in [Sweepers -> SweepState]
  BY DEF SweepInv, TypeOK
<1>2. /\ proc' \in [Sweepers -> SweepState] /\ proc'[s] = p
      /\ \A t \in Sweepers \ {s} : proc'[t] = proc[t]
  BY <1>1
<1>3. TypeOK'
  BY <1>2 DEF SweepInv, TypeOK, InOrg
<1>4. ASSUME NEW t \in Sweepers
      PROVE  SweepOK(proc'[t], incidents')
  <2>1. CASE t = s
    BY <2>1, <1>2
  <2>2. CASE t # s
    BY <2>2, <1>2 DEF SweepInv
  <2> QED  BY <2>1, <2>2
<1>5. OneOpens'
  <2> SUFFICES ASSUME NEW t \in Sweepers, NEW u \in Sweepers, t # u,
                      proc'[t].new # <<>>, proc'[u].new # <<>>
               PROVE  Head(proc'[t].orgs) # Head(proc'[u].orgs)
    BY DEF OneOpens, OrgAt
  <2>1. CASE t = s
    BY <2>1, <1>2 DEF OrgAt
  <2>2. CASE u = s
    BY <2>2, <1>2 DEF OrgAt
  <2>3. CASE t # s /\ u # s
    BY <2>3, <1>2 DEF OrgAt, SweepInv, OneOpens
  <2> QED  BY <2>1, <2>2, <2>3
<1> QED  BY <1>3, <1>4, <1>5 DEF SweepInv

(***************************************************************************)
(* An incident that is written keeps its merchant and its id.              *)
(***************************************************************************)
LEMMA RowWritten ==
    ASSUME SweepInv, NEW i \in DOMAIN incidents, NEW inc \in IncidentRow,
           inc.merchant = incidents[i].merchant, inc.number = incidents[i].number,
           incidents' = [incidents EXCEPT ![i] = inc], UNCHANGED <<failing, proc>>,
           operations' \in [Merchants -> Nat],
           \A m \in Merchants : operations'[m] <= MaxOperations[m],
           desk' \in [Operators -> Request]
    PROVE  SweepInv'
<1>1. incidents \in Seq(IncidentRow)
  BY DEF SweepInv, TypeOK
<1>2. /\ incidents' \in Seq(IncidentRow) /\ DOMAIN incidents' = DOMAIN incidents
      /\ \A j \in DOMAIN incidents : /\ incidents'[j].merchant = incidents[j].merchant
                                     /\ incidents'[j].number = incidents[j].number
  BY <1>1
<1>3. \A org : RowsIn(incidents', org) = RowsIn(incidents, org)
  BY <1>2 DEF RowsIn
<1>4. TypeOK'
  <2>1. \A org : UNCHANGED InOrg(org)
    BY <1>2 DEF InOrg
  <2>2. \A org \in Orgs : \A j \in InOrg(org) :
          incidents'[j].number = Cardinality({k \in InOrg(org) : k <= j})
    <3>1. \A org \in Orgs : \A j \in InOrg(org) :
             incidents[j].number = Cardinality({k \in InOrg(org) : k <= j})
      BY DEF SweepInv, TypeOK
    <3>2. \A org : \A j \in InOrg(org) : j \in DOMAIN incidents
      BY DEF InOrg
    <3> QED  BY <1>2, <3>1, <3>2
  <2>3. \A org \in Orgs : \A j \in InOrg(org)' :
          incidents'[j].number = Cardinality({k \in InOrg(org)' : k <= j})
    BY <2>1, <2>2
  <2>4. failing' \subseteq Merchants /\ proc' \in [Sweepers -> SweepState]
    BY DEF SweepInv, TypeOK
  <2> QED  BY <2>3, <2>4, <1>2 DEF TypeOK
<1>5. \A s \in Sweepers : SweepOK(proc[s], incidents')
  BY <1>3 DEF SweepInv, SweepOK
<1>6. OneOpens'
  BY DEF SweepInv, OneOpens, OrgAt
<1> QED  BY <1>4, <1>5, <1>6 DEF SweepInv

------------------------------------------------------------------------------
(* What is requested.                                                      *)

\* An execution that the policy has judged.
Judged(m, ex) ==
    \E kind \in Kinds, by \in {"autopilot", "human"}, hour \in Hours : ex \in Requested(m, kind, by, hour)

LEMMA RequestedFacts ==
    ASSUME NEW m \in Merchants, NEW kind \in Kinds, NEW by \in {"autopilot", "human"},
           NEW hour \in Hours, NEW ex \in Requested(m, kind, by, hour)
    PROVE  /\ ex \in Execution /\ ex.kind = kind /\ ex.by = by
           /\ kind \in ContactActions => ex.hour = hour
           /\ ex.state \in Outcomes => Verdict[m][kind][hour] = "allow"
<1> DEFINE verdict == Verdict[m][kind][hour]
           states == CASE verdict = "block"            -> {"REJECTED_BY_POLICY"}
                       [] verdict = "require_approval" -> Waiting
                       [] verdict = "allow"            -> Outcomes
<1>1. verdict \in {"block", "require_approval", "allow"}
  BY DEF Verdict, Evaluate, Ladder
<1>2. PICK s \in states :
         ex = [kind |-> kind, by |-> by, hour |-> IF kind \in ContactActions THEN hour ELSE 0,
               state |-> s, approved |-> FALSE]
  BY DEF Requested
<1> HIDE DEF verdict
<1>3. /\ s \in Active \cup Stopped
      /\ s \in Outcomes => verdict = "allow"
  BY <1>1, <1>2, PolicyAssumption DEF Active, Running, Waiting, Stopped
<1>4. hour \in 0 .. 23 /\ 0 \in 0 .. 23
  BY IncidentAssumption
<1> HIDE DEF states
<1> QED  BY <1>2, <1>3, <1>4 DEF Execution, verdict

(***************************************************************************)
(* What starts at once keeps the rules in force.                           *)
(***************************************************************************)
LEMMA JudgedKeeps ==
    ASSUME NEW m \in Merchants, NEW ex, Judged(m, ex), ex.state \in Outcomes
    PROVE  /\ Exposure(m, ex.kind) <= RulesOf[m].amount_cap
           /\ ex.kind \in ContactActions => ~ Quiet(RulesOf[m].dnd_window_ok, ex.hour)
           /\ ex.kind \in MoneyActions =>
                 \/ Mode[m] = Autonomous
                 \/ Mode[m] = BoundedAutopilot /\ 2 * SliceValue(m) <= RulesOf[m].amount_cap
<1>1. PICK kind \in Kinds, by \in {"autopilot", "human"}, hour \in Hours :
         ex \in Requested(m, kind, by, hour)
  BY DEF Judged
<1>2. /\ ex.kind = kind /\ Verdict[m][kind][hour] = "allow"
      /\ kind \in ContactActions => ex.hour = hour
  BY <1>1, RequestedFacts
<1> QED  BY <1>2, VerdictKeeps

(***************************************************************************)
(* A sweep's commit appends what it has opened, with one judged execution  *)
(* each.                                                                   *)
(***************************************************************************)
LEMMA CommitAppends ==
    ASSUME SweepInv, NEW s \in Sweepers, Commits(s)
    PROVE  \E opened \in Seq(IncidentRow) :
              /\ incidents' = incidents \o opened
              /\ Len(opened) = Len(proc[s].new)
              /\ \A k \in DOMAIN opened :
                    /\ opened[k].merchant = proc[s].new[k].merchant
                    /\ opened[k].number = proc[s].new[k].number
                    /\ opened[k].state = "ACTION_PROPOSED"
                    /\ \E ex \in Execution : /\ Judged(opened[k].merchant, ex)
                                            /\ opened[k].execs = <<ex>>
<1> DEFINE new == proc[s].new
<1>1. new \in Seq(IncidentRow) /\ \A k \in DOMAIN new : new[k].state = "ACTION_PROPOSED"
  BY DEF SweepInv, TypeOK, SweepState, SweepOK
<1> DEFINE acts(hour, i) == Requested(new[i].merchant, new[i].best, "autopilot", hour)
<1>0. PICK hour \in Hours :
         \E act \in [DOMAIN new -> UNION {acts(hour, i) : i \in DOMAIN new}] :
            /\ \A i \in DOMAIN new : act[i] \in acts(hour, i)
            /\ incidents' = incidents \o [i \in DOMAIN new |-> [new[i] EXCEPT !.execs = <<act[i]>>]]
  BY DEF Commits
<1>2. PICK act \in [DOMAIN new -> UNION {acts(hour, i) : i \in DOMAIN new}] :
         /\ \A i \in DOMAIN new : act[i] \in acts(hour, i)
         /\ incidents' = incidents \o [i \in DOMAIN new |-> [new[i] EXCEPT !.execs = <<act[i]>>]]
  BY <1>0
<1> DEFINE opened == [i \in DOMAIN new |-> [new[i] EXCEPT !.execs = <<act[i]>>]]
<1>3. ASSUME NEW i \in DOMAIN new
      PROVE  /\ act[i] \in Execution
             /\ Judged(new[i].merchant, act[i])
             /\ [new[i] EXCEPT !.execs = <<act[i]>>] \in IncidentRow
             /\ opened[i].merchant = new[i].merchant /\ opened[i].number = new[i].number
             /\ opened[i].state = new[i].state /\ opened[i].execs = <<act[i]>>
  <2>1. new[i] \in IncidentRow
    BY <1>1
  <2>2. new[i].merchant \in Merchants /\ new[i].best \in Kinds
    BY <2>1 DEF IncidentRow
  <2>3. act[i] \in Requested(new[i].merchant, new[i].best, "autopilot", hour)
    BY <1>2
  <2>4. act[i] \in Execution /\ Judged(new[i].merchant, act[i])
    BY <2>2, <2>3, RequestedFacts DEF Judged
  <2>5. <<act[i]>> \in Seq(Execution)
    BY <2>4
  <2> HIDE DEF new
  <2>6. /\ [new[i] EXCEPT !.execs = <<act[i]>>] \in IncidentRow
        /\ opened[i].merchant = new[i].merchant /\ opened[i].number = new[i].number
        /\ opened[i].state = new[i].state /\ opened[i].execs = <<act[i]>>
    BY <2>1, <2>5 DEF IncidentRow
  <2> QED  BY <2>4, <2>6
<1>4. opened \in Seq(IncidentRow) /\ Len(opened) = Len(new) /\ DOMAIN opened = DOMAIN new
  <2>1. DOMAIN new = 1 .. Len(new) /\ Len(new) \in Nat
    BY <1>1
  <2> DEFINE n == Len(new)
  <2>2. opened \in [1 .. n -> IncidentRow]
    <3> HIDE DEF new, n
    <3> QED  BY <2>1, <1>3 DEF n
  <2>3. n \in Nat /\ DOMAIN new = 1 .. n
    BY <2>1
  <2> HIDE DEF opened, new, n
  <2>4. opened \in Seq(IncidentRow) /\ Len(opened) = n /\ DOMAIN opened = 1 .. n
    BY <2>2, <2>3
  <2> QED  BY <2>3, <2>4 DEF n
<1> HIDE DEF opened, new
<1>5. incidents' = incidents \o opened
  BY <1>2 DEF opened
<1> QED  BY <1>1, <1>3, <1>4, <1>5 DEF new

LEMMA VisitFacts ==
    ASSUME NEW orgs \in Seq(Orgs), NEW rows
    PROVE  /\ Visit(orgs) \in SweepState /\ Visit(orgs).new = <<>>
           /\ SweepOK(Visit(orgs), rows)
<1> DEFINE todo == {m \in Merchants : orgs # <<>> /\ OrgOf[m] = Head(orgs)}
<1>1. Visit(orgs) = [orgs |-> orgs, todo |-> todo, at |-> "none", number |-> 0, new |-> <<>>]
  BY DEF Visit
<1>2. /\ Visit(orgs).orgs = orgs /\ Visit(orgs).todo = todo /\ Visit(orgs).at = "none"
      /\ Visit(orgs).number = 0 /\ Visit(orgs).new = <<>>
  BY <1>1
<1>3. Visit(orgs) \in SweepState
  <2>1. todo \in SUBSET Merchants /\ <<>> \in Seq(IncidentRow)
    OBVIOUS
  <2> HIDE DEF todo
  <2> QED  BY <1>1, <2>1 DEF SweepState
<1>4. SweepOK(Visit(orgs), rows)
  <2>1. orgs = <<>> => Visit(orgs) = Idle
    BY <1>1 DEF Idle
  <2>2. \A k \in DOMAIN Visit(orgs).new : FALSE
    BY <1>2
  <2>3. \A m \in todo : OrgOf[m] = Head(orgs)
    OBVIOUS
  <2> HIDE DEF todo
  <2> QED  BY <1>2, <2>1, <2>2, <2>3 DEF SweepOK
<1> QED  BY <1>2, <1>3, <1>4

LEMMA IdleFacts ==
    ASSUME NEW rows
    PROVE  Idle \in SweepState /\ Idle.new = <<>> /\ SweepOK(Idle, rows)
<1>1. <<>> \in Seq(Orgs)
  OBVIOUS
<1> QED  BY <1>1, VisitFacts DEF Idle

(***************************************************************************)
(* A commit keeps the ids of every organization without a gap, and the     *)
(* other sweeps of its organization have opened nothing that it disturbs.  *)
(***************************************************************************)
LEMMA CommitKeeps ==
    ASSUME SweepInv, NEW s \in Sweepers, Commits(s)
    PROVE  SweepInv'
<1> DEFINE own == OrgAt(s)
           n == Len(proc[s].new)
<1>1. PICK opened \in Seq(IncidentRow) :
         /\ incidents' = incidents \o opened
         /\ Len(opened) = n
         /\ \A k \in DOMAIN opened :
               /\ opened[k].merchant = proc[s].new[k].merchant
               /\ opened[k].number = proc[s].new[k].number
  BY CommitAppends
<1>2. proc[s] \in SweepState /\ SweepOK(proc[s], incidents) /\ proc[s] # Idle
  BY DEF SweepInv, TypeOK, Commits
<1>3. proc[s].new \in Seq(IncidentRow) /\ proc[s].orgs \in Seq(Orgs) /\ proc[s].orgs # <<>>
  BY <1>2 DEF SweepState, SweepOK
<1>4. n \in Nat /\ Continue(incidents, opened, own)
  <2>1. \A k \in DOMAIN proc[s].new :
           /\ OrgOf[proc[s].new[k].merchant] = own
           /\ proc[s].new[k].number = Cardinality(RowsIn(incidents, own)) + k
    BY <1>2 DEF SweepOK, OrgAt
  <2>2. n \in Nat /\ DOMAIN opened = DOMAIN proc[s].new
    BY <1>1, <1>3
  <2> QED  BY <1>1, <2>1, <2>2 DEF Continue
<1>5. incidents \in Seq(IncidentRow) /\ \A org \in Orgs : Numbered(incidents, org)
  BY DEF SweepInv, TypeOK, Numbered, InOrg, RowsIn, UpTo
<1>6. ASSUME NEW org, Numbered(incidents, org)
      PROVE  /\ Numbered(incidents', org)
             /\ Cardinality(RowsIn(incidents', org)) =
                  Cardinality(RowsIn(incidents, org)) + IF org = own THEN n ELSE 0
  <2> HIDE DEF own, n
  <2>1. /\ Numbered(incidents \o opened, org)
        /\ Cardinality(RowsIn(incidents \o opened, org)) =
             Cardinality(RowsIn(incidents, org)) + IF org = own THEN Len(opened) ELSE 0
    <3>1. incidents \in Seq(IncidentRow) /\ Numbered(incidents, org)
      BY <1>5, <1>6
    <3> QED  BY <3>1, <1>4, AppendNumbered
  <2> QED  BY <2>1, <1>1
<1>7. /\ proc' \in [Sweepers -> SweepState] /\ proc'[s].new = <<>>
      /\ SweepOK(proc'[s], incidents')
      /\ \A t \in Sweepers \ {s} : proc'[t] = proc[t]
  <2>1. Tail(proc[s].orgs) \in Seq(Orgs)
    BY <1>3
  <2>2. proc \in [Sweepers -> SweepState] /\ proc' = [proc EXCEPT ![s] = Visit(Tail(proc[s].orgs))]
    BY DEF SweepInv, TypeOK, Commits
  <2>3. /\ Visit(Tail(proc[s].orgs)) \in SweepState /\ Visit(Tail(proc[s].orgs)).new = <<>>
        /\ SweepOK(Visit(Tail(proc[s].orgs)), incidents')
    BY <2>1, VisitFacts
  <2>4. proc'[s] = Visit(Tail(proc[s].orgs))
    BY <2>2
  <2> QED  BY <2>2, <2>3, <2>4
<1>8. TypeOK'
  <2>1. incidents' \in Seq(IncidentRow)
    BY <1>1, <1>5
  <2>2. failing' \subseteq Merchants /\ operations' = operations /\ desk' = desk
    BY DEF Commits, UnchangedWorld, SweepInv, TypeOK
  <2>3. \A org \in Orgs : Numbered(incidents', org)
    BY <1>5, <1>6
  <2> QED  BY <2>1, <2>2, <2>3, <1>7 DEF SweepInv, TypeOK, Numbered, InOrg, RowsIn, UpTo
<1>9. ASSUME NEW t \in Sweepers \ {s}
      PROVE  SweepOK(proc[t], incidents')
  <2> DEFINE p == proc[t]
             o == Head(p.orgs)
             before == Cardinality(RowsIn(incidents, o))
             after == Cardinality(RowsIn(incidents', o))
  <2>1. SweepOK(p, incidents) /\ p \in SweepState
    BY DEF SweepInv, TypeOK
  <2>2. CASE p.orgs = <<>>
    <3>1. p = Idle
      BY <2>1, <2>2 DEF SweepOK
    <3> QED  BY <3>1, IdleFacts
  <2>3. CASE p.orgs # <<>>
    <3>1. o \in Orgs
      BY <2>1, <2>3 DEF SweepState
    <3>2. before \in Nat /\ after = before + IF o = own THEN n ELSE 0
      BY <3>1, <1>5, <1>6, RowsInFinite
    <3>3. CASE p.new = <<>>
      <4>1. before <= after /\ after \in Nat
        BY <3>2, <1>4
      <4>2. p.number # 0 => p.number <= before + Len(p.new) + 1
        BY <2>1 DEF SweepOK
      <4>3. p.number \in Nat /\ Len(p.new) \in Nat
        BY <2>1 DEF SweepState
      <4>4. p.number # 0 => p.number <= after + Len(p.new) + 1
        BY <4>1, <4>2, <4>3, <3>2
      <4>5. \A k \in DOMAIN p.new : FALSE
        BY <3>3
      <4> QED  BY <2>1, <3>3, <4>4, <4>5 DEF SweepOK
    <3>4. CASE p.new # <<>>
      <4>1. o = own => n = 0
        <5>1. o = own => proc[s].new = <<>>
          BY <3>4 DEF SweepInv, OneOpens, OrgAt
        <5> QED  BY <5>1
      <4>2. after = before
        BY <4>1, <3>2
      <4> QED  BY <2>1, <4>2 DEF SweepOK
    <3> QED  BY <3>3, <3>4
  <2> QED  BY <2>2, <2>3
<1>10. \A t \in Sweepers : SweepOK(proc'[t], incidents')
  BY <1>7, <1>9
<1>11. OneOpens'
  BY <1>7 DEF SweepInv, OneOpens, OrgAt
<1> QED  BY <1>8, <1>10, <1>11 DEF SweepInv

(***************************************************************************)
(* A sweep that ends, in failure or at the last organization.              *)
(***************************************************************************)
LEMMA EndKeeps ==
    ASSUME SweepInv, NEW s \in Sweepers, NEW orgs \in Seq(Orgs),
           proc' = [proc EXCEPT ![s] = Visit(orgs)],
           UNCHANGED <<incidents, failing, operations, desk>>
    PROVE  SweepInv'
<1>1. /\ Visit(orgs) \in SweepState /\ Visit(orgs).new = <<>>
      /\ SweepOK(Visit(orgs), incidents)
  BY VisitFacts
<1> QED  BY <1>1, SweepMoves

(***************************************************************************)
(* Only the sweep that has the next id inserts; the others of its          *)
(* organization wait or fail.                                              *)
(***************************************************************************)
LEMMA InsertKeeps ==
    ASSUME SweepInv, NEW s \in Sweepers, Inserts(s)
    PROVE  SweepInv'
<1> DEFINE p == proc[s]
           o == Head(p.orgs)
           count == Cardinality(RowsIn(incidents, o))
<1>1. p \in SweepState /\ SweepOK(p, incidents) /\ p.number # 0
  BY DEF SweepInv, TypeOK, Inserts
<1>2. /\ p.at # "none" /\ p.at \in p.todo /\ p.at \in Merchants /\ OrgOf[p.at] = o
      /\ p.number \in Nat /\ p.new \in Seq(IncidentRow) /\ p.todo \subseteq Merchants
      /\ p.orgs \in Seq(Orgs) /\ p.orgs # <<>> /\ o \in Orgs
  <2>1. p.at \in p.todo /\ OrgOf[p.at] = o
    BY <1>1 DEF SweepOK
  <2>2. p.orgs # <<>>
    <3>1. Idle.todo = {}
      BY DEF Idle, Visit
    <3> QED  BY <2>1, <3>1, <1>1 DEF SweepOK
  <2>3. p.orgs \in Seq(Orgs)
    BY <1>1 DEF SweepState
  <2> QED  BY <2>1, <2>2, <2>3, <1>1 DEF SweepState, SweepOK
<1>3. count \in Nat
  BY RowsInFinite DEF SweepInv, TypeOK
<1>4. p.number = count + Len(p.new) + 1
  <2>1. CASE p.new # <<>>
    BY <2>1, <1>1 DEF SweepOK
  <2>2. CASE p.new = <<>>
    <3>1. p.number <= count + 1
      BY <2>2, <1>1, <1>3 DEF SweepOK
    <3>2. p.number \notin 1 .. count
      <4>1. incidents \in Seq(IncidentRow) /\ Numbered(incidents, o)
        BY <1>2 DEF SweepInv, TypeOK, Numbered, InOrg, RowsIn, UpTo
      <4>2. \A n \in 1 .. count : \E i \in RowsIn(incidents, o) : incidents[i].number = n
        BY <4>1, NumbersCover
      <4>3. ~ \E i \in RowsIn(incidents, o) : incidents[i].number = p.number
        BY DEF Inserts, Committed, InOrg, OrgAt, RowsIn
      <4> QED  BY <4>2, <4>3
    <3>3. Len(p.new) = 0
      BY <2>2
    <3> QED  BY <3>1, <3>2, <3>3, <1>1, <1>2, <1>3
  <2> QED  BY <2>1, <2>2
<1>5. ASSUME NEW t \in Sweepers \ {s}, proc[t].new # <<>>
      PROVE  OrgAt(t) # o
  <2> SUFFICES ASSUME OrgAt(t) = o PROVE FALSE
    OBVIOUS
  <2>1. p.new = <<>>
    BY <1>5 DEF SweepInv, OneOpens, OrgAt
  <2>2. proc[t] \in SweepState /\ SweepOK(proc[t], incidents)
    BY DEF SweepInv, TypeOK
  <2>3. proc[t].new \in Seq(IncidentRow)
    BY <2>2 DEF SweepState
  <2>4. 1 \in DOMAIN proc[t].new
    BY <2>3, <1>5
  <2>5. proc[t].new[1].number = count + 1
    BY <2>2, <2>4 DEF SweepOK, OrgAt
  <2>6. proc[t] # Idle
    BY <1>5, IdleFacts
  <2>7. p.number = count + 1
    <3>1. Len(p.new) = 0
      BY <2>1
    <3> QED  BY <3>1, <1>3, <1>4
  <2>8. Contended(s)
    BY <2>4, <2>5, <2>6, <2>7 DEF Contended, OrgAt
  <2> QED  BY <2>8 DEF Inserts
<1>6. PICK best \in Best[p.at] :
         proc' = [proc EXCEPT ![s] =
              [p EXCEPT !.todo = p.todo \ {p.at}, !.at = "none", !.number = 0,
                        !.new = Append(p.new, [merchant |-> p.at, number |-> p.number,
                                           best |-> best, state |-> "ACTION_PROPOSED",
                                           recent |-> TRUE, execs |-> <<>>])]]
  BY DEF Inserts
<1> DEFINE row == [merchant |-> p.at, number |-> p.number, best |-> best,
                   state |-> "ACTION_PROPOSED", recent |-> TRUE, execs |-> <<>>]
           q == [p EXCEPT !.todo = p.todo \ {p.at}, !.at = "none", !.number = 0,
                          !.new = Append(p.new, row)]
<1>7. row \in IncidentRow
  <2>1. best \in Kinds
    BY <1>2, IncidentAssumption
  <2>2. <<>> \in Seq(Execution)
    OBVIOUS
  <2> QED  BY <2>1, <2>2, <1>2 DEF IncidentRow
<1>8. /\ q.orgs = p.orgs /\ q.todo = p.todo \ {p.at} /\ q.at = "none" /\ q.number = 0
      /\ q.new = Append(p.new, row)
  <2> HIDE DEF row
  <2> QED  BY <1>1 DEF SweepState
<1>9. q \in SweepState
  <2>1. Append(p.new, row) \in Seq(IncidentRow) /\ p.todo \ {p.at} \in SUBSET Merchants
    BY <1>2, <1>7
  <2> HIDE DEF row
  <2> QED  BY <1>1, <2>1 DEF SweepState
<1>10. SweepOK(q, incidents)
  <2>1. ASSUME NEW k \in DOMAIN q.new
        PROVE  /\ q.new[k].state = "ACTION_PROPOSED"
               /\ OrgOf[q.new[k].merchant] = o
               /\ q.new[k].number = count + k
    <3>1. DOMAIN q.new = 1 .. (Len(p.new) + 1) /\ Len(p.new) \in Nat /\ DOMAIN p.new = 1 .. Len(p.new)
      <4> HIDE DEF row, q
      <4> QED  BY <1>2, <1>8
    <3>2. CASE k = Len(p.new) + 1
      <4>1. q.new[k] = row
        <5> HIDE DEF row, q
        <5> QED  BY <1>2, <1>8, <3>2
      <4>2. row.state = "ACTION_PROPOSED" /\ row.merchant = p.at /\ row.number = p.number
        OBVIOUS
      <4>3. p.number = count + k
        BY <1>3, <1>4, <3>1, <3>2
      <4> HIDE DEF row, q
      <4> QED  BY <4>1, <4>2, <4>3, <1>2
    <3>3. CASE k # Len(p.new) + 1
      <4>1. k \in DOMAIN p.new /\ q.new[k] = p.new[k]
        <5> HIDE DEF row, q
        <5> QED  BY <1>2, <1>8, <3>1, <3>3
      <4> HIDE DEF row, q
      <4> QED  BY <4>1, <1>1 DEF SweepOK
    <3> QED  BY <3>2, <3>3
  <2>2. \A m \in q.todo : OrgOf[m] = o
    BY <1>1, <1>8 DEF SweepOK
  <2> HIDE DEF row, q
  <2> QED  BY <1>2, <1>8, <2>1, <2>2 DEF SweepOK
<1>11. proc' = [proc EXCEPT ![s] = q] /\ UNCHANGED <<incidents, failing, operations, desk>>
  BY <1>6 DEF Inserts, UnchangedWorld
<1>12. \A t \in Sweepers \ {s} : proc[t].new # <<>> => OrgAt(t) # Head(q.orgs)
  BY <1>5, <1>8
<1> HIDE DEF q
<1> QED  BY <1>9, <1>10, <1>11, <1>12, SweepMoves

(***************************************************************************)
(* The looks of a sweep at a merchant, and its count.                      *)
(***************************************************************************)
LEMMA LookKeeps ==
    ASSUME SweepInv, NEW s \in Sweepers,
           (\E m \in Merchants : Passes(s, m) \/ Detects(s, m)) \/ Counts(s)
    PROVE  SweepInv'
<1> DEFINE p == proc[s]
           count == Cardinality(RowsIn(incidents, Head(p.orgs)))
<1>1. p \in SweepState /\ SweepOK(p, incidents)
  BY DEF SweepInv, TypeOK
<1>2. p.new # <<>> => \A t \in Sweepers \ {s} : proc[t].new # <<>> => OrgAt(t) # Head(p.orgs)
  BY DEF SweepInv, OneOpens, OrgAt
<1>3. p.orgs = <<>> => p = Idle
  BY <1>1 DEF SweepOK
<1>4. Idle.todo = {} /\ Idle.at = "none"
  BY DEF Idle, Visit
<1>5. ASSUME NEW m \in Merchants, Passes(s, m)
      PROVE  SweepInv'
  <2> DEFINE q == [p EXCEPT !.todo = @ \ {m}]
  <2>1. p.at = "none" /\ m \in p.todo
    BY <1>5 DEF Passes, Sweeping
  <2>2. /\ q.orgs = p.orgs /\ q.todo = p.todo \ {m} /\ q.at = p.at /\ q.number = p.number
        /\ q.new = p.new /\ q \in SweepState
    BY <1>1 DEF SweepState
  <2>3. proc' = [proc EXCEPT ![s] = q] /\ UNCHANGED <<incidents, failing, operations, desk>>
    BY <1>5 DEF Passes, UnchangedWorld
  <2> HIDE DEF q
  <2>4. SweepOK(q, incidents)
    BY <1>1, <1>3, <1>4, <2>1, <2>2 DEF SweepOK
  <2> QED  BY <1>2, <2>2, <2>3, <2>4, SweepMoves
<1>6. ASSUME NEW m \in Merchants, Detects(s, m)
      PROVE  SweepInv'
  <2> DEFINE q == [p EXCEPT !.at = m]
  <2>1. p.at = "none" /\ m \in p.todo
    BY <1>6 DEF Detects, Sweeping
  <2>2. /\ q.orgs = p.orgs /\ q.todo = p.todo /\ q.at = m /\ q.number = p.number
        /\ q.new = p.new /\ q \in SweepState
    BY <1>1 DEF SweepState
  <2>3. proc' = [proc EXCEPT ![s] = q] /\ UNCHANGED <<incidents, failing, operations, desk>>
    BY <1>6 DEF Detects, UnchangedWorld
  <2> HIDE DEF q
  <2>4. SweepOK(q, incidents)
    BY <1>1, <1>3, <1>4, <2>1, <2>2 DEF SweepOK
  <2> QED  BY <1>2, <2>2, <2>3, <2>4, SweepMoves
<1>7. ASSUME Counts(s)
      PROVE  SweepInv'
  <2> DEFINE n == NextHumanId(s)
             q == [p EXCEPT !.number = n]
  <2>1. p.at # "none"
    BY <1>7 DEF Counts
  <2>2. n = count + Len(p.new) + 1
    BY DEF NextHumanId, InOrg, RowsIn, OrgAt
  <2>3. n \in Nat
    <3>1. count \in Nat
      BY RowsInFinite DEF SweepInv, TypeOK
    <3>2. Len(p.new) \in Nat
      BY <1>1 DEF SweepState
    <3> QED  BY <2>2, <3>1, <3>2
  <2> HIDE DEF n
  <2>4. /\ q.orgs = p.orgs /\ q.todo = p.todo /\ q.at = p.at /\ q.number = n
        /\ q.new = p.new /\ q \in SweepState
    BY <1>1, <2>3 DEF SweepState
  <2>5. proc' = [proc EXCEPT ![s] = q] /\ UNCHANGED <<incidents, failing, operations, desk>>
    BY <1>7 DEF Counts, UnchangedWorld, n
  <2> HIDE DEF q
  <2>6. p.orgs # <<>>
    BY <1>3, <1>4, <2>1
  <2>7. SweepOK(q, incidents)
    BY <1>1, <2>1, <2>2, <2>3, <2>4, <2>6 DEF SweepOK
  <2> QED  BY <1>2, <2>4, <2>5, <2>7, SweepMoves
<1> QED  BY <1>5, <1>6, <1>7

------------------------------------------------------------------------------
(* What is written to an incident.                                         *)

\* Of the autopilot, what is not in E neither waits nor runs without an approval.
CalmBut(execs, E) ==
    \A e \in DOMAIN execs :
        e \notin E /\ execs[e].by = "autopilot" /\ execs[e].state \notin Stopped
            => execs[e].state \in Running /\ execs[e].approved

\* An incident becomes another: whose and which it is stays, what is new has been
\* judged, and nothing of the autopilot becomes active without an approval.
Evolves(old, new) ==
    /\ new \in IncidentRow /\ new.merchant = old.merchant /\ new.number = old.number
    /\ \A e \in DOMAIN new.execs \ DOMAIN old.execs : Judged(new.merchant, new.execs[e])
    /\ \A E : CalmBut(old.execs, E) => CalmBut(new.execs, E)

LEMMA ExecuteEvolves ==
    ASSUME NEW old \in IncidentRow, NEW kind \in Kinds, NEW hour \in Hours,
           NEW ex \in Requested(old.merchant, kind, "human", hour)
    PROVE  Evolves(old, [old EXCEPT !.execs = Append(@, ex)])
<1> DEFINE execs == Append(old.execs, ex)
           new == [old EXCEPT !.execs = execs]
<1>1. old.merchant \in Merchants /\ old.execs \in Seq(Execution)
  BY DEF IncidentRow
<1>2. ex \in Execution /\ ex.by = "human" /\ Judged(old.merchant, ex)
  BY <1>1, RequestedFacts DEF Judged
<1>3. /\ execs \in Seq(Execution)
      /\ \A e \in DOMAIN old.execs : execs[e] = old.execs[e]
      /\ \A e \in DOMAIN execs \ DOMAIN old.execs : execs[e] = ex
  BY <1>1, <1>2
<1> HIDE DEF execs
<1>4. /\ new \in IncidentRow /\ new.merchant = old.merchant /\ new.number = old.number
      /\ new.state = old.state /\ new.execs = execs
  BY <1>3 DEF IncidentRow
<1> HIDE DEF new
<1>5. \A e \in DOMAIN new.execs \ DOMAIN old.execs : Judged(new.merchant, new.execs[e])
  <2> SUFFICES ASSUME NEW e \in DOMAIN new.execs \ DOMAIN old.execs
               PROVE  Judged(new.merchant, new.execs[e])
    OBVIOUS
  <2>1. new.execs = execs /\ e \in DOMAIN execs \ DOMAIN old.execs
    BY <1>4
  <2>2. new.execs[e] = ex
    BY <1>3, <2>1
  <2> QED  BY <2>2, <1>2, <1>4
<1>6. \A E : CalmBut(old.execs, E) => CalmBut(new.execs, E)
  <2>1. \A e \in DOMAIN execs : \/ e \in DOMAIN old.execs /\ execs[e] = old.execs[e]
                               \/ execs[e].by # "autopilot"
    BY <1>2, <1>3
  <2> QED  BY <2>1, <1>4 DEF CalmBut
<1>7. Evolves(old, new)
  BY <1>4, <1>5, <1>6 DEF Evolves
<1> QED  BY <1>7 DEF new, execs

(***************************************************************************)
(* A commit that writes some executions: each was approved or is stopped.  *)
(***************************************************************************)
LEMMA ExecsWritten ==
    ASSUME NEW execs \in Seq(Execution), NEW next, next = [e \in DOMAIN execs |-> next[e]],
           \A e \in DOMAIN execs :
              \/ next[e] = execs[e]
              \/ /\ next[e] \in Execution /\ next[e].by = execs[e].by
                 /\ next[e].state \notin Stopped => next[e].state \in Running /\ next[e].approved
    PROVE  /\ next \in Seq(Execution) /\ DOMAIN next = DOMAIN execs
           /\ \A E : CalmBut(execs, E) => CalmBut(next, E)
<1> DEFINE n == Len(execs)
<1>1. n \in Nat /\ DOMAIN execs = 1 .. n /\ \A e \in 1 .. n : execs[e] \in Execution
  OBVIOUS
<1>2. DOMAIN next = 1 .. n /\ \A e \in 1 .. n : next[e] \in Execution
  BY <1>1
<1>3. next \in [1 .. n -> Execution]
  BY <1>1, <1>2
<1>4. next \in Seq(Execution)
  <2> HIDE DEF n
  <2> QED  BY <1>1, <1>3
<1>5. \A E : CalmBut(execs, E) => CalmBut(next, E)
  <2> SUFFICES ASSUME NEW E, CalmBut(execs, E), NEW e \in DOMAIN next,
                      e \notin E, next[e].by = "autopilot", next[e].state \notin Stopped
               PROVE  next[e].state \in Running /\ next[e].approved
    BY DEF CalmBut
  <2> HIDE DEF n
  <2> QED  BY <1>1, <1>2 DEF CalmBut
<1> QED  BY <1>1, <1>2, <1>4, <1>5

LEMMA RowTyped ==
    ASSUME SweepInv, NEW i \in DOMAIN incidents
    PROVE  /\ incidents[i] \in IncidentRow /\ i \in Nat /\ incidents[i].merchant \in Merchants
           /\ incidents[i].state \in {"ACTION_PROPOSED", "HALTED", "RESOLVED"}
           /\ incidents[i].execs \in Seq(Execution)
           /\ \A e \in DOMAIN incidents[i].execs : incidents[i].execs[e] \in Execution
<1>1. incidents \in Seq(IncidentRow)
  BY DEF SweepInv, TypeOK
<1>2. incidents[i] \in IncidentRow /\ i \in Nat
  BY <1>1
<1>3. /\ incidents[i].execs \in Seq(Execution) /\ incidents[i].merchant \in Merchants
      /\ incidents[i].state \in {"ACTION_PROPOSED", "HALTED", "RESOLVED"}
  BY <1>2 DEF IncidentRow
<1> QED  BY <1>2, <1>3

LEMMA ApproveEvolves ==
    ASSUME SweepInv, NEW i \in DOMAIN incidents, NEW E, NEW s \in Outcomes
    PROVE  /\ Evolves(incidents[i], [incidents[i] EXCEPT !.execs = Approving(i, E, s)])
           /\ [incidents[i] EXCEPT !.execs = Approving(i, E, s)].state = incidents[i].state
<1> DEFINE old == incidents[i]
           execs == Approving(i, E, s)
           new == [old EXCEPT !.execs = execs]
<1>1. old \in IncidentRow /\ old.execs \in Seq(Execution)
  BY RowTyped
<1>2. s \in Stopped \cup Running /\ s \in Active \cup Stopped
  BY PolicyAssumption DEF Running, Stopped, Active
<1>3. ASSUME NEW e \in DOMAIN old.execs
      PROVE  \/ execs[e] = old.execs[e]
             \/ /\ execs[e] \in Execution /\ execs[e].by = old.execs[e].by
                /\ execs[e].state \notin Stopped => execs[e].state \in Running /\ execs[e].approved
  <2> DEFINE ex == old.execs[e]
             next == [ex EXCEPT !.state = s, !.approved = TRUE]
  <2>1. ex \in Execution
    BY RowTyped
  <2>2. execs[e] = IF e \in E THEN next ELSE ex
    BY DEF Approving
  <2>3. next \in Execution /\ next.by = ex.by /\ next.state = s /\ next.approved
    <3> DEFINE half == [ex EXCEPT !.state = s]
    <3>1. half \in Execution /\ half.by = ex.by /\ half.state = s
      <4> HIDE DEF ex
      <4> QED  BY <1>2, <2>1 DEF Execution
    <3>2. next = [half EXCEPT !.approved = TRUE]
      OBVIOUS
    <3> HIDE DEF ex, next, half
    <3>3. next \in Execution /\ next.by = half.by /\ next.state = half.state /\ next.approved = TRUE
      BY <3>1, <3>2 DEF Execution
    <3> QED  BY <3>1, <3>3
  <2> HIDE DEF ex, next, execs
  <2>5. next.state \notin Stopped => next.state \in Running
    BY <1>2, <2>3
  <2>6. CASE e \in E
    <3>1. execs[e] = next
      BY <2>2, <2>6
    <3> QED  BY <2>3, <2>5, <3>1 DEF ex
  <2> QED  BY <2>2, <2>6 DEF ex
<1>4. execs = [e \in DOMAIN old.execs |-> execs[e]]
  BY DEF Approving
<1> HIDE DEF old, execs
<1>5. /\ execs \in Seq(Execution) /\ DOMAIN execs = DOMAIN old.execs
      /\ \A F : CalmBut(old.execs, F) => CalmBut(execs, F)
  BY <1>1, <1>3, <1>4, ExecsWritten
<1>6. /\ new \in IncidentRow /\ new.merchant = old.merchant /\ new.number = old.number
      /\ new.state = old.state /\ new.execs = execs
  BY <1>1, <1>5 DEF IncidentRow
<1> HIDE DEF new
<1>7. Evolves(old, new) /\ new.state = old.state
  BY <1>5, <1>6 DEF Evolves
<1> QED  BY <1>7 DEF old, execs, new

(***************************************************************************)
(* What a halt has written, no longer counts as still to be stopped.       *)
(***************************************************************************)
LEMMA HaltEvolves ==
    ASSUME SweepInv, NEW i \in DOMAIN incidents, NEW E,
           NEW state \in {"ACTION_PROPOSED", "HALTED", "RESOLVED"}
    PROVE  LET new == [incidents[i] EXCEPT !.execs = Stopping(i, E), !.state = state]
           IN  /\ Evolves(incidents[i], new)
               /\ \A F : CalmBut(incidents[i].execs, F) => CalmBut(new.execs, F \ E)
               /\ new.state = state
<1> DEFINE old == incidents[i]
           execs == Stopping(i, E)
           new == [old EXCEPT !.execs = execs, !.state = state]
<1>1. old \in IncidentRow /\ old.execs \in Seq(Execution)
  BY RowTyped
<1>2. "HALTED" \in Stopped
  BY DEF Stopped
<1>3. ASSUME NEW e \in DOMAIN old.execs
      PROVE  \/ execs[e] = old.execs[e] /\ e \notin E
             \/ /\ execs[e] \in Execution /\ execs[e].by = old.execs[e].by
                /\ execs[e].state \in Stopped
  <2>1. old.execs[e] \in Execution
    BY RowTyped
  <2>2. execs[e] = IF e \in E THEN [old.execs[e] EXCEPT !.state = "HALTED"] ELSE old.execs[e]
    BY DEF Stopping
  <2> QED  BY <1>2, <2>1, <2>2 DEF Execution
<1>4. execs = [e \in DOMAIN old.execs |-> execs[e]]
  BY DEF Stopping
<1> HIDE DEF old, execs
<1>5. /\ execs \in Seq(Execution) /\ DOMAIN execs = DOMAIN old.execs
      /\ \A F : CalmBut(old.execs, F) => CalmBut(execs, F)
  BY <1>1, <1>3, <1>4, ExecsWritten
<1>6. \A F : CalmBut(old.execs, F) => CalmBut(execs, F \ E)
  BY <1>3, <1>5 DEF CalmBut
<1>7. /\ new \in IncidentRow /\ new.merchant = old.merchant /\ new.number = old.number
      /\ new.state = state /\ new.execs = execs
  BY <1>1, <1>5 DEF IncidentRow
<1> HIDE DEF new
<1>8. /\ Evolves(old, new) /\ new.state = state
      /\ \A F : CalmBut(old.execs, F) => CalmBut(new.execs, F \ E)
  BY <1>5, <1>6, <1>7 DEF Evolves
<1> QED  BY <1>8 DEF old, execs, new

(***************************************************************************)
(* An operator's request, and the passing of time, let one incident        *)
(* evolve.                                                                 *)
(***************************************************************************)
\* The steps of a halt.
Halting(o, i) == HaltLooks(o, i) \/ HaltStops(o, i) \/ Halt(o, i)

\* What a step other than a halt's does about halts: nothing.
NoHalt(old, new) ==
    /\ new.state = "HALTED" => old.state = "HALTED"
    /\ \A o \in Operators : desk'[o] = desk[o] \/ desk'[o].does # "halt"

LEMMA AskedOnce ==
    ASSUME SweepInv, NEW i \in DOMAIN incidents, Asks(i)
    PROVE  /\ operations' \in [Merchants -> Nat]
           /\ \A m \in Merchants : operations'[m] <= MaxOperations[m]
<1> DEFINE m == incidents[i].merchant
<1>1. m \in Merchants
  BY RowTyped
<1>2. /\ operations \in [Merchants -> Nat] /\ MaxOperations \in [Merchants -> Nat]
      /\ \A l \in Merchants : operations[l] <= MaxOperations[l]
  BY IncidentAssumption DEF SweepInv, TypeOK
<1>3. operations[m] < MaxOperations[m] /\ operations' = [operations EXCEPT ![m] = operations[m] + 1]
  BY DEF Asks
<1> HIDE DEF m
<1>4. operations[m] \in Nat /\ MaxOperations[m] \in Nat
  BY <1>1, <1>2
<1>5. operations[m] + 1 \in Nat /\ operations[m] + 1 <= MaxOperations[m]
  BY <1>3, <1>4
<1> QED  BY <1>1, <1>2, <1>3, <1>5

LEMMA RequestTaken ==
    ASSUME SweepInv, NEW o \in Operators, NEW request \in Request,
           desk' = [desk EXCEPT ![o] = request]
    PROVE  /\ desk' \in [Operators -> Request] /\ desk'[o] = request
           /\ \A p \in Operators \ {o} : desk'[p] = desk[p]
BY DEF SweepInv, TypeOK

LEMMA NothingTaken == NoRequest \in Request /\ NoRequest.does = "nothing"
BY DEF NoRequest, Request

LEMMA LooksAreRequests ==
    ASSUME SweepInv, NEW i \in DOMAIN incidents, NEW o \in Operators
    PROVE  /\ ApproveLooks(o, i) => \E request \in Request :
                 request.does = "approve" /\ Loads(o, i, request)
           /\ HaltLooks(o, i) => \E request \in Request :
                 /\ request.does = "halt" /\ request.on = i /\ request.execs = ToHalt(i)
                 /\ Loads(o, i, request)
<1> DEFINE execs == incidents[i].execs
<1>1. /\ execs \in Seq(Execution) /\ i \in Nat
      /\ incidents[i].state \in {"ACTION_PROPOSED", "HALTED", "RESOLVED"}
  BY RowTyped
<1>2. Len(execs) \in Nat /\ DOMAIN execs = 1 .. Len(execs)
  BY <1>1
<1>3. ASSUME NEW S
      PROVE  InState(i, S) \subseteq Nat /\ \A e \in InState(i, S) : e <= Len(execs)
  BY <1>2 DEF InState
<1>4. ASSUME ApproveLooks(o, i)
      PROVE  \E request \in Request : request.does = "approve" /\ Loads(o, i, request)
  <2> DEFINE waiting == InState(i, Waiting)
             request == [does |-> "approve", on |-> i, execs |-> {Max(waiting)},
                         running |-> {}, open |-> FALSE]
  <2>1. waiting # {} /\ Loads(o, i, request)
    BY <1>4 DEF ApproveLooks
  <2>2. Max(waiting) \in waiting
    <3>1. waiting \subseteq Nat /\ \A e \in waiting : e <= Len(execs)
      BY <1>3
    <3> HIDE DEF waiting
    <3>2. \E x \in waiting : \A y \in waiting : y <= x
      BY <2>1, <1>2, <3>1, GreatestNat
    <3>3. \E x \in waiting : \A y \in waiting : x >= y
      BY <3>1, <3>2
    <3> QED  BY <3>3 DEF Max
  <2>3. {Max(waiting)} \in SUBSET Nat
    BY <1>3, <2>2
  <2> HIDE DEF waiting
  <2>4. request \in Request /\ request.does = "approve"
    BY <1>1, <2>3 DEF Request
  <2> QED  BY <2>1, <2>4
<1>5. ASSUME HaltLooks(o, i)
      PROVE  \E request \in Request :
                 /\ request.does = "halt" /\ request.on = i /\ request.execs = ToHalt(i)
                 /\ Loads(o, i, request)
  <2> DEFINE open == incidents[i].state # "HALTED"
             request == [does |-> "halt", on |-> i, execs |-> ToHalt(i),
                         running |-> InState(i, Running), open |-> open]
  <2>1. Loads(o, i, request)
    BY <1>5 DEF HaltLooks
  <2>2. ToHalt(i) \in SUBSET Nat /\ InState(i, Running) \in SUBSET Nat /\ open \in BOOLEAN
    BY <1>3 DEF ToHalt
  <2> HIDE DEF open
  <2>3. request \in Request /\ request.does = "halt" /\ request.on = i /\ request.execs = ToHalt(i)
    BY <1>1, <2>2 DEF Request
  <2> QED  BY <2>1, <2>3
<1> QED  BY <1>4, <1>5

\* A halt has written HALTED to the executions of E and has this left in hand.
HaltWrote(o, i, E, state, request) ==
    /\ incidents' = [incidents EXCEPT ![i] =
                       [incidents[i] EXCEPT !.execs = Stopping(i, E), !.state = state]]
    /\ UNCHANGED <<failing, proc, operations>>
    /\ desk' = [desk EXCEPT ![o] = request]
    /\ desk[o].does = "halt" /\ desk[o].on = i
    /\ \/ request.on = i /\ request.execs = desk[o].execs \ E /\ state = incidents[i].state
       \/ request = NoRequest /\ E = desk[o].execs

LEMMA HaltWrites ==
    ASSUME SweepInv, NEW i \in DOMAIN incidents, NEW o \in Operators,
           HaltStops(o, i) \/ Halt(o, i)
    PROVE  \E E \in SUBSET desk[o].execs, state \in {"ACTION_PROPOSED", "HALTED", "RESOLVED"},
              request \in Request : HaltWrote(o, i, E, state, request)
<1>1. desk[o] \in Request
  BY DEF SweepInv, TypeOK
<1>2. /\ incidents[i] \in IncidentRow
      /\ incidents[i].state \in {"ACTION_PROPOSED", "HALTED", "RESOLVED"}
  BY RowTyped
<1>3. CASE HaltStops(o, i)
  <2>1. PICK E \in SUBSET desk[o].execs :
           /\ Write(i, [incidents[i] EXCEPT !.execs = Stopping(i, E)])
           /\ desk' = [desk EXCEPT ![o].execs = @ \ E, ![o].running = @ \ E]
    BY <1>3 DEF HaltStops
  <2> DEFINE request == [desk[o] EXCEPT !.execs = @ \ E, !.running = @ \ E]
  <2>2. /\ request \in Request /\ request.on = desk[o].on
        /\ request.execs = desk[o].execs \ E
    BY <1>1 DEF Request
  <2>3. desk' = [desk EXCEPT ![o] = request]
    BY <2>1
  <2>4. [incidents[i] EXCEPT !.execs = Stopping(i, E)]
          = [incidents[i] EXCEPT !.execs = Stopping(i, E), !.state = incidents[i].state]
    BY <1>2 DEF IncidentRow
  <2>5. desk[o].does = "halt" /\ desk[o].on = i /\ UNCHANGED <<failing, proc, operations>>
    BY <1>3, <2>1 DEF HaltStops, Write
  <2> HIDE DEF request
  <2>6. HaltWrote(o, i, E, incidents[i].state, request)
    BY <2>1, <2>2, <2>3, <2>4, <2>5 DEF Write, HaltWrote
  <2> QED  BY <1>2, <2>2, <2>6
<1>4. CASE Halt(o, i)
  <2> DEFINE state == IF desk[o].open THEN "HALTED" ELSE incidents[i].state
             E == desk[o].execs
  <2>1. /\ Write(i, [incidents[i] EXCEPT !.execs = Stopping(i, E), !.state = state])
        /\ desk' = [desk EXCEPT ![o] = NoRequest]
        /\ desk[o].does = "halt" /\ desk[o].on = i /\ UNCHANGED operations
    BY <1>4 DEF Halt
  <2>2. state \in {"ACTION_PROPOSED", "HALTED", "RESOLVED"} /\ E \in SUBSET desk[o].execs
    BY <1>2
  <2>3. E = desk[o].execs
    OBVIOUS
  <2> HIDE DEF state, E
  <2>4. HaltWrote(o, i, E, state, NoRequest)
    BY <2>1, <2>3 DEF Write, HaltWrote
  <2> QED  BY <2>2, <2>4, NothingTaken
<1> QED  BY <1>3, <1>4

LEMMA OperatorStep ==
    ASSUME SweepInv, NEW i \in DOMAIN incidents, Operates(i) \/ Ages(i)
    PROVE  \E inc : /\ incidents' = [incidents EXCEPT ![i] = inc]
                    /\ Evolves(incidents[i], inc)
                    /\ UNCHANGED <<failing, proc>>
                    /\ operations' \in [Merchants -> Nat]
                    /\ \A m \in Merchants : operations'[m] <= MaxOperations[m]
                    /\ desk' \in [Operators -> Request]
                    /\ NoHalt(incidents[i], inc) \/ \E o \in Operators : Halting(o, i)
<1> DEFINE old == incidents[i]
           Goal(inc) ==
              /\ incidents' = [incidents EXCEPT ![i] = inc]
              /\ Evolves(old, inc)
              /\ UNCHANGED <<failing, proc>>
              /\ operations' \in [Merchants -> Nat]
              /\ \A m \in Merchants : operations'[m] <= MaxOperations[m]
              /\ desk' \in [Operators -> Request]
              /\ NoHalt(old, inc) \/ \E o \in Operators : Halting(o, i)
<1>1. old \in IncidentRow /\ incidents \in Seq(IncidentRow)
  BY DEF SweepInv, TypeOK
<1>2. /\ operations \in [Merchants -> Nat]
      /\ \A m \in Merchants : operations[m] <= MaxOperations[m]
      /\ desk \in [Operators -> Request]
  BY DEF SweepInv, TypeOK
<1>3. Evolves(old, old) /\ incidents = [incidents EXCEPT ![i] = old]
  BY <1>1 DEF Evolves
<1>4. ASSUME NEW kind \in Asked, Execute(i, kind)
      PROVE  \E inc : Goal(inc)
  <2>0. PICK hour \in Hours : \E ex \in Requested(old.merchant, kind, "human", hour) :
           Write(i, [old EXCEPT !.execs = Append(@, ex)])
    BY <1>4 DEF Execute
  <2>1. PICK ex \in Requested(old.merchant, kind, "human", hour) :
           Write(i, [old EXCEPT !.execs = Append(@, ex)])
    BY <2>0
  <2>2. kind \in Kinds
    BY IncidentAssumption DEF Kinds
  <2> DEFINE inc == [old EXCEPT !.execs = Append(@, ex)]
  <2>3. Evolves(old, inc) /\ inc.state = old.state
    BY <1>1, <2>0, <2>1, <2>2, ExecuteEvolves DEF IncidentRow
  <2>4. Asks(i) /\ UNCHANGED desk /\ Write(i, inc)
    BY <1>4, <2>1 DEF Execute
  <2> HIDE DEF inc, old
  <2>5. NoHalt(old, inc)
    BY <2>3, <2>4 DEF NoHalt
  <2> QED  BY <1>2, <2>3, <2>4, <2>5, AskedOnce DEF Write
<1>5. ASSUME NEW o \in Operators, ApproveLooks(o, i) \/ HaltLooks(o, i)
      PROVE  \E inc : Goal(inc)
  <2>1. PICK request \in Request :
           /\ Loads(o, i, request)
           /\ request.does = "approve" \/ HaltLooks(o, i)
    BY <1>5, LooksAreRequests
  <2>2. /\ desk' = [desk EXCEPT ![o] = request] /\ Asks(i)
        /\ UNCHANGED <<incidents, failing, proc>>
    BY <2>1 DEF Loads
  <2>3. /\ desk' \in [Operators -> Request] /\ desk'[o] = request
        /\ \A p \in Operators \ {o} : desk'[p] = desk[p]
    BY <2>2, RequestTaken
  <2> HIDE DEF old
  <2>4. NoHalt(old, old) \/ Halting(o, i)
    BY <2>1, <2>3 DEF NoHalt, Halting
  <2>5. Goal(old)
    BY <1>3, <2>2, <2>3, <2>4, AskedOnce
  <2> QED  BY <2>5
<1>6. ASSUME NEW o \in Operators, Approve(o, i)
      PROVE  \E inc : Goal(inc)
  <2>1. PICK s \in Outcomes : Write(i, [old EXCEPT !.execs = Approving(i, desk[o].execs, s)])
    BY <1>6 DEF Approve
  <2> DEFINE inc == [old EXCEPT !.execs = Approving(i, desk[o].execs, s)]
  <2>2. Evolves(old, inc) /\ inc.state = old.state
    BY ApproveEvolves
  <2>3. desk' = [desk EXCEPT ![o] = NoRequest] /\ UNCHANGED operations
    BY <1>6 DEF Approve
  <2>4. /\ desk' \in [Operators -> Request] /\ desk'[o].does = "nothing"
        /\ \A p \in Operators \ {o} : desk'[p] = desk[p]
    BY <2>3, NothingTaken, RequestTaken
  <2>5. Write(i, inc)
    BY <2>1
  <2> HIDE DEF inc, old
  <2>6. NoHalt(old, inc)
    BY <2>2, <2>4 DEF NoHalt
  <2> QED  BY <1>2, <2>2, <2>3, <2>4, <2>5, <2>6 DEF Write
<1>7. ASSUME NEW o \in Operators, HaltStops(o, i) \/ Halt(o, i)
      PROVE  \E inc : Goal(inc)
  <2>1. PICK E \in SUBSET desk[o].execs, state \in {"ACTION_PROPOSED", "HALTED", "RESOLVED"},
              request \in Request : HaltWrote(o, i, E, state, request)
    BY <1>7, HaltWrites
  <2> DEFINE inc == [old EXCEPT !.execs = Stopping(i, E), !.state = state]
  <2>2. Evolves(old, inc)
    BY HaltEvolves
  <2>3. desk' \in [Operators -> Request] /\ UNCHANGED <<failing, proc, operations>>
    BY <2>1, RequestTaken DEF HaltWrote
  <2>4. incidents' = [incidents EXCEPT ![i] = inc]
    BY <2>1 DEF HaltWrote
  <2>5. Halting(o, i)
    BY <1>7 DEF Halting
  <2> HIDE DEF inc, old
  <2> QED  BY <1>2, <2>2, <2>3, <2>4, <2>5
<1>8. ASSUME Resolve(i)
      PROVE  \E inc : Goal(inc)
  <2> DEFINE new == [old EXCEPT !.state = "RESOLVED"]
  <2>1. Write(i, new) /\ Asks(i) /\ UNCHANGED desk
    BY <1>8 DEF Resolve
  <2>2. /\ new \in IncidentRow /\ new.merchant = old.merchant /\ new.number = old.number
        /\ new.execs = old.execs /\ new.state = "RESOLVED"
    BY <1>1 DEF IncidentRow
  <2> HIDE DEF new, old
  <2>3. Evolves(old, new) /\ NoHalt(old, new)
    BY <2>1, <2>2 DEF Evolves, NoHalt
  <2> QED  BY <1>2, <2>1, <2>3, AskedOnce DEF Write
<1>9. ASSUME Ages(i)
      PROVE  \E inc : Goal(inc)
  <2> DEFINE new == [old EXCEPT !.recent = FALSE]
  <2>1. /\ new \in IncidentRow /\ new.merchant = old.merchant /\ new.number = old.number
        /\ new.execs = old.execs /\ new.state = old.state
    BY <1>1 DEF IncidentRow
  <2>2. /\ incidents' = [incidents EXCEPT ![i] = new]
        /\ UNCHANGED <<failing, proc, operations, desk>>
    BY <1>9 DEF Ages, Write
  <2> HIDE DEF new, old
  <2>3. Evolves(old, new) /\ NoHalt(old, new)
    BY <2>1, <2>2 DEF Evolves, NoHalt
  <2> QED  BY <1>2, <2>2, <2>3
<1> HIDE DEF Goal
<1>10. \E inc : Goal(inc)
  BY <1>4, <1>5, <1>6, <1>7, <1>8, <1>9 DEF Operates
<1> QED  BY <1>10 DEF Goal

------------------------------------------------------------------------------
(* The theorems.                                                           *)

LEMMA SweepInvInit == Init => SweepInv
<1> SUFFICES ASSUME Init PROVE SweepInv
  OBVIOUS
<1>1. /\ incidents = <<>> /\ failing = {} /\ proc = [s \in Sweepers |-> Idle]
      /\ operations = [m \in Merchants |-> 0] /\ desk = [o \in Operators |-> NoRequest]
  BY DEF Init
<1>2. TypeOK
  <2>1. incidents \in Seq(IncidentRow) /\ \A org : InOrg(org) = {}
    BY <1>1 DEF InOrg
  <2>2. proc \in [Sweepers -> SweepState]
    BY <1>1, IdleFacts
  <2>3. \A m \in Merchants : MaxOperations[m] \in Nat
    BY IncidentAssumption
  <2>4. NoRequest \in Request
    BY DEF NoRequest, Request
  <2> QED  BY <1>1, <2>1, <2>2, <2>3, <2>4 DEF TypeOK
<1>3. \A s \in Sweepers : SweepOK(proc[s], incidents)
  BY <1>1, IdleFacts
<1>4. OneOpens
  BY <1>1, IdleFacts DEF OneOpens
<1> QED  BY <1>2, <1>3, <1>4 DEF SweepInv

LEMMA SweepStepKeeps ==
    ASSUME SweepInv, NEW s \in Sweepers, SweepStep(s)
    PROVE  SweepInv'
<1>1. CASE SweepStarts(s)
  <2>1. Scope[s] \in Seq(Orgs)
    BY IncidentAssumption
  <2>2. proc' = [proc EXCEPT ![s] = Visit(Scope[s])] /\ UNCHANGED <<incidents, failing, operations, desk>>
    BY <1>1 DEF SweepStarts, UnchangedWorld
  <2> QED  BY <2>1, <2>2, EndKeeps
<1>2. CASE (\E m \in Merchants : FindsTwo(s, m)) \/ InsertFails(s)
  <2>1. proc' = [proc EXCEPT ![s] = Visit(<<>>)] /\ UNCHANGED <<incidents, failing, operations, desk>>
    BY <1>2 DEF FindsTwo, InsertFails, UnchangedWorld, Idle
  <2>2. <<>> \in Seq(Orgs)
    OBVIOUS
  <2> QED  BY <2>1, <2>2, EndKeeps
<1>3. CASE (\E m \in Merchants : Passes(s, m) \/ Detects(s, m)) \/ Counts(s)
  BY <1>3, LookKeeps
<1>4. CASE Inserts(s)
  BY <1>4, InsertKeeps
<1>5. CASE Commits(s)
  BY <1>5, CommitKeeps
<1> QED  BY <1>1, <1>2, <1>3, <1>4, <1>5 DEF SweepStep

LEMMA SweepInvNext == SweepInv /\ [Next]_vars => SweepInv'
<1> SUFFICES ASSUME SweepInv, [Next]_vars PROVE SweepInv'
  OBVIOUS
<1>1. ASSUME NEW s \in Sweepers, SweepStep(s) PROVE SweepInv'
  BY <1>1, SweepStepKeeps
<1>2. ASSUME NEW i \in DOMAIN incidents, Operates(i) \/ Ages(i) PROVE SweepInv'
  <2>1. PICK inc : /\ incidents' = [incidents EXCEPT ![i] = inc]
                   /\ Evolves(incidents[i], inc)
                   /\ UNCHANGED <<failing, proc>>
                   /\ operations' \in [Merchants -> Nat]
                   /\ \A m \in Merchants : operations'[m] <= MaxOperations[m]
                   /\ desk' \in [Operators -> Request]
    BY <1>2, OperatorStep
  <2>2. /\ inc \in IncidentRow /\ inc.merchant = incidents[i].merchant
        /\ inc.number = incidents[i].number
    BY <2>1 DEF Evolves
  <2> QED  BY <2>1, <2>2, RowWritten
<1>3. ASSUME NEW m \in Merchants, Fails(m) PROVE SweepInv'
  BY <1>3 DEF Fails, SweepInv, TypeOK, OneOpens, OrgAt, InOrg
<1>4. CASE UNCHANGED vars
  BY <1>4 DEF vars, SweepInv, TypeOK, OneOpens, OrgAt, InOrg
<1> QED  BY <1>1, <1>2, <1>3, <1>4 DEF Next

(***************************************************************************)
(* _next_human_id counts rows and the unique constraint refuses what was   *)
(* taken: however sweeps overlap, collide and fail, the ids of an          *)
(* organization's incidents are 1, 2, 3, ... in the order of the commits.  *)
(***************************************************************************)
THEOREM HumanIdsHaveNoGap == Spec => []TypeOK
<1>1. SweepInv => TypeOK
  BY DEF SweepInv
<1> QED  BY <1>1, SweepInvInit, SweepInvNext, PTL DEF Spec

(***************************************************************************)
(* What a step does to the records: nothing, one of them evolves, or a     *)
(* sweep appends new ones, each with one judged execution.                 *)
(***************************************************************************)
LEMMA RecordsMove ==
    ASSUME SweepInv, Next
    PROVE  \/ UNCHANGED incidents
           \/ \E i \in DOMAIN incidents : \E inc :
                 incidents' = [incidents EXCEPT ![i] = inc] /\ Evolves(incidents[i], inc)
           \/ \E opened \in Seq(IncidentRow) :
                 /\ incidents' = incidents \o opened
                 /\ \A k \in DOMAIN opened :
                       /\ opened[k].state = "ACTION_PROPOSED"
                       /\ \E ex \in Execution : /\ Judged(opened[k].merchant, ex)
                                               /\ opened[k].execs = <<ex>>
<1>1. ASSUME NEW i \in DOMAIN incidents, Operates(i) \/ Ages(i)
      PROVE  \E inc : incidents' = [incidents EXCEPT ![i] = inc] /\ Evolves(incidents[i], inc)
  BY <1>1, OperatorStep
<1>2. ASSUME NEW s \in Sweepers, Commits(s)
      PROVE  \E opened \in Seq(IncidentRow) :
                 /\ incidents' = incidents \o opened
                 /\ \A k \in DOMAIN opened :
                       /\ opened[k].state = "ACTION_PROPOSED"
                       /\ \E ex \in Execution : /\ Judged(opened[k].merchant, ex)
                                               /\ opened[k].execs = <<ex>>
  BY <1>2, CommitAppends
<1>3. ASSUME NEW s \in Sweepers, SweepStep(s), ~ Commits(s)
      PROVE  UNCHANGED incidents
  BY <1>3 DEF SweepStep, SweepStarts, Passes, FindsTwo, Detects, Counts, Inserts, InsertFails,
              UnchangedWorld
<1>4. ASSUME NEW m \in Merchants, Fails(m)
      PROVE  UNCHANGED incidents
  BY <1>4 DEF Fails
<1> QED  BY <1>1, <1>2, <1>3, <1>4 DEF Next

(***************************************************************************)
(* Where a record of the next state comes from.                            *)
(***************************************************************************)
LEMMA AppendedRow ==
    ASSUME NEW rows \in Seq(IncidentRow), NEW opened \in Seq(IncidentRow),
           NEW j \in DOMAIN (rows \o opened)
    PROVE  \/ j \in DOMAIN rows /\ (rows \o opened)[j] = rows[j]
           \/ /\ j \notin DOMAIN rows /\ j - Len(rows) \in DOMAIN opened
              /\ (rows \o opened)[j] = opened[j - Len(rows)]
<1>1. CASE j \in DOMAIN rows
  BY <1>1
<1>2. CASE j \notin DOMAIN rows
  BY <1>2
<1> QED  BY <1>1, <1>2

(***************************************************************************)
(* A halt loads what is active and commits later, in parts.  Calm says     *)
(* what stays true of an incident meanwhile: of the autopilot, only what   *)
(* the halt has still to write waits or runs without an approval, since    *)
(* nothing but an approval makes it run and nothing makes it wait.         *)
(***************************************************************************)
Calm ==
    /\ \A i \in DOMAIN incidents : incidents[i].state = "HALTED" => CalmBut(incidents[i].execs, {})
    /\ \A o \in Operators : desk[o].does = "halt" =>
          /\ desk[o].on \in DOMAIN incidents
          /\ CalmBut(incidents[desk[o].on].execs, desk[o].execs)

LEMMA CalmKept ==
    ASSUME SweepInv, Calm, NEW i \in DOMAIN incidents, NEW inc, Evolves(incidents[i], inc),
           incidents' = [incidents EXCEPT ![i] = inc],
           inc.state = "HALTED" => CalmBut(inc.execs, {}),
           \A o \in Operators : \/ desk'[o] = desk[o] \/ desk'[o].does # "halt"
                                \/ desk'[o].on = i /\ CalmBut(inc.execs, desk'[o].execs)
    PROVE  Calm'
<1>1. /\ DOMAIN incidents' = DOMAIN incidents /\ incidents'[i] = inc
      /\ \A j \in DOMAIN incidents \ {i} : incidents'[j] = incidents[j]
  BY DEF SweepInv, TypeOK
<1>2. \A j \in DOMAIN incidents' : incidents'[j].state = "HALTED" => CalmBut(incidents'[j].execs, {})
  BY <1>1 DEF Calm
<1>3. \A j \in DOMAIN incidents : \A E :
         CalmBut(incidents[j].execs, E) => CalmBut(incidents'[j].execs, E)
  BY <1>1 DEF Evolves
<1>4. ASSUME NEW o \in Operators, desk'[o].does = "halt"
      PROVE  /\ desk'[o].on \in DOMAIN incidents'
             /\ CalmBut(incidents'[desk'[o].on].execs, desk'[o].execs)
  <2>1. CASE desk'[o] = desk[o]
    BY <1>1, <1>3, <1>4, <2>1 DEF Calm
  <2>2. CASE desk'[o].on = i /\ CalmBut(inc.execs, desk'[o].execs)
    BY <1>1, <2>2
  <2> QED  BY <1>4, <2>1, <2>2
<1> QED  BY <1>2, <1>4 DEF Calm

LEMMA HaltingCalms ==
    ASSUME SweepInv, Calm, NEW i \in DOMAIN incidents, NEW o \in Operators, Halting(o, i)
    PROVE  Calm'
<1>1. incidents[i] \in IncidentRow /\ incidents \in Seq(IncidentRow)
  BY RowTyped DEF SweepInv, TypeOK
<1>2. CASE HaltLooks(o, i)
  <2>1. PICK request \in Request : /\ request.does = "halt" /\ request.on = i
                                   /\ request.execs = ToHalt(i) /\ Loads(o, i, request)
    BY <1>2, LooksAreRequests
  <2>2. desk' = [desk EXCEPT ![o] = request] /\ UNCHANGED incidents
    BY <2>1 DEF Loads
  <2>3. desk'[o] = request /\ \A p \in Operators \ {o} : desk'[p] = desk[p]
    BY <2>2, RequestTaken
  <2>4. CalmBut(incidents[i].execs, ToHalt(i))
    <3>1. \A e \in DOMAIN incidents[i].execs : incidents[i].execs[e].state \in Active \cup Stopped
      BY RowTyped DEF Execution
    <3> QED  BY <3>1 DEF CalmBut, ToHalt, InState
  <2>5. Evolves(incidents[i], incidents[i]) /\ incidents = [incidents EXCEPT ![i] = incidents[i]]
    BY <1>1 DEF Evolves
  <2>6. incidents[i].state = "HALTED" => CalmBut(incidents[i].execs, {})
    BY DEF Calm
  <2>7. \A p \in Operators : \/ desk'[p] = desk[p] \/ desk'[p].does # "halt"
                             \/ desk'[p].on = i /\ CalmBut(incidents[i].execs, desk'[p].execs)
    BY <2>1, <2>3, <2>4
  <2>8. incidents' = [incidents EXCEPT ![i] = incidents[i]]
    BY <2>2, <2>5
  <2> QED  BY <2>5, <2>6, <2>7, <2>8, CalmKept
<1>3. CASE HaltStops(o, i) \/ Halt(o, i)
  <2>1. PICK E \in SUBSET desk[o].execs, state \in {"ACTION_PROPOSED", "HALTED", "RESOLVED"},
              request \in Request : HaltWrote(o, i, E, state, request)
    BY <1>3, HaltWrites
  <2> DEFINE inc == [incidents[i] EXCEPT !.execs = Stopping(i, E), !.state = state]
  <2>2. /\ Evolves(incidents[i], inc) /\ inc.state = state
        /\ \A F : CalmBut(incidents[i].execs, F) => CalmBut(inc.execs, F \ E)
    BY HaltEvolves
  <2>3. incidents' = [incidents EXCEPT ![i] = inc]
    BY <2>1 DEF HaltWrote
  <2> HIDE DEF inc
  <2>4. CalmBut(incidents[i].execs, desk[o].execs)
    BY <2>1 DEF Calm, HaltWrote
  <2>5. CalmBut(inc.execs, desk[o].execs \ E)
    BY <2>2, <2>4
  <2>6. inc.state = "HALTED" => CalmBut(inc.execs, {})
    <3>1. CASE E = desk[o].execs
      <4>1. desk[o].execs \ E = {}
        BY <3>1
      <4> QED  BY <2>5, <4>1
    <3>2. CASE state = incidents[i].state
      BY <3>2, <2>2 DEF Calm, Evolves
    <3> QED  BY <2>1, <3>1, <3>2 DEF HaltWrote
  <2>7. desk'[o] = request /\ \A p \in Operators \ {o} : desk'[p] = desk[p]
    BY <2>1, RequestTaken DEF HaltWrote
  <2>8. \A p \in Operators : \/ desk'[p] = desk[p] \/ desk'[p].does # "halt"
                             \/ desk'[p].on = i /\ CalmBut(inc.execs, desk'[p].execs)
    BY <2>1, <2>5, <2>7, NothingTaken DEF HaltWrote
  <2> HIDE DEF HaltWrote
  <2> QED  BY <2>2, <2>3, <2>6, <2>8, CalmKept
<1> QED  BY <1>2, <1>3 DEF Halting

LEMMA CalmStep == SweepInv /\ Calm /\ [Next]_vars => Calm'
<1> SUFFICES ASSUME SweepInv, Calm, [Next]_vars PROVE Calm'
  OBVIOUS
<1>1. incidents \in Seq(IncidentRow)
  BY DEF SweepInv, TypeOK
<1>2. ASSUME NEW i \in DOMAIN incidents, Operates(i) \/ Ages(i)
      PROVE  Calm'
  <2>1. PICK inc : /\ incidents' = [incidents EXCEPT ![i] = inc]
                   /\ Evolves(incidents[i], inc)
                   /\ NoHalt(incidents[i], inc) \/ \E o \in Operators : Halting(o, i)
    BY <1>2, OperatorStep
  <2>2. CASE NoHalt(incidents[i], inc)
    <3>1. inc.state = "HALTED" => CalmBut(inc.execs, {})
      BY <2>1, <2>2 DEF NoHalt, Calm, Evolves
    <3>2. \A o \in Operators : desk'[o] = desk[o] \/ desk'[o].does # "halt"
      BY <2>2 DEF NoHalt
    <3> QED  BY <2>1, <3>1, <3>2, CalmKept
  <2> QED  BY <2>1, <2>2, HaltingCalms
<1>3. ASSUME NEW s \in Sweepers, Commits(s)
      PROVE  Calm'
  <2>1. PICK opened \in Seq(IncidentRow) :
           /\ incidents' = incidents \o opened
           /\ \A k \in DOMAIN opened : opened[k].state = "ACTION_PROPOSED"
    BY <1>3, CommitAppends
  <2>2. UNCHANGED desk
    BY <1>3 DEF Commits, UnchangedWorld
  <2>3. ASSUME NEW j \in DOMAIN incidents', incidents'[j].state = "HALTED"
        PROVE  CalmBut(incidents'[j].execs, {})
    <3>1. j \in DOMAIN incidents /\ incidents'[j] = incidents[j]
      BY <1>1, <2>1, <2>3, AppendedRow
    <3> QED  BY <2>3, <3>1 DEF Calm
  <2>4. \A j \in DOMAIN incidents : j \in DOMAIN incidents' /\ incidents'[j] = incidents[j]
    BY <1>1, <2>1
  <2> QED  BY <2>2, <2>3, <2>4 DEF Calm
<1>4. CASE UNCHANGED <<incidents, desk>>
  BY <1>4 DEF Calm
<1>5. ASSUME NEW s \in Sweepers, SweepStep(s), ~ Commits(s)
      PROVE  UNCHANGED <<incidents, desk>>
  BY <1>5 DEF SweepStep, SweepStarts, Passes, FindsTwo, Detects, Counts, Inserts, InsertFails,
              UnchangedWorld
<1>6. ASSUME NEW m \in Merchants, Fails(m)
      PROVE  UNCHANGED <<incidents, desk>>
  BY <1>6 DEF Fails
<1>7. CASE UNCHANGED vars
  BY <1>4, <1>7 DEF vars
<1> QED  BY <1>2, <1>3, <1>4, <1>5, <1>6, <1>7 DEF Next

(***************************************************************************)
(* However a halt overlaps approvals, resolutions and other halts, what it *)
(* leaves active on the incident an operator has approved.                 *)
(***************************************************************************)
THEOREM HaltLeavesApproved == Spec => []HaltStopsAutopilot
<1>1. Calm => HaltStopsAutopilot
  BY DEF Calm, CalmBut, HaltStopsAutopilot
<1>2. Init => Calm
  BY NothingTaken DEF Init, Calm
<1> QED  BY <1>1, <1>2, CalmStep, SweepInvInit, SweepInvNext, PTL DEF Spec

(***************************************************************************)
(* Whoever asks and whenever, what starts without an approval was judged   *)
(* by the rules in force and found within the cap, outside the quiet hours *)
(* and, where it moves money, within the mode.                             *)
(***************************************************************************)
THEOREM AutopilotKeepsRules == Spec => AutopilotWithinRules
<1> DEFINE Begun(i, e) == ~(i \in DOMAIN incidents /\ e \in DOMAIN incidents[i].execs)
           Keeps(m, ex) ==
             /\ Exposure(m, ex.kind) <= RulesOf[m].amount_cap
             /\ ex.kind \in ContactActions => ~Quiet(RulesOf[m].dnd_window_ok, ex.hour)
             /\ ex.kind \in MoneyActions =>
                   \/ Mode[m] = Autonomous
                   \/ Mode[m] = BoundedAutopilot /\ 2 * SliceValue(m) <= RulesOf[m].amount_cap
           Within ==
             \A i \in DOMAIN incidents' : \A e \in DOMAIN incidents'[i].execs :
                Begun(i, e) /\ incidents'[i].execs[e].state \in Outcomes
                   => Keeps(incidents'[i].merchant, incidents'[i].execs[e])
<1>1. SweepInv /\ [Next]_vars => [Within]_vars
  <2> SUFFICES ASSUME SweepInv, Next, NEW j \in DOMAIN incidents',
                      NEW e \in DOMAIN incidents'[j].execs, Begun(j, e),
                      incidents'[j].execs[e].state \in Outcomes
               PROVE  Keeps(incidents'[j].merchant, incidents'[j].execs[e])
    OBVIOUS
  <2>1. SweepInv'
    BY SweepInvNext
  <2>2. incidents \in Seq(IncidentRow) /\ incidents' \in Seq(IncidentRow)
    BY <2>1 DEF SweepInv, TypeOK
  <2>3. incidents'[j] \in IncidentRow /\ incidents'[j].merchant \in Merchants
    <3> HIDE DEF Begun, Keeps, Within
    <3>1. incidents'[j] \in IncidentRow
      BY <2>2
    <3> QED  BY <3>1 DEF IncidentRow
  <2>4. SUFFICES Judged(incidents'[j].merchant, incidents'[j].execs[e])
    BY <2>3, <2>4, JudgedKeeps
  <2>5. CASE UNCHANGED incidents
    BY <2>5
  <2>6. ASSUME NEW i \in DOMAIN incidents, NEW inc,
               incidents' = [incidents EXCEPT ![i] = inc], Evolves(incidents[i], inc)
        PROVE  Judged(incidents'[j].merchant, incidents'[j].execs[e])
    <3>1. j \in DOMAIN incidents /\ incidents'[j] = IF j = i THEN inc ELSE incidents[j]
      BY <2>6
    <3>2. j = i /\ incidents'[j] = inc /\ e \in DOMAIN inc.execs \ DOMAIN incidents[i].execs
      BY <3>1
    <3> QED  BY <2>6, <3>2 DEF Evolves
  <2>7. ASSUME NEW opened \in Seq(IncidentRow), incidents' = incidents \o opened,
               \A k \in DOMAIN opened :
                  \E ex \in Execution : Judged(opened[k].merchant, ex) /\ opened[k].execs = <<ex>>
        PROVE  Judged(incidents'[j].merchant, incidents'[j].execs[e])
    <3>1. j - Len(incidents) \in DOMAIN opened /\ incidents'[j] = opened[j - Len(incidents)]
      BY <2>2, <2>7, AppendedRow
    <3>2. PICK ex \in Execution : Judged(incidents'[j].merchant, ex) /\ incidents'[j].execs = <<ex>>
      BY <2>7, <3>1
    <3>3. e = 1
      BY <3>2
    <3> QED  BY <3>2, <3>3
  <2> HIDE DEF Begun
  <2> QED  BY <2>5, <2>6, <2>7, RecordsMove
<1>2. [Within]_vars => [\A i \in DOMAIN incidents' : \A e \in DOMAIN incidents'[i].execs :
          LET ex    == incidents'[i].execs[e]
              m     == incidents'[i].merchant
              begun == ~(i \in DOMAIN incidents /\ e \in DOMAIN incidents[i].execs)
              cap   == RulesOf[m].amount_cap
          IN  begun /\ ex.state \in Outcomes =>
                /\ Exposure(m, ex.kind) <= cap
                /\ ex.kind \in ContactActions => ~Quiet(RulesOf[m].dnd_window_ok, ex.hour)
                /\ ex.kind \in MoneyActions =>
                      \/ Mode[m] = Autonomous
                      \/ Mode[m] = BoundedAutopilot /\ 2 * SliceValue(m) <= cap]_vars
  OBVIOUS
<1> HIDE DEF Within
<1> QED  BY <1>1, <1>2, SweepInvInit, SweepInvNext, PTL DEF Spec, AutopilotWithinRules

(***************************************************************************)
(* What the commander, the incident's page and a preview say would be      *)
(* allowed, the executor allows: for every policy an organization can have *)
(* stored, and every incident that is open.                                *)
(***************************************************************************)
THEOREM NobodyIsLaxer == Spec => []DraftIsNotLaxer
<1>1. SweepInv => DraftIsNotLaxer
  <2> SUFFICES ASSUME SweepInv, NEW i \in DOMAIN incidents, NEW hour \in Hours
               PROVE  LET m == incidents[i].merchant
                      IN  /\ \A request \in Requests, all \in BOOLEAN :
                                Draft(i, request, all, hour) = "allow"
                                    => Verdict[m][DraftKind(i, request)][hour] = "allow"
                          /\ RulesOf[m].cooldown_ok <= 60 => \A kind \in Proposed(i) \ {"do_nothing"} :
                                "allow" \in {Shown[m][kind][hour], Previewed[m][kind][hour]}
                                    => Verdict[m][kind][hour] = "allow"
    BY DEF DraftIsNotLaxer
  <2> DEFINE m == incidents[i].merchant
  <2>1. incidents[i] \in IncidentRow
    BY DEF SweepInv, TypeOK
  <2>2. m \in Merchants /\ incidents[i].best \in Kinds
    BY <2>1 DEF IncidentRow
  <2>3. Proposed(i) \subseteq Kinds
    BY <2>2 DEF Proposed, Kinds, ActionKinds, ContactActions, MoneyActions
  <2> HIDE DEF m
  <2>4. ASSUME NEW request \in Requests, NEW all \in BOOLEAN,
               Draft(i, request, all, hour) = "allow"
        PROVE  Verdict[m][DraftKind(i, request)][hour] = "allow"
    <3>1. DraftKind(i, request) \in Kinds
      BY <2>2, <2>3 DEF DraftKind
    <3>2. DraftVerdict[m][DraftKind(i, request)][all][hour] = "allow"
      BY <2>4 DEF Draft, m
    <3> QED  BY <2>2, <3>1, <3>2, DraftKeeps
  <2>5. ASSUME RulesOf[m].cooldown_ok <= 60, NEW kind \in Proposed(i) \ {"do_nothing"},
               "allow" \in {Shown[m][kind][hour], Previewed[m][kind][hour]}
        PROVE  Verdict[m][kind][hour] = "allow"
    <3>1. kind \in Kinds /\ kind # "do_nothing"
      BY <2>3, <2>5
    <3>2. Previewed[m][kind][hour] = Preview(m, kind, RulesOf[m], hour)
      BY <2>2, <3>1 DEF Previewed
    <3> QED  BY <2>2, <2>5, <3>1, <3>2, ShownKeeps, PreviewKeeps
  <2> QED  BY <2>4, <2>5 DEF m
<1> QED  BY <1>1, SweepInvInit, SweepInvNext, PTL DEF Spec

==============================================================================
