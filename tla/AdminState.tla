----------------------------- MODULE AdminState ------------------------------
(***************************************************************************)
(* What administrators change: the versions of the policies                *)
(* (routers/policies.py), the stages of the models (routers/models.py,     *)
(* services/model_registry.py) and the webhook secrets of an integration   *)
(* (routers/integrations.py), which the worker retires when their grace is *)
(* over (services/reconciliation.py) and the ingress reads                 *)
(* (services/ingest.py).                                                   *)
(*                                                                         *)
(* Every request reads rows, decides on them and writes them in one        *)
(* transaction at READ COMMITTED that locks nothing it has read: it is a   *)
(* step that reads and a step that commits, and others may commit between. *)
(* A flush writes only the columns whose value differs from the one read.  *)
(*                                                                         *)
(* Audit records, outbox rows, names and route tokens are left out, and so *)
(* are the requests that are refused before they read anything.            *)
(***************************************************************************)
EXTENDS PolicyEngine, FiniteSetsExt

CONSTANTS
    Wrap,           \* after how many versions the counted ids start again: 990
    Rules,          \* the rules that are saved
    Statuses,       \* the statuses that are saved
    Models,         \* the versions of one model
    Stages,         \* the stages that are asked for
    Refs,           \* names of environment variables
    DefaultRef,     \* the one an integration gets when none is given
    Configured,     \* those that have a value
    Fallback,       \* the provider's own secret
    Grace,          \* how long a rotated secret is still accepted
    Admins,         \* sessions that handle requests
    MaxRequests,    \* bound on the requests
    MaxTime         \* bound on the clock

ASSUME AdminAssumption ==
    /\ Wrap \in Nat \ {0} /\ Grace \in Nat /\ MaxRequests \in Nat /\ MaxTime \in Nat
    /\ Statuses \subseteq {"live", "draft"} /\ Stages \subseteq {"VALIDATED", "CHAMPION", "ARCHIVED"}
    /\ DefaultRef \in Refs /\ Configured \subseteq Refs /\ Fallback \notin Refs
    /\ {"none", "raced"} \cap Models = {}

VARIABLES
    policies,     \* the policies table
    models,       \* the model_versions row of each version
    integration,  \* the integrations row
    session,      \* the request each admin is handling
    sweep,        \* the worker's reconciliation
    clock,
    requests,     \* how many requests have been made
    promoted,     \* history: the version last made CHAMPION, if nothing raced
    owed          \* history: the secret that was rotated last, until when it is to
                  \* be accepted, if nothing raced

adminVars == <<policies, models, integration, session, sweep, clock, requests, promoted, owed>>

None == "none"
AdminIdle == [op |-> "idle"]

\* A model_versions row that does not exist yet has no stage; at is promoted_at.
ModelRow == [stage : {None, "TRAINED", "VALIDATED", "CHAMPION", "ARCHIVED"},
             at : 0 .. MaxRequests]

\* Times are numbers and 0 is NULL.
IntegrationRow == [exists : BOOLEAN, current : Refs \cup {None},
                   previous : Refs \cup {None}, expires : 0 .. MaxTime + Grace]

AdminInit ==
    /\ policies = {}
    /\ models = [v \in Models |-> [stage |-> None, at |-> 0]]
    /\ integration = [exists |-> FALSE, current |-> None, previous |-> None, expires |-> 0]
    /\ session = [a \in Admins |-> AdminIdle]
    /\ sweep = AdminIdle
    /\ clock = 1
    /\ requests = 0
    /\ promoted = None
    /\ owed = {}

\* The unit of work: what a row becomes when a session that read it as seen
\* has set it to new.
Flush(row, seen, new) == [c \in DOMAIN row |-> IF new[c] = seen[c] THEN row[c] ELSE new[c]]

Reads(a, request) ==
    /\ session[a] = AdminIdle
    /\ requests < MaxRequests
    /\ session' = [session EXCEPT ![a] = request]
    /\ requests' = requests + 1
    /\ UNCHANGED <<policies, models, integration, sweep, clock, promoted, owed>>

Ends(a) == session' = [session EXCEPT ![a] = AdminIdle]

------------------------------------------------------------------------------
(* Policies.                                                               *)

NextPolicyId(rows) == 7 + (Cardinality(rows) % Wrap)

\* The unique constraint uq_policy_merchant_ver.
Taken(row) == \E p \in policies : /\ p.merchant = row.merchant
                                  /\ p.human = row.human
                                  /\ p.version = row.version

CreatePolicy(a, m, rules, status) ==
    /\ ValidRules(rules)
    /\ Reads(a, [op |-> "create",
                 row |-> [merchant |-> m, human |-> NextPolicyId(policies), version |-> 1,
                          status |-> status, rules |-> rules]])

\* The latest version under a human id, whichever merchant's; one of them when
\* there are several.
Latest(human) ==
    LET named == {p \in policies : p.human = human}
    IN  {p \in named : \A q \in named : q.version <= p.version}

\* Rules and status are kept when they are not given; given is the set of the
\* rules that are.
PatchPolicy(a, human, given, status) ==
    /\ \A rules \in given : ValidRules(rules)
    /\ \E latest \in Latest(human) :
           Reads(a, [op |-> "patch", latest |-> latest,
                     row |-> [latest EXCEPT !.version = @ + 1,
                                            !.status = IF status = None THEN @ ELSE status,
                                            !.rules = IF given = {} THEN @ ELSE CHOOSE rules \in given : TRUE]])

\* A plausible bug: the version that is replaced stays what it was.
Archived_Kept(row, latest) == policies \cup {row}

\* The policies after a patch; an update goes by the identity of the row.
Archived(row, latest) ==
    LET now == CHOOSE p \in policies : \A key \in {"merchant", "human", "version"} : p[key] = latest[key]
    IN  (policies \ {now}) \cup {[now EXCEPT !.status = "archived"], row}

CommitPolicy(a) ==
    /\ session[a].op \in {"create", "patch"}
    /\ ~Taken(session[a].row)
    /\ policies' = IF session[a].op = "create" THEN policies \cup {session[a].row}
                   ELSE Archived(session[a].row, session[a].latest)
    /\ Ends(a)
    /\ UNCHANGED <<models, integration, sweep, clock, requests, promoted, owed>>

\* The constraint refuses the row: the transaction is rolled back.
PolicyFails(a) ==
    /\ session[a].op \in {"create", "patch"}
    /\ Taken(session[a].row)
    /\ Ends(a)
    /\ UNCHANGED <<policies, models, integration, sweep, clock, requests, promoted, owed>>

\* The rows active_rules works on.
RowsOf(m) == {p \in policies : p.merchant = m}

------------------------------------------------------------------------------
(* Models.                                                                 *)

\* A training registers its result; a later one with its gates validates it.
Register(a, v, stage) ==
    /\ stage \in {"TRAINED", "VALIDATED"}
    /\ Reads(a, [op |-> "register", version |-> v, seen |-> models[v],
                 new |-> [models[v] EXCEPT !.stage =
                              IF @ = None \/ (@ = "TRAINED" /\ stage = "VALIDATED") THEN stage ELSE @]])

\* A plausible bug: the model is given its stage before the champions lose theirs.
Demoted_Last(seen, v, stage) == {w \in Models : stage = "CHAMPION" /\ (w = v \/ seen[w].stage = "CHAMPION")}

\* The champions a promotion has found and leaves archived.
Demoted(seen, v, stage) == {w \in Models \ {v} : stage = "CHAMPION" /\ seen[w].stage = "CHAMPION"}

Promote(a, v, stage) ==
    /\ models[v].stage # None
    /\ Reads(a, [op |-> "promote", version |-> v, stage |-> stage, seen |-> models])

\* What the rows become when the promotion commits.  Setting the stage of the
\* model comes after archiving, which may have been done to it as well.
Promoted(v, stage, seen) ==
    LET at  == 1 + Max({seen[w].at : w \in Models})
        new == [w \in Models |->
                   IF w \in Demoted(seen, v, stage) THEN [seen[w] EXCEPT !.stage = "ARCHIVED"]
                   ELSE IF w = v THEN [stage |-> stage, at |-> at]
                   ELSE seen[w]]
    IN  [w \in Models |-> Flush(models[w], seen[w], new[w])]

\* Has anything changed under the request?
Raced(seen) == seen # models

CommitPromotion(a) ==
    LET r == session[a]
    IN  /\ r.op = "promote"
        /\ models' = Promoted(r.version, r.stage, r.seen)
        /\ promoted' = IF Raced(r.seen) THEN "raced"
                       ELSE IF promoted = "raced" THEN promoted
                       ELSE IF r.stage = "CHAMPION" THEN r.version
                       ELSE IF promoted = r.version THEN None
                       ELSE promoted
        /\ Ends(a)
        /\ UNCHANGED <<policies, integration, sweep, clock, requests, owed>>

\* The name and version are unique: of two that insert a row the later fails.
CommitRegistration(a) ==
    LET r == session[a]
        inserts == r.seen.stage = None
    IN  /\ r.op = "register"
        /\ models' = IF inserts /\ models[r.version].stage # None THEN models
                     ELSE [models EXCEPT ![r.version] = Flush(@, r.seen, r.new)]
        /\ promoted' = IF r.seen # models[r.version] THEN "raced" ELSE promoted
        /\ Ends(a)
        /\ UNCHANGED <<policies, integration, sweep, clock, requests, owed>>

\* The versions the scoring of payments may get: a champion, the one promoted
\* last among several, or else a validated one.
RuntimeModel ==
    LET champions == {v \in Models : models[v].stage = "CHAMPION"}
    IN  IF champions = {} THEN {v \in Models : models[v].stage = "VALIDATED"}
        ELSE {v \in champions : \A w \in champions : models[w].at <= models[v].at}

------------------------------------------------------------------------------
(* The webhook secrets of an integration.                                  *)

\* The secrets an incoming webhook may be signed with.
SecretsFor(row, now) ==
    LET named == {row.current} \cup (IF row.expires >= now THEN {row.previous} ELSE {})
    IN  IF named \cap Configured # {} THEN named \cap Configured ELSE {Fallback}

Connect(a, ref) ==
    Reads(a, [op |-> "connect", seen |-> integration,
              new |-> [integration EXCEPT !.exists = TRUE,
                                          !.current = IF ref # None THEN ref
                                                      ELSE IF @ # None THEN @ ELSE DefaultRef]])

\* The row after a rotation at this time; the grace of an earlier one is lost.
Rotated(row, ref) == [row EXCEPT !.current = ref, !.previous = row.current,
                                 !.expires = clock + Grace]

Rotate(a, ref) ==
    /\ integration.exists
    /\ ref # integration.current
    /\ Reads(a, [op |-> "rotate", seen |-> integration, new |-> Rotated(integration, ref)])

\* Of two requests that both create the row the later fails.  A rotation always
\* sets the time, which is exact: that of another one on the same day differs.
CommitIntegration(a) ==
    LET r   == session[a]
        row == Flush(integration, r.seen, r.new)
    IN  /\ r.op \in {"connect", "rotate"}
        /\ integration' = IF ~r.seen.exists /\ integration.exists THEN integration
                          ELSE IF r.op = "rotate" THEN [row EXCEPT !.expires = r.new.expires]
                          ELSE row
        /\ owed' = IF r.op = "connect" THEN owed
                   ELSE IF r.seen # integration THEN {}
                   ELSE {[secret |-> r.seen.current, until |-> r.new.expires]}
        /\ Ends(a)
        /\ UNCHANGED <<policies, models, sweep, clock, requests, promoted>>

\* A plausible bug: the last moment of the grace is cut off.
Expired_AtBoundary(row, now) == row.expires # 0 /\ row.expires <= now

Expired(row, now) == row.expires # 0 /\ row.expires < now

\* A plausible bug: only the time goes.
Retired_TimeOnly(row) == [row EXCEPT !.expires = 0]

Retired(row) == [row EXCEPT !.previous = None, !.expires = 0]

\* The reconciliation of a tick of the worker, or of an operator.
SweepReads ==
    /\ sweep = AdminIdle
    /\ integration.exists
    /\ sweep' = [op |-> "sweep", seen |-> integration,
                 new |-> IF Expired(integration, clock) THEN Retired(integration) ELSE integration]
    /\ UNCHANGED <<policies, models, integration, session, clock, requests, promoted, owed>>

SweepCommits ==
    /\ sweep # AdminIdle
    /\ integration' = Flush(integration, sweep.seen, sweep.new)
    /\ sweep' = AdminIdle
    /\ owed' = IF sweep.new # sweep.seen /\ sweep.seen # integration THEN {} ELSE owed
    /\ UNCHANGED <<policies, models, session, clock, requests, promoted>>

\* The clock counts days: no transaction lasts from one to the next.
Tick ==
    /\ clock < MaxTime
    /\ sweep = AdminIdle /\ \A a \in Admins : session[a] = AdminIdle
    /\ clock' = clock + 1
    /\ UNCHANGED <<policies, models, integration, session, sweep, requests, promoted, owed>>

------------------------------------------------------------------------------
AdminNext ==
    \/ \E a \in Admins :
          \/ \E m \in Merchants, rules \in Rules, status \in Statuses : CreatePolicy(a, m, rules, status)
          \/ \E human \in {p.human : p \in policies}, given \in {{}} \cup {{r} : r \in Rules},
                status \in Statuses \cup {None} : PatchPolicy(a, human, given, status)
          \/ CommitPolicy(a)
          \/ PolicyFails(a)
          \/ \E v \in Models, stage \in {"TRAINED", "VALIDATED"} : Register(a, v, stage)
          \/ CommitRegistration(a)
          \/ \E v \in Models, stage \in Stages : Promote(a, v, stage)
          \/ CommitPromotion(a)
          \/ \E ref \in Refs \cup {None} : Connect(a, ref)
          \/ \E ref \in Refs : Rotate(a, ref)
          \/ CommitIntegration(a)
    \/ SweepReads
    \/ SweepCommits
    \/ Tick

\* The worker ticks for ever, and a commit that has been reached is made.
Fairness == WF_adminVars(SweepReads) /\ WF_adminVars(SweepCommits)

AdminSpec == AdminInit /\ [][AdminNext]_adminVars /\ Fairness

------------------------------------------------------------------------------
\* Every row and counter is in its range.
AdminTypeOK ==
    /\ \A p \in policies : /\ p.merchant \in Merchants /\ p.human \in 7 .. 6 + Wrap
                           /\ p.version \in 1 .. MaxRequests /\ p.rules \in Rules
                           /\ p.status \in {"live", "draft", "archived"}
    /\ models \in [Models -> ModelRow]
    /\ integration \in IntegrationRow
    /\ promoted \in Models \cup {None, "raced"}
    /\ owed \subseteq [secret : Refs \cup {None}, until : 0 .. MaxTime + Grace]

\* Only the newest version of a policy ever has a say in a merchant's rules,
\* however many edits of it overlap and whatever status they give it: patch_policy
\* archives the version it has read, and relies on the unique constraint for
\* the one it has not.
OnlyNewestSpeaks ==
    \A m \in Merchants : \A said \in ActiveLabel(RowsOf(m)) :
        \A p \in RowsOf(m) : p.human = said[1] => p.version <= said[2]

\* As long as no two changes of the models overlapped, the payments are scored
\* with the model that was last made champion, also when it already was one.
PromotedServes == promoted \in Models => RuntimeModel = {promoted}

\* A secret that a rotation replaces is accepted until its grace is over, so that
\* deliveries signed with it can be retried: whatever connections commit meanwhile,
\* read before the rotation or after it, and however often the worker sweeps; but
\* not past another rotation, nor past a sweep that writes what it has decided on
\* a row read before the rotation.
GraceKept ==
    \A o \in owed :
        clock <= o.until /\ o.secret \in Configured => o.secret \in SecretsFor(integration, clock)

\* What the comment on grace_minutes promises, and the code does not keep: a second
\* rotation within the grace drops the secret before, and a connection with a new
\* one gives none.
RetriesStayAccepted ==
    [][clock' = clock => SecretsFor(integration, clock) \cap Configured
                            \subseteq SecretsFor(integration', clock)]_adminVars

\* A previous secret whose grace is over is not kept: the worker's ticks get to
\* it even while administrators rotate and connect.
ExpiredIsRetired == (integration.previous # None /\ integration.expires < clock)
                        ~> (integration.previous = None \/ integration.expires >= clock)

==============================================================================
