------------------------ MODULE RecoveryActionProofs ------------------------
(***************************************************************************)
(* Proofs about RecoveryAction, for every set of keys and processes, every *)
(* number of links and every bound that satisfies RecoveryAssumption.      *)
(*                                                                         *)
(* A handler writes the row it has loaded, whatever has become of it since.*)
(* What makes this harmless is that the verdict of the policy is never     *)
(* changed, and approvals and captures are never taken back: Keeps.        *)
(***************************************************************************)
EXTENDS RecoveryAction, FiniteSetTheorems, TLAPS

\* The operations that a process can be in.
Operation ==
    [op : {"idle", "request", "approve", "halt", "cancel", "monitor", "capture", "record", "order"},
     keys : SUBSET Keys, row : Execution, todo : SUBSET References,
     target : LinkStatuses \cup Stopped, seen : LinkStatuses]

\* The states of an action that the policy did not refuse.
Running == Monitored \cup {"SUCCEEDED", "ROLLED_BACK"}

\* The verdict of a row, with the approvals of its key.
Allowed(k, row) ==
    \/ row.decision = "allow"
    \/ row.decision = "require_approval" /\ k \in approved

\* What holds of a row whether it is stored or was loaded some time ago.
GoodRow(k, row) ==
    /\ row.recovered <= Cardinality(captured)
    /\ row.state = "VALIDATED" => row.decision = "require_approval"
    /\ row.state \in Running => Allowed(k, row)

\* What holds of the execution of a key, and of its links.
Stored(k) ==
    /\ GoodRow(k, exec[k])
    /\ exec[k].state = "absent" => exec[k].decision = "none"
    /\ OwnLinks(k) # {} => Allowed(k, exec[k])

\* What holds of the row that a process has loaded.
Loaded(p, k) ==
    /\ exec[k].state # "absent"
    /\ proc[p].row.decision = exec[k].decision
    /\ GoodRow(k, proc[p].row)
    /\ proc[p].op = "approve" => proc[p].row.state = "VALIDATED"
    /\ proc[p].op = "monitor" => proc[p].row.state \in Monitored
    /\ proc[p].op = "cancel" => /\ proc[p].target \in {"HALTED", "ROLLED_BACK"}
                                /\ proc[p].target = "ROLLED_BACK" => Allowed(k, proc[p].row)

\* What holds of the operation of a process.
InProgress(p) ==
    /\ proc[p].op = "request" => proc[p].row.recovered = 0
    /\ proc[p].op \in {"approve", "halt", "cancel", "monitor"} => \A k \in proc[p].keys : Loaded(p, k)
    /\ proc[p].op = "capture" => proc[p].target = "paid"
    /\ proc[p].op = "record" => /\ proc[p].target \in LinkStatuses \ {"issued"}
                                /\ proc[p].target = "paid" => proc[p].todo \subseteq captured

PaidWasCaptured == \A r \in References : links[r].status = "paid" => r \in captured

IInv ==
    /\ TypeOK
    /\ \A k \in Keys : Stored(k)
    /\ \A p \in Processes : InProgress(p)
    /\ PaidWasCaptured

\* What no step takes back.
Keeps ==
    /\ captured \subseteq captured' /\ approved \subseteq approved'
    /\ \A k \in Keys :
          exec[k].state # "absent" =>
                exec'[k].state # "absent" /\ exec'[k].decision = exec[k].decision

------------------------------------------------------------------------------
(* Counting.                                                               *)

\* The references are finite, and so is whatever is captured.
LEMMA ReferencesFinite ==
    /\ IsFiniteSet(References)
    /\ Cardinality(Keys) \in Nat
    /\ \A S \in SUBSET References :
          /\ IsFiniteSet(S) /\ Cardinality(S) \in Nat
          /\ \A T \in SUBSET S : Cardinality(T) <= Cardinality(S)
<1>1. Cardinality(Keys) \in Nat
  BY RecoveryAssumption, FS_CardinalityType
<1>2. IsFiniteSet(1 .. Cardinality(Keys)) /\ IsFiniteSet(1 .. LinksPer)
  BY <1>1, FS_Interval, RecoveryAssumption
<1>3. IsFiniteSet(References)
  BY <1>2, FS_Product DEF References
<1>4. ASSUME NEW S \in SUBSET References
      PROVE  /\ IsFiniteSet(S) /\ Cardinality(S) \in Nat
             /\ \A T \in SUBSET S : Cardinality(T) <= Cardinality(S)
  BY <1>3, FS_Subset, FS_CardinalityType
<1> QED  BY <1>1, <1>3, <1>4

\* The number of captured links never goes down.
LEMMA CapturedGrows ==
    ASSUME TypeOK, TypeOK', captured \subseteq captured'
    PROVE  /\ Cardinality(captured) \in Nat /\ Cardinality(captured') \in Nat
           /\ Cardinality(captured) <= Cardinality(captured')
<1>1. captured \in SUBSET References /\ captured' \in SUBSET References
  BY DEF TypeOK, References
<1> QED  BY <1>1, ReferencesFinite

\* The next human id is one of as many as there are keys.
LEMMA HumanIdFits ==
    ASSUME NEW k \in Keys, exec[k].state = "absent"
    PROVE  NextHumanId \in 0 .. Cardinality(Keys)
<1>1. Present \in SUBSET (Keys \ {k})
  BY DEF Present
<1>2. IsFiniteSet(Keys \ {k}) /\ Cardinality(Keys \ {k}) = Cardinality(Keys) - 1
  BY FS_RemoveElement, RecoveryAssumption
<1>3. /\ Cardinality(Present) <= Cardinality(Keys) - 1
      /\ Cardinality(Present) \in Nat /\ Cardinality(Keys) \in Nat
  BY <1>1, <1>2, FS_Subset, FS_CardinalityType, RecoveryAssumption
<1> QED  BY <1>3 DEF NextHumanId

------------------------------------------------------------------------------
(* What a step keeps.                                                      *)

\* A good row stays one.
LEMMA GoodRowKept ==
    ASSUME TypeOK, TypeOK', Keeps, NEW k \in Keys, NEW row \in Execution
    PROVE  /\ Allowed(k, row) => Allowed(k, row)'
           /\ GoodRow(k, row) => GoodRow(k, row)'
<1>1. approved \subseteq approved'
  BY DEF TypeOK, Keeps
<1>2. Allowed(k, row) => Allowed(k, row)'
  BY <1>1 DEF Allowed
<1>3. /\ Cardinality(captured) \in Nat /\ Cardinality(captured') \in Nat
      /\ Cardinality(captured) <= Cardinality(captured')
  BY CapturedGrows DEF Keeps
<1>4. row.recovered \in Nat
  BY DEF Execution
<1>5. row.recovered <= Cardinality(captured) => row.recovered <= Cardinality(captured')
  BY <1>3, <1>4
<1> QED  BY <1>2, <1>5 DEF GoodRow

\* What a process that does nothing has loaded stays good.
LEMMA OthersKept ==
    ASSUME IInv, TypeOK', Keeps, NEW q \in Processes, proc'[q] = proc[q]
    PROVE  InProgress(q)'
<1>1. InProgress(q) /\ TypeOK
  BY DEF IInv
<1>2. proc[q].row \in Execution /\ proc[q].keys \subseteq Keys
  BY <1>1 DEF TypeOK
<1>3. ASSUME NEW k \in proc[q].keys, Loaded(q, k)
      PROVE  Loaded(q, k)'
  <2>1. k \in Keys
    BY <1>2
  <2>2. PICK row \in Execution : row = proc[q].row
    BY <1>2
  <2>3. /\ Allowed(k, row) => Allowed(k, row)'
        /\ GoodRow(k, row) => GoodRow(k, row)'
    BY <1>1, <2>1, GoodRowKept
  <2>4. proc'[q].row = row
    BY <2>2
  <2> QED  BY <1>3, <2>1, <2>2, <2>3, <2>4 DEF Loaded, Keeps, GoodRow, Allowed
<1> QED  BY <1>1, <1>3 DEF InProgress, Keeps

\* When the process that steps is done, all operations stay good.
LEMMA FinishKept ==
    ASSUME IInv, TypeOK', Keeps, NEW p \in Processes, Finish(p)
    PROVE  \A q \in Processes : InProgress(q)'
<1> SUFFICES ASSUME NEW q \in Processes PROVE InProgress(q)'
  OBVIOUS
<1>1. CASE q = p
  <2>1. proc'[q].op = "idle"
    BY <1>1 DEF Finish, Idle, IInv, TypeOK
  <2> QED  BY <2>1 DEF InProgress
<1>2. CASE q # p
  BY <1>2, OthersKept DEF Finish, IInv, TypeOK
<1> QED  BY <1>1, <1>2

\* Executions stay as they should be when no execution is written.
LEMMA StoredKept ==
    ASSUME IInv, TypeOK', exec' = exec, approved' = approved, captured \subseteq captured',
           \A r \in References : links'[r].owner = links[r].owner
    PROVE  Keeps /\ \A k \in Keys : Stored(k)'
<1>1. Keeps
  BY DEF Keeps, IInv, TypeOK
<1>2. ASSUME NEW k \in Keys
      PROVE  Stored(k)'
  <2>1. PICK row \in Execution : row = exec[k]
    BY DEF IInv, TypeOK
  <2>2. Stored(k) /\ TypeOK
    BY DEF IInv
  <2>3. /\ Allowed(k, row) => Allowed(k, row)'
        /\ GoodRow(k, row) => GoodRow(k, row)'
    BY <1>1, <2>2, GoodRowKept
  <2>4. OwnLinks(k)' = OwnLinks(k)
    BY DEF OwnLinks
  <2> QED  BY <2>1, <2>2, <2>3, <2>4 DEF Stored, GoodRow, Allowed
<1> QED  BY <1>1, <1>2

\* They stay so when a good row is written for one key and links are issued for it.
LEMMA StoredWritten ==
    ASSUME IInv, TypeOK', captured' = captured,
           approved \subseteq approved',
           NEW k \in Keys, NEW new \in Execution, Write(k, new),
           new.state # "absent",
           exec[k].state # "absent" => new.decision = exec[k].decision,
           GoodRow(k, new)',
           \A r \in References : \/ links'[r].owner = links[r].owner
                                 \/ links'[r].owner = {k} /\ Allowed(k, new)'
    PROVE  Keeps /\ \A j \in Keys : Stored(j)'
<1>1. exec' = [exec EXCEPT ![k] = new] /\ exec'[k] = new
  BY DEF Write, IInv, TypeOK
<1>2. Keeps
  BY <1>1 DEF Keeps, IInv, TypeOK
<1>3. ASSUME NEW j \in Keys, j # k
      PROVE  Stored(j)'
  <2>1. PICK row \in Execution : row = exec[j]
    BY DEF IInv, TypeOK
  <2>2. Stored(j) /\ TypeOK /\ exec'[j] = row
    BY <1>1, <1>3, <2>1 DEF IInv
  <2>3. /\ Allowed(j, row) => Allowed(j, row)'
        /\ GoodRow(j, row) => GoodRow(j, row)'
    BY <1>2, <2>2, GoodRowKept
  <2>4. OwnLinks(j)' \subseteq OwnLinks(j)
    BY <1>3 DEF OwnLinks
  <2> QED  BY <2>1, <2>2, <2>3, <2>4 DEF Stored, GoodRow, Allowed
<1>4. Stored(k)'
  <2>1. PICK row \in Execution : row = exec[k]
    BY DEF IInv, TypeOK
  <2>2. Stored(k) /\ TypeOK
    BY DEF IInv
  <2>3. CASE OwnLinks(k)' \subseteq OwnLinks(k) /\ OwnLinks(k) # {}
    <3>1. Allowed(k, row) /\ row.state # "absent"
      BY <2>1, <2>2, <2>3 DEF Stored, Allowed
    <3>2. Allowed(k, row)' /\ new.decision = row.decision
      BY <1>2, <2>1, <2>2, <3>1, GoodRowKept
    <3> QED  BY <1>1, <3>2 DEF Stored, GoodRow, Allowed
  <2>4. CASE OwnLinks(k)' = {}
    BY <1>1, <2>4 DEF Stored, GoodRow, Allowed
  <2>5. CASE ~ (OwnLinks(k)' \subseteq OwnLinks(k))
    <3>1. Allowed(k, new)'
      BY <2>5 DEF OwnLinks
    <3> QED  BY <1>1, <3>1 DEF Stored, GoodRow, Allowed
  <2> QED  BY <2>3, <2>4, <2>5
<1> QED  BY <1>2, <1>3, <1>4

------------------------------------------------------------------------------
(* The steps.                                                              *)

\* A process that begins loads a row, or the status of a link, as it is.
LEMMA BeginsStep ==
    ASSUME IInv, NEW p \in Processes, Begins(p)
    PROVE  IInv'
<1>1. TypeOK
  BY DEF IInv
<1>2. UnchangedLedger /\ late' = late /\ crashes' = crashes
  BY DEF Begins, RequestLooks, ApproveLooks, HaltLooks, MonitorLooks, OutcomeLooks, PaysOrderLooks
<1>3. PICK new : proc' = [proc EXCEPT ![p] = new] /\
        \/ \E k \in Keys, op \in {"approve", "halt", "monitor"} :
              /\ new = [Idle EXCEPT !.op = op, !.keys = {k}, !.row = exec[k]]
              /\ exec[k].state # "absent"
              /\ op = "approve" => exec[k].state = "VALIDATED"
              /\ op = "monitor" => exec[k].state \in Monitored
        \/ \E k \in Keys : 
              /\ new = [Idle EXCEPT !.op = "request", !.keys = {k},
                                    !.row = [NoExecution EXCEPT !.human = NextHumanId]]
              /\ exec[k].state = "absent"
        \/ \E r \in References, target \in {"paid", "partially_paid", "expired", "cancelled"} :
              new = [Idle EXCEPT !.op = IF target = "paid" THEN "capture" ELSE "record",
                                 !.todo = {r}, !.target = target, !.seen = links[r].status]
        \/ \E r \in References : new = [Idle EXCEPT !.op = "order", !.todo = {r}]
  BY DEF Begins, RequestLooks, ApproveLooks, HaltLooks, MonitorLooks, OutcomeLooks,
         PaysOrderLooks, Start, Monitored
<1>4. TypeOK'
  <2>1. NoExecution \in Execution /\ Idle.row = NoExecution
    BY ReferencesFinite DEF NoExecution, Execution, States, Idle
  <2>2. \A h \in 0 .. Cardinality(Keys) : [NoExecution EXCEPT !.human = h] \in Execution
    BY <2>1 DEF Execution
  <2>3. /\ \A k \in Keys : exec[k] \in Execution
        /\ \A r \in References : links[r].status \in LinkStatuses
    BY <1>1 DEF TypeOK, Link
  <2>4. /\ "none" \in LinkStatuses
        /\ {"paid", "partially_paid", "expired", "cancelled"} \subseteq LinkStatuses
    BY DEF LinkStatuses, OpenLink
  <2>5. \A k \in Keys : exec[k].state = "absent" => NextHumanId \in 0 .. Cardinality(Keys)
    BY HumanIdFits
  <2>6. new \in Operation
    <3>1. CASE \E k \in Keys, op \in {"approve", "halt", "monitor"} :
                  new = [Idle EXCEPT !.op = op, !.keys = {k}, !.row = exec[k]]
      <4>1. PICK k \in Keys, op \in {"approve", "halt", "monitor"} :
              new = [op |-> op, keys |-> {k}, row |-> exec[k], todo |-> {},
                     target |-> "none", seen |-> "none"]
        BY <3>1 DEF Idle
      <4> QED  BY <2>3, <2>4, <4>1 DEF Operation
    <3>2. CASE \E k \in Keys :
                  /\ new = [Idle EXCEPT !.op = "request", !.keys = {k},
                                        !.row = [NoExecution EXCEPT !.human = NextHumanId]]
                  /\ exec[k].state = "absent"
      <4>1. PICK k \in Keys :
              /\ new = [op |-> "request", keys |-> {k},
                        row |-> [NoExecution EXCEPT !.human = NextHumanId],
                        todo |-> {}, target |-> "none", seen |-> "none"]
              /\ exec[k].state = "absent"
        BY <3>2 DEF Idle
      <4> QED  BY <2>2, <2>4, <2>5, <4>1 DEF Operation
    <3>3. CASE \E r \in References,
                  target \in {"paid", "partially_paid", "expired", "cancelled"} :
                  new = [Idle EXCEPT !.op = IF target = "paid" THEN "capture" ELSE "record",
                                     !.todo = {r}, !.target = target, !.seen = links[r].status]
      <4>1. PICK r \in References,
                 target \in {"paid", "partially_paid", "expired", "cancelled"} :
              new = [op |-> IF target = "paid" THEN "capture" ELSE "record", keys |-> {},
                     row |-> NoExecution, todo |-> {r}, target |-> target,
                     seen |-> links[r].status]
        BY <3>3 DEF Idle
      <4> QED  BY <2>1, <2>3, <2>4, <4>1 DEF Operation
    <3>4. CASE \E r \in References : new = [Idle EXCEPT !.op = "order", !.todo = {r}]
      <4>1. PICK r \in References :
              new = [op |-> "order", keys |-> {}, row |-> NoExecution, todo |-> {r},
                     target |-> "none", seen |-> "none"]
        BY <3>4 DEF Idle
      <4> QED  BY <2>1, <2>4, <4>1 DEF Operation
    <3> QED  BY <1>3, <3>1, <3>2, <3>3, <3>4
  <2> QED  BY <1>1, <1>2, <1>3, <2>6 DEF TypeOK, Operation, UnchangedLedger
<1>5. Keeps /\ \A k \in Keys : Stored(k)'
  BY <1>2, <1>4, StoredKept DEF UnchangedLedger
<1>6. PaidWasCaptured'
  BY <1>2 DEF UnchangedLedger, PaidWasCaptured, IInv
<1>7. InProgress(p)'
  <2>1. proc'[p] = new
    BY <1>1, <1>3 DEF TypeOK
  <2>2. ASSUME NEW k \in Keys, NEW op \in {"approve", "halt", "monitor"},
               new = [Idle EXCEPT !.op = op, !.keys = {k}, !.row = exec[k]],
               exec[k].state # "absent",
               op = "approve" => exec[k].state = "VALIDATED",
               op = "monitor" => exec[k].state \in Monitored
        PROVE  InProgress(p)'
    <3>1. /\ proc'[p].op = op /\ proc'[p].keys = {k} /\ proc'[p].row = exec[k]
          /\ exec' = exec
      BY <1>2, <2>1, <2>2 DEF Idle, UnchangedLedger
    <3>2. GoodRow(k, exec[k])'
      BY <1>5 DEF Stored
    <3>3. Loaded(p, k)'
      BY <2>2, <3>1, <3>2 DEF Loaded, GoodRow, Allowed
    <3> QED  BY <3>1, <3>3 DEF InProgress
  <2>3. CASE \E k \in Keys : 
              new = [Idle EXCEPT !.op = "request", !.keys = {k},
                                 !.row = [NoExecution EXCEPT !.human = NextHumanId]]
    BY <2>1, <2>3 DEF InProgress, Idle, NoExecution
  <2>4. CASE \E r \in References, target \in {"paid", "partially_paid", "expired", "cancelled"} :
              new = [Idle EXCEPT !.op = IF target = "paid" THEN "capture" ELSE "record",
                                 !.todo = {r}, !.target = target, !.seen = links[r].status]
    BY <2>1, <2>4 DEF InProgress, Idle, LinkStatuses, OpenLink
  <2>5. CASE \E r \in References : new = [Idle EXCEPT !.op = "order", !.todo = {r}]
    BY <2>1, <2>5 DEF InProgress, Idle
  <2> QED  BY <1>3, <2>2, <2>3, <2>4, <2>5
<1>8. ASSUME NEW q \in Processes, q # p PROVE InProgress(q)'
  <2>1. proc'[q] = proc[q]
    BY <1>1, <1>3, <1>8 DEF TypeOK
  <2> QED  BY <1>4, <1>5, <2>1, OthersKept
<1> QED  BY <1>4, <1>5, <1>6, <1>7, <1>8 DEF IInv

\* A field of a row is written, and the others stay.
LEMMA FieldWritten ==
    ASSUME NEW row \in Execution
    PROVE  /\ \A x \in States : LET new == [row EXCEPT !.state = x]
                               IN  /\ new \in Execution /\ new.state = x
                                   /\ new.decision = row.decision /\ new.recovered = row.recovered
           /\ \A x \in Nat :    LET new == [row EXCEPT !.retries = x]
                               IN  /\ new \in Execution /\ new.state = row.state
                                   /\ new.decision = row.decision /\ new.recovered = row.recovered
           /\ \A x \in BOOLEAN : LET new == [row EXCEPT !.partial = x]
                                IN  /\ new \in Execution /\ new.state = row.state
                                    /\ new.decision = row.decision /\ new.recovered = row.recovered
           /\ \A x \in Nat :    LET new == [row EXCEPT !.recovered = x]
                               IN  /\ new \in Execution /\ new.state = row.state
                                   /\ new.decision = row.decision /\ new.recovered = x
BY DEF Execution

\* What a dispatch writes: the row, and links whose reference was free.
LEMMA Dispatched ==
    ASSUME TypeOK, NEW k \in Keys, NEW row \in Execution, Dispatch(k, row),
           row.recovered <= Cardinality(captured)
    PROVE  /\ \E new \in Execution :
                 /\ Write(k, new)
                 /\ new.decision = row.decision
                 /\ new.state \in Running \cup {"FAILED_FINAL"}
                 /\ new.recovered <= Cardinality(captured)
           /\ links' \in [References -> Link]
           /\ \A r \in References : \/ links'[r] = links[r]
                                    \/ links'[r] = [status |-> "issued", owner |-> {k}]
<1>1. row.retries \in Nat /\ row.retries + 1 \in Nat /\ 0 <= Cardinality(captured)
  BY ReferencesFinite DEF TypeOK, Execution
<1>2. (row.fault = "partial") \in BOOLEAN
  OBVIOUS
<1>3. CASE DispatchFails(k, row)
  <2> DEFINE state == IF row.fault = "transient" THEN "FAILED_RETRYABLE" ELSE "FAILED_FINAL"
             n     == IF row.fault = "transient" THEN row.retries + 1 ELSE 0
             new   == [row EXCEPT !.state = state, !.retries = n]
  <2>1. Write(k, new) /\ links' = links
    BY <1>3 DEF DispatchFails
  <2>2. state \in Running \cup {"FAILED_FINAL"} /\ n \in Nat
    BY <1>1 DEF Running, Monitored
  <2>3. /\ new \in Execution /\ new.decision = row.decision /\ new.state = state
        /\ new.recovered = row.recovered
    <3> HIDE DEF state, n
    <3> DEFINE half == [row EXCEPT !.state = state]
    <3>1. /\ half \in Execution /\ half.state = state
          /\ half.decision = row.decision /\ half.recovered = row.recovered
      BY <2>2, FieldWritten DEF Running, Monitored, States, Stopped
    <3>2. new = [half EXCEPT !.retries = n]
      OBVIOUS
    <3> HIDE DEF half, new
    <3> QED  BY <2>2, <3>1, <3>2, FieldWritten
  <2> HIDE DEF new, state
  <2> QED  BY <2>1, <2>2, <2>3 DEF TypeOK
<1>4. CASE DispatchLocal(k, row)
  <2> DEFINE new == [row EXCEPT !.state = "MONITORING", !.partial = row.fault = "partial",
                                !.recovered = 0, !.retries = 0]
  <2>1. Write(k, new) /\ IssueLinks(k, row)
    BY <1>4 DEF DispatchLocal
  <2>2. /\ new \in Execution /\ new.decision = row.decision /\ new.state = "MONITORING"
        /\ new.recovered = 0
    <3> DEFINE a == [row EXCEPT !.state = "MONITORING"]
               b == [a EXCEPT !.partial = row.fault = "partial"]
               c == [b EXCEPT !.recovered = 0]
    <3>1. a \in Execution /\ a.state = "MONITORING" /\ a.decision = row.decision
      BY FieldWritten DEF Monitored, States
    <3>2. b \in Execution /\ b.state = a.state /\ b.decision = a.decision
      <4> HIDE DEF a
      <4> QED  BY <1>2, <3>1, FieldWritten
    <3>3. c \in Execution /\ c.state = b.state /\ c.decision = b.decision /\ c.recovered = 0
      <4> HIDE DEF b
      <4> QED  BY <3>2, FieldWritten
    <3>4. new = [c EXCEPT !.retries = 0]
      OBVIOUS
    <3> HIDE DEF a, b, c, new
    <3> QED  BY <3>1, <3>2, <3>3, <3>4, FieldWritten
  <2>3. \A r \in References : \/ links'[r] = links[r]
                              \/ links'[r] = [status |-> "issued", owner |-> {k}]
    BY <2>1 DEF IssueLinks
  <2>4. links' \in [References -> Link]
    BY <2>1 DEF IssueLinks, TypeOK, Link, LinkStatuses, OpenLink
  <2> HIDE DEF new
  <2> QED  BY <1>1, <2>1, <2>2, <2>3, <2>4 DEF Running, Monitored
<1>5. CASE DispatchSimulator(k, row)
  <2> DEFINE state == IF row.fault = "partial" THEN "MONITORING" ELSE "SUCCEEDED"
             new   == [row EXCEPT !.partial = row.fault = "partial", !.retries = 0,
                                  !.state = state]
  <2>1. Write(k, new) /\ links' = links
    BY <1>5 DEF DispatchSimulator
  <2>2. state \in Running
    BY DEF Running, Monitored
  <2>3. /\ new \in Execution /\ new.decision = row.decision /\ new.state = state
        /\ new.recovered = row.recovered
    <3> HIDE DEF state
    <3> DEFINE a == [row EXCEPT !.partial = row.fault = "partial"]
               b == [a EXCEPT !.retries = 0]
    <3>1. a \in Execution /\ a.decision = row.decision /\ a.recovered = row.recovered
      BY <1>2, FieldWritten
    <3>2. b \in Execution /\ b.decision = a.decision /\ b.recovered = a.recovered
      <4> HIDE DEF a
      <4> QED  BY <3>1, FieldWritten
    <3>3. new = [b EXCEPT !.state = state]
      OBVIOUS
    <3>4. state \in States
      BY <2>2 DEF Running, Monitored, States, Stopped
    <3> HIDE DEF a, b, new
    <3> QED  BY <3>1, <3>2, <3>3, <3>4, FieldWritten
  <2> HIDE DEF new, state
  <2> QED  BY <2>1, <2>2, <2>3 DEF TypeOK
<1> QED  BY <1>3, <1>4, <1>5 DEF Dispatch

\* A process that writes a good row for a key, maybe with links, and is done.
LEMMA WriteStep ==
    ASSUME IInv, NEW p \in Processes, Finish(p), UNCHANGED <<captured, late, crashes>>,
           approved' \subseteq Keys, approved \subseteq approved',
           NEW k \in Keys, NEW new \in Execution, Write(k, new),
           new.state # "absent",
           exec[k].state # "absent" => new.decision = exec[k].decision,
           GoodRow(k, new)',
           links' \in [References -> Link],
           \A r \in References :
              \/ links'[r] = links[r]
              \/ links'[r] = [status |-> "issued", owner |-> {k}] /\ Allowed(k, new)'
    PROVE  IInv'
<1>1. Idle \in Operation
  BY ReferencesFinite DEF Idle, Operation, NoExecution, Execution, States, LinkStatuses
<1>2. TypeOK'
  BY <1>1 DEF TypeOK, IInv, Finish, Write, Operation
<1>3. \A r \in References : \/ links'[r].owner = links[r].owner
                            \/ links'[r].owner = {k} /\ Allowed(k, new)'
  OBVIOUS
<1>4. Keeps /\ \A j \in Keys : Stored(j)'
  BY <1>2, <1>3, StoredWritten
<1>5. \A q \in Processes : InProgress(q)'
  BY <1>2, <1>4, FinishKept
<1>6. PaidWasCaptured'
  BY DEF IInv, PaidWasCaptured
<1> QED  BY <1>2, <1>4, <1>5, <1>6 DEF IInv

\* A process that dispatches an action that is allowed, and is done.
LEMMA DispatchStep ==
    ASSUME IInv, NEW p \in Processes, Finish(p), UNCHANGED <<captured, late, crashes>>,
           approved' \subseteq Keys, approved \subseteq approved',
           NEW k \in Keys, NEW row \in Execution, Dispatch(k, row), Allowed(k, row)',
           row.recovered <= Cardinality(captured),
           exec[k].state # "absent" => row.decision = exec[k].decision
    PROVE  IInv'
<1>1. TypeOK
  BY DEF IInv
<1>2. PICK new \in Execution :
         /\ Write(k, new)
         /\ new.decision = row.decision
         /\ new.state \in Running \cup {"FAILED_FINAL"}
         /\ new.recovered <= Cardinality(captured)
  BY <1>1, Dispatched
<1>3. /\ links' \in [References -> Link]
      /\ \A r \in References : \/ links'[r] = links[r]
                               \/ links'[r] = [status |-> "issued", owner |-> {k}]
  BY <1>1, Dispatched
<1>4. new.state \notin {"absent", "VALIDATED"}
  BY <1>2 DEF Running, Monitored
<1>5. Allowed(k, new)' /\ GoodRow(k, new)'
  BY <1>2, <1>4 DEF Allowed, GoodRow
<1> QED  BY <1>2, <1>3, <1>4, <1>5, WriteStep

\* A process that is done and has changed nothing; time that passes.
LEMMA IdleStep ==
    ASSUME IInv, UnchangedLedger, late' \subseteq Keys, crashes' \in 0 .. MaxCrashes,
           proc' = proc \/ \E p \in Processes : Finish(p)
    PROVE  IInv'
<1>1. Idle \in Operation
  BY ReferencesFinite DEF Idle, Operation, NoExecution, Execution, States, LinkStatuses
<1>2. TypeOK'
  BY <1>1 DEF TypeOK, IInv, Finish, UnchangedLedger, Operation
<1>3. Keeps /\ \A k \in Keys : Stored(k)'
  BY <1>2, StoredKept DEF UnchangedLedger
<1>4. PaidWasCaptured'
  BY DEF IInv, PaidWasCaptured, UnchangedLedger
<1>5. \A q \in Processes : InProgress(q)'
  BY <1>2, <1>3, FinishKept, OthersKept
<1> QED  BY <1>2, <1>3, <1>4, <1>5 DEF IInv

\* What a process may rely on that has loaded the row of a key.
LEMMA LoadedRow ==
    ASSUME IInv, NEW p \in Processes, NEW k \in Keys, proc[p].keys = {k},
           proc[p].op \in {"approve", "halt", "cancel", "monitor"}
    PROVE  proc[p].row \in Execution /\ Loaded(p, k)
BY DEF IInv, TypeOK, InProgress

\* The policy's verdict on a new execution is carried out.
LEMMA RequestStep ==
    ASSUME IInv, NEW p \in Processes, NEW k \in Keys, RequestInserts(p, k)
    PROVE  IInv'
<1>1. PICK decision \in Decisions, connector \in Connectors, fault \in Faults :
         Decide(k, [proc[p].row EXCEPT !.decision = decision, !.connector = connector,
                                       !.fault = fault])
  BY DEF RequestInserts
<1>2. PICK row : row = [proc[p].row EXCEPT !.decision = decision, !.connector = connector,
                                           !.fault = fault]
  OBVIOUS
<1>3. /\ row \in Execution /\ row.decision = decision /\ row.recovered = 0
  <2>1. proc[p].row \in Execution /\ proc[p].row.recovered = 0
    BY DEF RequestInserts, Requesting, IInv, TypeOK, InProgress
  <2>2. PICK loaded \in Execution : loaded = proc[p].row /\ loaded.recovered = 0
    BY <2>1
  <2> DEFINE a == [loaded EXCEPT !.decision = decision]
             b == [a EXCEPT !.connector = connector]
  <2>3. a \in Execution /\ a.decision = decision /\ a.recovered = 0
    BY <2>2 DEF Execution
  <2>4. b \in Execution /\ b.decision = decision /\ b.recovered = 0
    <3> HIDE DEF a
    <3> QED  BY <2>3 DEF Execution
  <2>5. row = [b EXCEPT !.fault = fault]
    BY <1>2, <2>2
  <2> HIDE DEF a, b
  <2> QED  BY <2>4, <2>5 DEF Execution
<1>4. /\ Finish(p) /\ UNCHANGED <<captured, late, approved, crashes>>
      /\ exec[k].state = "absent" /\ Decide(k, row)
  BY <1>1, <1>2 DEF RequestInserts
<1>5. /\ approved \subseteq Keys /\ links \in [References -> Link]
      /\ approved \subseteq approved'
  BY <1>4 DEF IInv, TypeOK
<1>6. 0 <= Cardinality(captured)
  BY ReferencesFinite DEF IInv, TypeOK
<1>7. ASSUME NEW state \in {"REJECTED_BY_POLICY", "VALIDATED"},
             Write(k, [row EXCEPT !.state = state]), links' = links,
             state = "VALIDATED" => row.decision = "require_approval"
      PROVE  IInv'
  <2> DEFINE new == [row EXCEPT !.state = state]
  <2>1. /\ new \in Execution /\ new.state = state
        /\ new.decision = row.decision /\ new.recovered = 0
    BY <1>3, FieldWritten DEF States, Stopped
  <2>2. Write(k, new)
    BY <1>7
  <2> HIDE DEF new
  <2>3. new.state # "absent" /\ new.state \notin Running
    BY <2>1 DEF Running, Monitored
  <2>4. GoodRow(k, new)'
    BY <1>4, <1>6, <1>7, <2>1, <2>3 DEF GoodRow
  <2> QED  BY <1>4, <1>5, <1>7, <2>1, <2>2, <2>3, <2>4, WriteStep
<1>8. ASSUME row.decision = "allow", Dispatch(k, row)
      PROVE  IInv'
  <2>1. Allowed(k, row)'
    BY <1>8 DEF Allowed
  <2> QED  BY <1>3, <1>4, <1>5, <1>6, <1>8, <2>1, DispatchStep
<1> QED  BY <1>4, <1>7, <1>8 DEF Decide

\* An approval, or a retry, dispatches by the row that was loaded.
LEMMA DispatchLoaded ==
    ASSUME IInv, NEW p \in Processes, NEW k \in Keys, Approve(p, k) \/ Retry(p, k)
    PROVE  IInv'
<1>1. /\ proc[p].row \in Execution /\ Loaded(p, k) /\ TypeOK
      /\ Finish(p) /\ UNCHANGED <<captured, late, crashes>>
  BY LoadedRow DEF Approve, Retry, Monitoring, IInv
<1>2. PICK row \in Execution : row = proc[p].row
  BY <1>1
<1>3. /\ GoodRow(k, row) /\ exec[k].state # "absent" /\ row.decision = exec[k].decision
  BY <1>1, <1>2 DEF Loaded
<1>4. /\ approved' \subseteq Keys
      /\ approved \subseteq approved'
  BY <1>1 DEF Approve, Retry, TypeOK
<1>5. CASE Approve(p, k)
  <2>1. row.decision = "require_approval"
    BY <1>1, <1>2, <1>3, <1>5 DEF Approve, Loaded, GoodRow
  <2>2. k \in approved'
    BY <1>1, <1>5 DEF Approve, TypeOK
  <2>3. Allowed(k, row)'
    BY <2>1, <2>2 DEF Allowed
  <2>4. Dispatch(k, row) /\ row.recovered <= Cardinality(captured)
    BY <1>2, <1>3, <1>5 DEF Approve, GoodRow
  <2> QED  BY <1>1, <1>3, <1>4, <2>3, <2>4, DispatchStep
<1>6. CASE Retry(p, k)
  <2>1. Allowed(k, row)
    BY <1>1, <1>2, <1>3, <1>6 DEF Retry, Monitoring, Loaded, GoodRow, Running
  <2>2. approved' = approved /\ captured' = captured
    BY <1>6 DEF Retry
  <2>3. CASE Dispatch(k, [row EXCEPT !.fault = "none"])
    <3> DEFINE new == [row EXCEPT !.fault = "none"]
    <3>1. /\ new \in Execution /\ new.decision = row.decision /\ new.recovered = row.recovered
      BY DEF Execution
    <3> HIDE DEF new
    <3>2. Allowed(k, new)' /\ new.recovered <= Cardinality(captured)
      BY <1>3, <2>1, <2>2, <3>1 DEF Allowed, GoodRow
    <3>3. Dispatch(k, new)
      BY <2>3 DEF new
    <3> QED  BY <1>1, <1>3, <1>4, <3>1, <3>2, <3>3, DispatchStep
  <2>4. CASE Write(k, [row EXCEPT !.state = "FAILED_FINAL"]) /\ links' = links
    <3> DEFINE new == [row EXCEPT !.state = "FAILED_FINAL"]
    <3>1. /\ new \in Execution /\ new.state = "FAILED_FINAL"
          /\ new.decision = row.decision /\ new.recovered = row.recovered
      BY FieldWritten DEF States, Stopped
    <3>2. Write(k, new)
      BY <2>4
    <3> HIDE DEF new
    <3>3. GoodRow(k, new)'
      BY <1>3, <2>2, <3>1 DEF GoodRow, Running, Monitored
    <3>4. links' \in [References -> Link]
      BY <1>1, <2>4 DEF TypeOK
    <3> QED  BY <1>1, <1>3, <1>4, <2>4, <3>1, <3>2, <3>3, <3>4, WriteStep
  <2> QED  BY <1>2, <1>6, <2>3, <2>4 DEF Retry
<1> QED  BY <1>5, <1>6

\* A process writes the state in which an action ends.
LEMMA EndStep ==
    ASSUME IInv, NEW p \in Processes, NEW k \in Keys,
           HaltValidated(p, k) \/ Stop(p, k) \/ Settles(p, k)
    PROVE  IInv'
<1>1. /\ proc[p].row \in Execution /\ Loaded(p, k) /\ TypeOK
      /\ Finish(p) /\ UNCHANGED <<links, captured, late, approved, crashes>>
  BY LoadedRow DEF HaltValidated, Stop, Settles, Monitoring, IInv
<1>2. PICK row \in Execution : row = proc[p].row
  BY <1>1
<1>3. /\ GoodRow(k, row) /\ exec[k].state # "absent" /\ row.decision = exec[k].decision
  BY <1>1, <1>2 DEF Loaded
<1>4. /\ approved' \subseteq Keys /\ links' \in [References -> Link]
      /\ approved \subseteq approved'
  BY <1>1 DEF TypeOK
<1>5. ASSUME NEW new \in Execution, Write(k, new), new.decision = row.decision,
             new.recovered <= Cardinality(captured),
             new.state \in {"HALTED", "ROLLED_BACK", "SUCCEEDED"},
             new.state # "HALTED" => Allowed(k, row)
      PROVE  IInv'
  <2>1. new.state \notin {"absent", "VALIDATED"} /\ (new.state \in Running => new.state # "HALTED")
    BY <1>5 DEF Running, Monitored
  <2>2. GoodRow(k, new)'
    BY <1>1, <1>5, <2>1 DEF GoodRow, Allowed
  <2> QED  BY <1>1, <1>3, <1>4, <1>5, <2>1, <2>2, WriteStep
<1>6. CASE HaltValidated(p, k)
  <2> DEFINE new == [row EXCEPT !.state = "HALTED"]
  <2>1. Write(k, new)
    BY <1>2, <1>6 DEF HaltValidated
  <2>2. /\ new \in Execution /\ new.state = "HALTED"
        /\ new.decision = row.decision /\ new.recovered = row.recovered
    BY FieldWritten DEF States, Stopped
  <2> HIDE DEF new
  <2> QED  BY <1>3, <1>5, <2>1, <2>2 DEF GoodRow
<1>7. CASE Stop(p, k)
  <2> DEFINE new == [row EXCEPT !.state = proc[p].target]
  <2>1. /\ Write(k, new)
        /\ proc[p].target \in {"HALTED", "ROLLED_BACK"}
        /\ proc[p].target = "ROLLED_BACK" => Allowed(k, row)
    BY <1>1, <1>2, <1>7 DEF Stop, Loaded
  <2>2. /\ new \in Execution /\ new.state = proc[p].target
        /\ new.decision = row.decision /\ new.recovered = row.recovered
    BY <2>1, FieldWritten DEF States, Stopped
  <2> HIDE DEF new
  <2> QED  BY <1>3, <1>5, <2>1, <2>2 DEF GoodRow
<1>8. CASE Settles(p, k)
  <2>1. Recovered(k) \subseteq captured
    BY DEF Recovered, OwnLinks, IInv, PaidWasCaptured
  <2>2. Cardinality(Recovered(k)) \in Nat /\ Cardinality(Recovered(k)) <= Cardinality(captured)
    BY <1>1, <2>1, ReferencesFinite DEF TypeOK
  <2> DEFINE half == [row EXCEPT !.state = "SUCCEEDED"]
             new  == [half EXCEPT !.recovered = Cardinality(Recovered(k))]
  <2>3. /\ half \in Execution /\ half.state = "SUCCEEDED" /\ half.decision = row.decision
    BY FieldWritten DEF States, Stopped
  <2>4. /\ new \in Execution /\ new.state = half.state /\ new.decision = half.decision
        /\ new.recovered = Cardinality(Recovered(k))
    <3> HIDE DEF half
    <3> QED  BY <2>2, <2>3, FieldWritten
  <2>5. Write(k, new)
    BY <1>2, <1>8 DEF Settles
  <2>6. Allowed(k, row)
    BY <1>1, <1>2, <1>3, <1>8 DEF Settles, Monitoring, Loaded, GoodRow, Running
  <2> HIDE DEF half, new
  <2> QED  BY <1>5, <2>2, <2>3, <2>4, <2>5, <2>6
<1> QED  BY <1>6, <1>7, <1>8

\* A process lists the links it is going to cancel.
LEMMA ListStep ==
    ASSUME IInv, NEW p \in Processes, NEW k \in Keys,
           HaltRunning(p, k) \/ StopsLate(p, k) \/ RollsBack(p, k)
    PROVE  IInv'
<1>1. /\ proc[p].row \in Execution /\ Loaded(p, k) /\ TypeOK /\ proc[p].keys = {k}
  BY LoadedRow DEF HaltRunning, StopsLate, RollsBack, Monitoring, IInv
<1>2. PICK target \in {"HALTED", "ROLLED_BACK"} :
         /\ ListOpenLinks(p, k, target)
         /\ target = "ROLLED_BACK" => proc[p].op = "monitor"
  BY DEF HaltRunning, StopsLate, RollsBack, Monitoring
<1>3. PICK todo \in SUBSET References :
         /\ proc' = [proc EXCEPT ![p].op = "cancel", ![p].target = target, ![p].todo = todo]
         /\ UnchangedLedger /\ UNCHANGED <<late, crashes>>
  BY <1>2 DEF ListOpenLinks, OwnLinks
<1>4. /\ proc'[p].op = "cancel" /\ proc'[p].target = target /\ proc'[p].todo = todo
      /\ proc'[p].row = proc[p].row /\ proc'[p].keys = {k} /\ proc'[p].seen = proc[p].seen
      /\ proc'[p] \in Operation
      /\ proc' = [proc EXCEPT ![p] = proc'[p]]
  <2>1. proc \in [Processes -> Operation] /\ proc[p] \in Operation
    BY <1>1 DEF TypeOK, Operation
  <2>2. PICK old \in Operation : old = proc[p]
    BY <2>1
  <2>3. PICK new : /\ new = [old EXCEPT !.op = "cancel", !.target = target, !.todo = todo]
                   /\ proc' = [proc EXCEPT ![p] = new]
    BY <1>3, <2>1, <2>2
  <2>4. target \in LinkStatuses \cup Stopped
    BY DEF Stopped
  <2>5. new = [op |-> "cancel", keys |-> old.keys, row |-> old.row, todo |-> todo,
               target |-> target, seen |-> old.seen]
    BY <2>3 DEF Operation
  <2>6. new \in Operation
    BY <2>4, <2>5 DEF Operation
  <2>7. proc'[p] = new
    BY <2>1, <2>3
  <2> QED  BY <1>1, <2>2, <2>3, <2>5, <2>6, <2>7
<1>5. TypeOK'
  BY <1>1, <1>3, <1>4 DEF TypeOK, Operation, UnchangedLedger
<1>6. Keeps /\ \A j \in Keys : Stored(j)'
  BY <1>3, <1>5, StoredKept DEF UnchangedLedger
<1>7. PaidWasCaptured'
  BY <1>3 DEF UnchangedLedger, PaidWasCaptured, IInv
<1>8. InProgress(p)'
  <2>1. PICK row \in Execution : row = proc[p].row
    BY <1>1
  <2>2. GoodRow(k, row)' /\ (Allowed(k, row) => Allowed(k, row)')
    BY <1>1, <1>5, <1>6, <2>1, GoodRowKept DEF Loaded
  <2>3. target = "ROLLED_BACK" => Allowed(k, row)
    BY <1>1, <1>2, <2>1 DEF Loaded, GoodRow, Running
  <2>4. exec' = exec /\ proc'[p].row = row
    BY <1>3, <1>4, <2>1 DEF UnchangedLedger
  <2>5. Loaded(p, k)'
    BY <1>1, <1>4, <2>1, <2>2, <2>3, <2>4 DEF Loaded, GoodRow, Allowed
  <2> QED  BY <1>4, <2>5 DEF InProgress
<1>9. ASSUME NEW q \in Processes, q # p PROVE InProgress(q)'
  <2>1. proc'[q] = proc[q]
    BY <1>1, <1>3, <1>9 DEF TypeOK
  <2> QED  BY <1>5, <1>6, <2>1, OthersKept
<1> QED  BY <1>5, <1>6, <1>7, <1>8, <1>9 DEF IInv

\* A link gets a status that is not "issued", and is paid only if it was captured.
LEMMA StatusWritten ==
    ASSUME IInv, NEW p \in Processes, CancelLink(p) \/ RecordOutcome(p)
    PROVE  \E r \in References, status \in LinkStatuses :
              /\ links' = [links EXCEPT ![r].status = status]
              /\ status = "issued" => links[r].status = "issued"
              /\ status = "paid" => r \in captured
<1>1. TypeOK /\ proc[p].todo \subseteq References /\ proc[p].target \in LinkStatuses \cup Stopped
      /\ InProgress(p)
  BY DEF IInv, TypeOK
<1>2. CASE CancelLink(p)
  <2>1. "cancelled" \in LinkStatuses
    BY DEF LinkStatuses
  <2> QED  BY <1>1, <1>2, <2>1 DEF CancelLink
<1>3. CASE RecordOutcome(p)
  <2>1. PICK r \in proc[p].todo :
           links' = [links EXCEPT ![r].status =
                       IF proc[p].target # proc[p].seen THEN proc[p].target ELSE @]
    BY <1>3 DEF RecordOutcome
  <2>2. r \in References /\ links[r] \in Link
    BY <1>1 DEF TypeOK
  <2> DEFINE status == IF proc[p].target # proc[p].seen THEN proc[p].target ELSE links[r].status
  <2>3. links' = [links EXCEPT ![r].status = status]
    BY <2>1
  <2>4. status \in LinkStatuses
    BY <1>1, <1>3, <2>2 DEF Link, RecordOutcome, InProgress
  <2>5. status = "issued" => links[r].status = "issued"
    BY <1>1, <1>3 DEF RecordOutcome, InProgress
  <2>6. status = "paid" => r \in captured
    BY <1>1, <1>3, <2>2 DEF RecordOutcome, InProgress, IInv, PaidWasCaptured
  <2> QED  BY <2>2, <2>3, <2>4, <2>5, <2>6
<1> QED  BY <1>2, <1>3

\* A link changes its status, or its order is captured.
LEMMA LinkStep ==
    ASSUME IInv, NEW p \in Processes,
           CancelLink(p) \/ Capture(p) \/ RecordOutcome(p) \/ PaysOrder(p)
    PROVE  IInv'
<1>1. /\ TypeOK /\ InProgress(p) /\ UNCHANGED <<exec, late, approved, crashes>>
  BY DEF CancelLink, Capture, RecordOutcome, PaysOrder, IInv
<1>2. PICK old \in Operation : old = proc[p]
  BY <1>1 DEF TypeOK, Operation
<1>3. /\ links' \in [References -> Link]
      /\ \A r \in References : links'[r].owner = links[r].owner
      /\ \A r \in References : links'[r].status = "paid" => r \in captured
  <2>1. CASE links' = links
    BY <1>1, <2>1 DEF TypeOK, IInv, PaidWasCaptured
  <2>2. CASE CancelLink(p) \/ RecordOutcome(p)
    <3>1. PICK r \in References, status \in LinkStatuses :
             /\ links' = [links EXCEPT ![r].status = status]
             /\ status = "paid" => r \in captured
      BY <2>2, StatusWritten
    <3> QED  BY <1>1, <3>1 DEF TypeOK, Link, IInv, PaidWasCaptured
  <2> QED  BY <2>1, <2>2 DEF Capture, PaysOrder
<1>4. captured \subseteq captured' /\ captured' \subseteq References
  <2>1. old.todo \subseteq References /\ captured \subseteq References
    BY <1>1 DEF Operation, TypeOK
  <2> QED  BY <1>2, <2>1 DEF CancelLink, Capture, RecordOutcome, PaysOrder
<1>5. PICK new \in Operation :
         /\ proc' = [proc EXCEPT ![p] = new]
         /\ \/ new.op = "idle"
            \/ /\ CancelLink(p)
               /\ new.op = old.op /\ new.keys = old.keys /\ new.row = old.row
               /\ new.target = old.target
            \/ /\ Capture(p)
               /\ new.op = "record" /\ new.target = old.target /\ new.todo = old.todo
  <2>1. CASE CancelLink(p)
    <3>1. PICK r \in old.todo : proc' = [proc EXCEPT ![p].todo = @ \ {r}]
      BY <1>2, <2>1 DEF CancelLink
    <3> DEFINE new == [old EXCEPT !.todo = old.todo \ {r}]
    <3>2. /\ new \in Operation /\ new.op = old.op /\ new.keys = old.keys /\ new.row = old.row
          /\ new.target = old.target
      BY DEF Operation
    <3>3. proc' = [proc EXCEPT ![p] = new]
      BY <1>1, <1>2, <3>1 DEF TypeOK
    <3> HIDE DEF new
    <3> QED  BY <2>1, <3>2, <3>3
  <2>2. CASE Capture(p)
    <3> DEFINE new == [old EXCEPT !.op = "record"]
    <3>1. new \in Operation /\ new.op = "record" /\ new.target = old.target /\ new.todo = old.todo
      BY DEF Operation
    <3>2. proc' = [proc EXCEPT ![p] = new]
      BY <1>1, <1>2, <2>2 DEF Capture, TypeOK
    <3> HIDE DEF new
    <3> QED  BY <2>2, <3>1, <3>2
  <2>3. CASE Finish(p)
    <3>1. Idle \in Operation /\ Idle.op = "idle"
      BY ReferencesFinite DEF Idle, Operation, NoExecution, Execution, States, LinkStatuses
    <3> QED  BY <2>3, <3>1 DEF Finish
  <2> QED  BY <2>1, <2>2, <2>3 DEF RecordOutcome, PaysOrder
<1>6. TypeOK'
  BY <1>1, <1>3, <1>4, <1>5 DEF TypeOK, Operation
<1>7. Keeps /\ \A j \in Keys : Stored(j)'
  BY <1>1, <1>3, <1>4, <1>6, StoredKept
<1>8. PaidWasCaptured'
  BY <1>3, <1>4 DEF PaidWasCaptured
<1>9. InProgress(p)'
  <2>1. proc'[p] = new
    BY <1>1, <1>5 DEF TypeOK
  <2>2. CASE new.op = "idle"
    BY <2>1, <2>2 DEF InProgress
  <2>3. CASE /\ CancelLink(p)
             /\ new.op = old.op /\ new.keys = old.keys /\ new.row = old.row
             /\ new.target = old.target
    <3>1. new.op = "cancel"
      BY <1>2, <2>3 DEF CancelLink
    <3>2. ASSUME NEW k \in new.keys
          PROVE  Loaded(p, k)'
      <4>1. k \in Keys /\ Loaded(p, k)
        BY <1>1, <1>2, <2>3, <3>1 DEF InProgress, Operation
      <4>2. PICK row \in Execution : row = new.row
        BY DEF Operation
      <4>3. /\ Allowed(k, row) => Allowed(k, row)'
            /\ GoodRow(k, row) => GoodRow(k, row)'
        BY <1>1, <1>6, <1>7, <4>1, GoodRowKept
      <4> QED  BY <1>1, <1>2, <2>1, <2>3, <3>1, <4>1, <4>2, <4>3 DEF Loaded, GoodRow, Allowed
    <3> QED  BY <2>1, <3>1, <3>2 DEF InProgress
  <2>4. CASE /\ Capture(p)
             /\ new.op = "record" /\ new.target = old.target /\ new.todo = old.todo
    <3>1. new.target = "paid" /\ new.todo \subseteq captured'
      BY <1>1, <1>2, <2>4 DEF Capture, InProgress
    <3> QED  BY <2>1, <2>4, <3>1 DEF InProgress, LinkStatuses
  <2> QED  BY <1>5, <2>2, <2>3, <2>4
<1>10. ASSUME NEW q \in Processes, q # p PROVE InProgress(q)'
  <2>1. proc'[q] = proc[q]
    BY <1>1, <1>5, <1>10 DEF TypeOK
  <2> QED  BY <1>6, <1>7, <2>1, OthersKept
<1> QED  BY <1>6, <1>7, <1>8, <1>9, <1>10 DEF IInv

------------------------------------------------------------------------------
(* The theorems.                                                           *)

\* The invariant holds at first, and every step of every process keeps it.
THEOREM RecoveryInductive == Spec => []IInv
<1>1. Init => IInv
  <2> SUFFICES ASSUME Init PROVE IInv
    OBVIOUS
  <2>1. NoExecution \in Execution /\ Idle \in Operation /\ Cardinality({}) = 0
    BY ReferencesFinite, FS_EmptySet
       DEF Idle, Operation, NoExecution, Execution, States, LinkStatuses
  <2>2. TypeOK
    BY <2>1, RecoveryAssumption DEF Init, TypeOK, NoLink, Link, LinkStatuses, Operation
  <2>3. \A k \in Keys : Stored(k)
    <3> SUFFICES ASSUME NEW k \in Keys PROVE Stored(k)
      OBVIOUS
    <3>1. OwnLinks(k) = {}
      <4>1. \A r \in References : links[r].owner = {}
        BY DEF Init, NoLink
      <4> QED  BY <4>1 DEF OwnLinks
    <3>2. /\ exec[k].decision = "none" /\ exec[k].state = "absent"
          /\ exec[k].recovered = 0 /\ Cardinality(captured) = 0
      BY <2>1 DEF Init, NoExecution
    <3> QED  BY <3>1, <3>2 DEF Stored, GoodRow, Running, Monitored
  <2>4. \A p \in Processes : InProgress(p)
    BY DEF Init, InProgress, Idle
  <2>5. PaidWasCaptured
    BY DEF Init, PaidWasCaptured, NoLink
  <2> QED  BY <2>2, <2>3, <2>4, <2>5 DEF IInv
<1>2. IInv /\ [Next]_vars => IInv'
  <2> SUFFICES ASSUME IInv, [Next]_vars PROVE IInv'
    OBVIOUS
  <2>1. CASE UNCHANGED vars
    BY <2>1, IdleStep DEF vars, UnchangedLedger, IInv, TypeOK
  <2>2. ASSUME NEW k \in Keys, Elapse(k) PROVE IInv'
    BY <2>2, IdleStep DEF Elapse, UnchangedLedger, IInv, TypeOK
  <2>3. ASSUME NEW p \in Processes, Crash(p) PROVE IInv'
    BY <2>3, IdleStep, RecoveryAssumption DEF Crash, UnchangedLedger, IInv, TypeOK
  <2>4. ASSUME NEW p \in Processes, NEW k \in Keys, RequestIsDuplicate(p, k) \/ Waits(p, k)
        PROVE  IInv'
    BY <2>4, IdleStep DEF RequestIsDuplicate, Waits, UnchangedLedger, IInv, TypeOK
  <2>5. ASSUME NEW p \in Processes, GoesOn(p) PROVE IInv'
    BY <2>4, <2>5, RequestStep, DispatchLoaded, EndStep, ListStep, LinkStep DEF GoesOn
  <2>6. ASSUME NEW p \in Processes, Begins(p) PROVE IInv'
    BY <2>6, BeginsStep
  <2> QED  BY <2>1, <2>2, <2>3, <2>5, <2>6 DEF Next
<1> QED  BY <1>1, <1>2, PTL DEF Spec

\* Every variable of the executor's model always has its type.
THEOREM RecoveryTypeCorrect == Spec => []TypeOK
<1>1. IInv => TypeOK
  BY DEF IInv
<1> QED  BY <1>1, RecoveryInductive, PTL

\* Whatever handlers load and write past each other, no link is issued and no action
\* goes on that the policy refused, or that it left to an approval nobody gave.
THEOREM PolicyPrevails == Spec => []PolicyHasLastWord
<1>1. IInv => PolicyHasLastWord
  BY DEF IInv, Stored, GoodRow, Allowed, Running, PolicyHasLastWord
<1> QED  BY <1>1, RecoveryInductive, PTL

\* An execution claims no more links than were captured, and a link that is paid was captured.
THEOREM ClaimsAreBacked == Spec => []ClaimedWasCaptured
<1>1. IInv => ClaimedWasCaptured
  BY DEF IInv, Stored, GoodRow, PaidWasCaptured, ClaimedWasCaptured
<1> QED  BY <1>1, RecoveryInductive, PTL

\* No approval, retry, cancellation or outcome makes a link that was issued before
\* payable in full again.
THEOREM LinksIssuedOnce == Spec => IssuedOnce
<1> DEFINE Once == \A r \in References :
                      links[r].status # "none" /\ links'[r].status = "issued"
                          => links[r].status = "issued"
<1>1. IInv /\ [Next]_vars => [Once]_vars
  <2> SUFFICES ASSUME IInv, Next PROVE Once
    BY DEF vars
  <2>1. CASE links' = links
    BY <2>1
  <2>2. ASSUME NEW p \in Processes, CancelLink(p) \/ RecordOutcome(p) PROVE Once
    <3>1. PICK r \in References, status \in LinkStatuses :
             /\ links' = [links EXCEPT ![r].status = status]
             /\ status = "issued" => links[r].status = "issued"
      BY <2>2, StatusWritten
    <3> QED  BY <3>1 DEF IInv, TypeOK, Link
  <2>3. ASSUME NEW k \in Keys, NEW row, IssueLinks(k, row) PROVE Once
    BY <2>3 DEF IssueLinks
  <2>4. ASSUME NEW k \in Keys, NEW row, Dispatch(k, row) PROVE Once
    BY <2>1, <2>3, <2>4 DEF Dispatch, DispatchFails, DispatchLocal, DispatchSimulator
  <2>5. ASSUME NEW p \in Processes, GoesOn(p) PROVE Once
    <3>1. ASSUME NEW k \in Keys, RequestInserts(p, k) \/ Approve(p, k) \/ Retry(p, k) PROVE Once
      BY <2>1, <2>4, <3>1 DEF RequestInserts, Decide, Approve, Retry
    <3>2. ASSUME NEW k \in Keys,
                 \/ RequestIsDuplicate(p, k) \/ HaltValidated(p, k) \/ HaltRunning(p, k)
                 \/ Stop(p, k) \/ StopsLate(p, k) \/ RollsBack(p, k) \/ Settles(p, k)
                 \/ Waits(p, k)
          PROVE  Once
      BY <2>1, <3>2 DEF RequestIsDuplicate, HaltValidated, HaltRunning, Stop, StopsLate,
                        RollsBack, Settles, Waits, ListOpenLinks, UnchangedLedger
    <3>3. CASE Capture(p) \/ PaysOrder(p)
      BY <2>1, <3>3 DEF Capture, PaysOrder
    <3> QED  BY <2>2, <2>5, <3>1, <3>2, <3>3 DEF GoesOn
  <2>6. ASSUME NEW p \in Processes, Begins(p) \/ Crash(p) PROVE Once
    BY <2>1, <2>6 DEF Begins, Crash, RequestLooks, ApproveLooks, HaltLooks, MonitorLooks,
                      OutcomeLooks, PaysOrderLooks, UnchangedLedger
  <2>7. ASSUME NEW k \in Keys, Elapse(k) PROVE Once
    BY <2>1, <2>7 DEF Elapse, UnchangedLedger
  <2> QED  BY <2>5, <2>6, <2>7 DEF Next
<1> QED  BY <1>1, RecoveryInductive, PTL DEF Spec, IssuedOnce

==============================================================================
