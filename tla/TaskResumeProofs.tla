-------------------------- MODULE TaskResumeProofs --------------------------
(***************************************************************************)
(* Safety of the resume store and of the approve and cancel routes, for    *)
(* any tasks, any number of overlapping requests and any limit: claims are *)
(* exclusive, a snapshot is resumed once, nothing runs after a             *)
(* cancellation, the store stays within its limit, and the whole           *)
(* implements TaskLifecycle.                                               *)
(*                                                                         *)
(* The argument: only a registered task has a record or a request          *)
(* (OnlyRegistered).  A claim needs a waiting record and leaves it         *)
(* EXECUTING, so there is one claim at a time (ClaimIsExclusive) and a     *)
(* confirmed cancellation excludes every later one (CancelledIsOver).  The *)
(* time stamps grow (RecordsStamped, RequestsStamped), so the record a     *)
(* request claims is the one it has read (RecordsAsSeen,                   *)
(* SeenBeforeClaims), and so the turns are resumed in their order          *)
(* (TurnsOfRecords, TurnsOfClaims).  No two time stamps are equal          *)
(* (StampsDiffer), so the trim finds no more newest records than it keeps. *)
(***************************************************************************)
EXTENDS TaskResume, FiniteSetTheorems, TLAPS

(***************************************************************************)
(* The invariant.                                                          *)
(***************************************************************************)
\* Only a registered task has a record, a request, a run or a cancellation.
OnlyRegistered ==
    /\ \A t \in Tasks : phase[t] # "registered" =>
          /\ store[t] = Absent
          /\ runs[t] = << >>
          /\ claims[t] = 0
          /\ t \notin cancelled
    /\ \A r \in Requests : pc[r] # "idle" => phase[task[r]] = "registered"

\* A cancelled task keeps its status and is in nobody's claim.
CancelledIsOver ==
    \A t \in cancelled :
        /\ store[t] # Absent => store[t].status = "CANCELLED"
        /\ \A r \in Requests : HoldsClaim(r) => task[r] # t

\* Every time stamp was drawn by now.
RecordsStamped ==
    \A t \in Tasks : drawn[t] <= now /\ (store[t] # Absent => store[t].version <= now)
RequestsStamped ==
    \A r \in Requests :
        /\ pc[r] = "read" => seen[r].version <= now
        /\ HoldsClaim(r) => claim[r] <= now
        /\ pc[r] = "ran" => claim[r] < stamp[r] /\ stamp[r] <= now

\* A record that still has the time stamp a request has read is the record it
\* has read; what was read before a claim is older than the claim.
RecordsAsSeen ==
    \A q \in Requests :
        pc[q] = "read" /\ store[task[q]] # Absent
            /\ store[task[q]].version = seen[q].version =>
                store[task[q]].turn = seen[q].turn
SeenBeforeClaims ==
    \A q, r \in Requests :
        pc[q] = "read" /\ HoldsClaim(r) /\ task[r] = task[q] => seen[q].version < claim[r]

\* A waiting record holds the snapshot after the last one that was resumed,
\* and a claim has resumed its own at most once.
TurnsOfRecords ==
    \A t \in Tasks :
        store[t] # Absent /\ store[t].status = "WAITING" =>
            store[t].turn = Len(runs[t]) + 1 /\ claims[t] = Len(runs[t])
TurnsOfClaims ==
    \A r \in Requests :
        /\ pc[r] = "claimed" =>
            seen[r].turn = Len(runs[task[r]]) + 1 /\ claims[task[r]] = Len(runs[task[r]]) + 1
        /\ pc[r] \in {"ran", "failing"} =>
            seen[r].turn = Len(runs[task[r]]) /\ claims[task[r]] = Len(runs[task[r]])

IInv ==
    /\ TypeOK
    /\ OnlyRegistered
    /\ ClaimIsExclusive
    /\ CancelledIsOver
    /\ RecordsStamped
    /\ RequestsStamped
    /\ RecordsAsSeen
    /\ SeenBeforeClaims
    /\ TurnsOfRecords
    /\ TurnsOfClaims
    /\ SnapshotsRunOnce
    /\ OrphanNeedsFailure

(***************************************************************************)
(* Types.                                                                  *)
(***************************************************************************)
LEMMA TypeInit == Init => TypeOK
  BY ConstantsAssumption DEF Init, TypeOK, VariableTypes, BusyTypes, ConstantsAssumption, Nothing, Idle

\* What most steps need of the types: domains, numbers and busy requests.
LEMMA Shapes ==
  ASSUME TypeOK
  PROVE  /\ DOMAIN store = Tasks /\ DOMAIN phase = Tasks /\ DOMAIN drawn = Tasks
         /\ DOMAIN runs = Tasks /\ DOMAIN claims = Tasks
         /\ DOMAIN pc = Requests /\ DOMAIN task = Requests /\ DOMAIN seen = Requests
         /\ DOMAIN claim = Requests /\ DOMAIN result = Requests /\ DOMAIN stamp = Requests
         /\ now \in Nat /\ cancelled \subseteq Tasks
         /\ \A t \in Tasks : /\ drawn[t] \in Nat /\ claims[t] \in Nat
                             /\ Len(runs[t]) \in Nat
                             /\ store[t] # Absent => store[t].version \in Nat
         /\ \A r \in Requests : /\ seen[r].version \in Nat /\ seen[r].turn \in Nat
                                /\ claim[r] \in Nat /\ stamp[r] \in Nat
                                /\ pc[r] # "idle" => task[r] \in Tasks
                                /\ pc[r] = "ran" => result[r] \in Results
<1>1. \A t \in Tasks : store[t] # Absent => store[t].version \in Nat
    BY DEF TypeOK, VariableTypes, Record
<1>2. \A r \in Requests : pc[r] # "idle" => task[r] \in Tasks
    BY DEF TypeOK, VariableTypes, BusyTypes
<1> QED BY <1>1, <1>2 DEF TypeOK, VariableTypes, BusyTypes

(***************************************************************************)
(* What the operations that write the file do to it, record by record.     *)
(***************************************************************************)
\* The record of t becomes one with status s, time stamp v and turn k.
WritesRecord(t, s, v, k) ==
    /\ t \in Tasks
    /\ store' \in [Tasks -> Record \cup {Absent}]
    /\ store'[t] # Absent
    /\ store'[t].status = s /\ store'[t].version = v /\ store'[t].turn = k
    /\ \A u \in Tasks : u # t => store'[u] = store[u]

\* A registration writes its own record, or drops it, and keeps or drops the
\* others.
RegisterWrites(t) ==
    /\ phase[t] = "drawn"
    /\ store' \in [Tasks -> Record \cup {Absent}]
    /\ \A u \in Tasks : u # t => store'[u] \in {store[u], Absent}
    /\ store'[t] # Absent =>
          store'[t].status = "WAITING" /\ store'[t].version = drawn[t] /\ store'[t].turn = 1
    /\ phase' = [phase EXCEPT ![t] = "registered"]
    /\ drawn' = [drawn EXCEPT ![t] = 0]
    /\ UNCHANGED <<now, request, history>>

CancelWrites(t) ==
    /\ store[t] # Absent /\ store[t].status = "WAITING"
    /\ WritesRecord(t, "CANCELLED", now + 1, store[t].turn)
    /\ now' = now + 1
    /\ cancelled' = cancelled \cup {t}
    /\ UNCHANGED <<registration, request, runs, claims, orphaned>>

ClaimWrites(r) ==
    /\ pc[r] = "read" /\ task[r] \in Tasks
    /\ store[task[r]] # Absent /\ store[task[r]].status = "WAITING"
    /\ store[task[r]].version = seen[r].version
    /\ WritesRecord(task[r], "EXECUTING", now + 1, store[task[r]].turn)
    /\ now' = now + 1
    /\ pc' = [pc EXCEPT ![r] = "claimed"]
    /\ claim' = [claim EXCEPT ![r] = now + 1]
    /\ claims' = [claims EXCEPT ![task[r]] = @ + 1]
    /\ UNCHANGED <<registration, task, seen, result, stamp, runs, cancelled, orphaned>>

\* The turn of the record a result is written as.
NextTurn(r) == seen[r].turn + (IF result[r] = "WAITING" THEN 1 ELSE 0)

ResultWrites(r) ==
    /\ pc[r] = "ran" /\ task[r] \in Tasks /\ Owned(store, r)
    /\ result[r] \in Results
    /\ WritesRecord(task[r], result[r], stamp[r], NextTurn(r))
    /\ Reply(r)
    /\ UNCHANGED <<now, registration, history>>

FailureWrites(r) ==
    /\ pc[r] = "failing" /\ task[r] \in Tasks /\ Owned(store, r)
    /\ WritesRecord(task[r], "BLOCKED", now + 1, store[task[r]].turn)
    /\ now' = now + 1
    /\ Reply(r)
    /\ UNCHANGED <<registration, history>>

LEMMA RecordUpdate ==
  ASSUME TypeOK, NEW t \in Tasks, NEW rec \in Record, store' = [store EXCEPT ![t] = rec]
  PROVE  WritesRecord(t, rec.status, rec.version, rec.turn)
<1>1. rec # Absent
    BY ConstantsAssumption DEF ConstantsAssumption
<1>2. store' \in [Tasks -> Record \cup {Absent}]
    BY DEF TypeOK, VariableTypes
<1>3. store'[t] = rec /\ \A u \in Tasks : u # t => store'[u] = store[u]
    BY DEF TypeOK, VariableTypes
<1> QED BY <1>1, <1>2, <1>3 DEF WritesRecord

LEMMA StoredRecord ==
  ASSUME TypeOK, NEW t \in Tasks, store[t] # Absent
  PROVE  /\ store[t] \in Record
         /\ store[t].status \in Status /\ store[t].version \in Nat
         /\ store[t].snap \in Results /\ store[t].turn \in 1..MaxTurns
  BY DEF TypeOK, VariableTypes, Record

LEMMA BusyRequest ==
  ASSUME TypeOK, NEW r \in Requests, pc[r] # "idle"
  PROVE  task[r] \in Tasks /\ seen[r].turn \in 1..MaxTurns
  BY DEF TypeOK, VariableTypes, BusyTypes

LEMMA CancelEffect ==
  ASSUME TypeOK, NEW t \in Tasks, cancel_waiting_task(t)
  PROVE  CancelWrites(t)
<1> DEFINE rec == [store[t] EXCEPT !.status = "CANCELLED", !.version = now + 1,
                                   !.snap = "CANCELLED"]
<1>1. store[t] \in Record
    BY StoredRecord DEF cancel_waiting_task
<1>2. now + 1 \in Nat /\ "CANCELLED" \in Results /\ "CANCELLED" \in Status
    BY DEF TypeOK, VariableTypes, Results, Status, Terminal
<1>3. /\ rec \in Record /\ rec.turn = store[t].turn
      /\ rec.status = "CANCELLED" /\ rec.version = now + 1
    BY <1>1, <1>2 DEF Record
<1>4. store' = [store EXCEPT ![t] = rec] /\ now' = now + 1
    BY DEF cancel_waiting_task, Save, Stamp
<1> HIDE DEF rec
<1>5. WritesRecord(t, "CANCELLED", now + 1, store[t].turn)
    BY <1>3, <1>4, RecordUpdate
<1> QED BY <1>4, <1>5 DEF CancelWrites, cancel_waiting_task

LEMMA ClaimEffect ==
  ASSUME TypeOK, NEW r \in Requests, claim_waiting_task(r)
  PROVE  ClaimWrites(r)
<1> DEFINE rec == [[store[task[r]] EXCEPT !.status = "EXECUTING"] EXCEPT !.version = now + 1]
<1>1. task[r] \in Tasks
    BY BusyRequest DEF claim_waiting_task
<1>2. store[task[r]] \in Record
    BY <1>1, StoredRecord DEF claim_waiting_task, Claimable
<1>3. now + 1 \in Nat /\ "EXECUTING" \in Status
    BY DEF TypeOK, VariableTypes, Status
<1>4. /\ rec \in Record /\ rec.turn = store[task[r]].turn
      /\ rec.status = "EXECUTING" /\ rec.version = now + 1
    BY <1>2, <1>3 DEF Record
<1>5. store' = [store EXCEPT ![task[r]] = rec] /\ now' = now + 1
    BY <1>1 DEF claim_waiting_task, Save, Stamp, TypeOK, VariableTypes
<1> HIDE DEF rec
<1>6. WritesRecord(task[r], "EXECUTING", now + 1, store[task[r]].turn)
    BY <1>1, <1>4, <1>5, RecordUpdate
<1> QED BY <1>1, <1>5, <1>6 DEF ClaimWrites, claim_waiting_task, Claimable, Stamp

LEMMA FailureEffect ==
  ASSUME TypeOK, NEW r \in Requests, finalize_claimed_failure(r)
  PROVE  FailureWrites(r)
<1> DEFINE rec == [store[task[r]] EXCEPT !.status = "BLOCKED", !.version = now + 1,
                                         !.snap = "BLOCKED"]
<1>1. task[r] \in Tasks
  <2>1. pc[r] # "idle"
      BY DEF finalize_claimed_failure
  <2> QED BY <2>1, BusyRequest
<1>2. store[task[r]] \in Record
    BY <1>1, StoredRecord DEF finalize_claimed_failure, Owned
<1>3. now + 1 \in Nat /\ "BLOCKED" \in Status /\ "BLOCKED" \in Results
    BY DEF TypeOK, VariableTypes, Status, Results, Terminal
<1>4. /\ rec \in Record /\ rec.turn = store[task[r]].turn
      /\ rec.status = "BLOCKED" /\ rec.version = now + 1
    BY <1>2, <1>3 DEF Record
<1>5. store' = [store EXCEPT ![task[r]] = rec] /\ now' = now + 1
    BY DEF finalize_claimed_failure, Save, Stamp
<1> HIDE DEF rec
<1>6. WritesRecord(task[r], "BLOCKED", now + 1, store[task[r]].turn)
    BY <1>1, <1>4, <1>5, RecordUpdate
<1> QED BY <1>1, <1>5, <1>6 DEF FailureWrites, finalize_claimed_failure

LEMMA ResultEffect ==
  ASSUME TypeOK, NEW r \in Requests, finalize_claimed_task(r)
  PROVE  ResultWrites(r)
<1>1. /\ task[r] \in Tasks
      /\ result[r] \in Results /\ result[r] \in Status
      /\ stamp[r] \in Nat
      /\ NextTurn(r) \in 1..MaxTurns
    BY ConstantsAssumption
       DEF finalize_claimed_task, TypeOK, VariableTypes, BusyTypes, Status,
           ConstantsAssumption, NextTurn
<1>2. ResultRecord(r) \in Record
    BY <1>1 DEF ResultRecord, Record, NextTurn
<1>3. WritesRecord(task[r], result[r], stamp[r], NextTurn(r))
    BY <1>1, <1>2, RecordUpdate DEF finalize_claimed_task, ResultRecord, NextTurn
<1> QED BY <1>1, <1>3 DEF ResultWrites, finalize_claimed_task

LEMMA RegisterEffect ==
  ASSUME TypeOK, NEW t \in Tasks, register_waiting_task(t)
  PROVE  RegisterWrites(t)
<1> DEFINE rec == [status |-> "WAITING", version |-> drawn[t], snap |-> "WAITING",
                   turn |-> 1]
<1>1. rec \in Record
    BY ConstantsAssumption
       DEF ConstantsAssumption, TypeOK, VariableTypes, Record, Status, Results
<1>2. PICK s \in {store, Nothing} : store' = trim_tasks([s EXCEPT ![t] = rec])
    BY DEF register_waiting_task, load_store
<1>3. s \in [Tasks -> Record \cup {Absent}]
    BY DEF Nothing, TypeOK, VariableTypes
<1>4. \A u \in Tasks : s[u] \in {store[u], Absent}
    BY DEF Nothing
<1>5. store' \in [Tasks -> Record \cup {Absent}]
      /\ \A u \in Tasks : store'[u] \in {[s EXCEPT ![t] = rec][u], Absent}
    BY <1>1, <1>2, <1>3 DEF trim_tasks
<1>6. store'[t] \in {rec, Absent} /\ \A u \in Tasks : u # t => store'[u] \in {s[u], Absent}
    BY <1>3, <1>5
<1>7. \A u \in Tasks : u # t => store'[u] \in {store[u], Absent}
    BY <1>4, <1>6
<1>8. /\ phase[t] = "drawn" /\ phase' = [phase EXCEPT ![t] = "registered"]
      /\ drawn' = [drawn EXCEPT ![t] = 0]
      /\ UNCHANGED <<now, request, history>>
    BY DEF register_waiting_task
<1>9. store'[t] # Absent => store'[t].status = "WAITING"
          /\ store'[t].version = drawn[t] /\ store'[t].turn = 1
    BY <1>6
<1> QED BY <1>5, <1>7, <1>8, <1>9 DEF RegisterWrites

\* Every step keeps the types.
LEMMA VariableTypesStep ==
  ASSUME TypeOK, [Next]_vars
  PROVE  VariableTypes'
<1>1. ASSUME NEW t \in Tasks, DrawTask(t)
      PROVE  VariableTypes'
    BY <1>1, ConstantsAssumption DEF TypeOK, VariableTypes, BusyTypes, Record,
       Results, Terminal, Status, DrawTask, Stamp, request, history
<1>2. ASSUME NEW t \in Tasks, register_waiting_task(t)
      PROVE  VariableTypes'
  <2>1. RegisterWrites(t)
      BY <1>2, RegisterEffect
  <2> QED
      BY <2>1, ConstantsAssumption DEF TypeOK, VariableTypes, BusyTypes, Record,
         Results, Terminal, Status, RegisterWrites, request, history
<1>3. ASSUME NEW t \in Tasks, RegisterFails(t)
      PROVE  VariableTypes'
    BY <1>3, ConstantsAssumption DEF TypeOK, VariableTypes, BusyTypes, Record,
       Results, Terminal, Status, RegisterFails, request, history
<1>4. ASSUME NEW t \in Tasks, cancel_waiting_task(t)
      PROVE  VariableTypes'
  <2>1. CancelWrites(t)
      BY <1>4, CancelEffect
  <2> QED
      BY <2>1, ConstantsAssumption DEF TypeOK, VariableTypes, BusyTypes, Record,
         Results, Terminal, Status, CancelWrites, WritesRecord, registration, request
<1>5. ASSUME NEW r \in Requests, NEW t \in Tasks, ReadRecord(r, t)
      PROVE  VariableTypes'
    BY <1>5, ConstantsAssumption DEF TypeOK, VariableTypes, BusyTypes, Record,
       Results, Terminal, Status, ReadRecord, registration, history
<1>6. ASSUME NEW r \in Requests, Refuse(r)
      PROVE  VariableTypes'
    BY <1>6, ConstantsAssumption DEF TypeOK, VariableTypes, BusyTypes, Record,
       Results, Terminal, Status, Refuse, Reply, Idle, registration, history
<1>7. ASSUME NEW r \in Requests, claim_waiting_task(r)
      PROVE  VariableTypes'
  <2>1. ClaimWrites(r)
      BY <1>7, ClaimEffect
  <2> QED
      BY <2>1, ConstantsAssumption DEF TypeOK, VariableTypes, BusyTypes, Record,
         Results, Terminal, Status, ClaimWrites, WritesRecord, registration
<1>8. ASSUME NEW r \in Requests, ClaimFails(r)
      PROVE  VariableTypes'
    BY <1>8, ConstantsAssumption DEF TypeOK, VariableTypes, BusyTypes, Record,
       Results, Terminal, Status, ClaimFails, Reply, Idle, registration, history
<1>9. ASSUME NEW r \in Requests, NEW x \in Results \cup {"RAISED"}, continue_task_loop(r, x)
      PROVE  VariableTypes'
  <2>1. task[r] \in Tasks /\ seen[r].turn \in 1..MaxTurns
      BY <1>9, BusyRequest DEF continue_task_loop
  <2>2. runs' \in [Tasks -> Seq(1..MaxTurns)]
    <3> DEFINE s == Append(runs[task[r]], seen[r].turn)
    <3>1. s \in Seq(1..MaxTurns)
        BY <2>1 DEF TypeOK, VariableTypes
    <3>2. runs' = [runs EXCEPT ![task[r]] = s]
        BY <1>9 DEF continue_task_loop
    <3> HIDE DEF s
    <3> QED BY <2>1, <3>1, <3>2 DEF TypeOK, VariableTypes
  <2>3. /\ pc' \in [Requests -> {"idle", "read", "claimed", "ran", "failing"}]
        /\ result' \in [Requests -> Results \cup {"NONE", "RAISED"}]
      BY <1>9 DEF continue_task_loop, TypeOK, VariableTypes
  <2>4. stamp' \in [Requests -> Nat] /\ now' \in Nat
    <3>1. now + 1 \in Nat /\ stamp \in [Requests -> Nat] /\ now \in Nat
        BY DEF TypeOK, VariableTypes
    <3>2. \/ stamp' = stamp /\ now' = now
          \/ stamp' = [stamp EXCEPT ![r] = now + 1] /\ now' = now + 1
        BY <1>9 DEF continue_task_loop, Stamp
    <3> QED BY <3>1, <3>2
  <2>5. UNCHANGED <<store, phase, drawn, task, seen, claim, cancelled, claims, orphaned>>
      BY <1>9 DEF continue_task_loop, registration
  <2> QED BY <2>2, <2>3, <2>4, <2>5 DEF TypeOK, VariableTypes
<1>10. ASSUME NEW r \in Requests, finalize_claimed_task(r)
      PROVE  VariableTypes'
  <2>1. ResultWrites(r)
      BY <1>10, ResultEffect
  <2> QED
      BY <2>1, ConstantsAssumption DEF TypeOK, VariableTypes, BusyTypes, Record,
         Results, Terminal, Status, ResultWrites, WritesRecord, NextTurn, Reply, Idle,
         Owned, registration, history
<1>11. ASSUME NEW r \in Requests, ResultDropped(r)
      PROVE  VariableTypes'
    BY <1>11, ConstantsAssumption DEF TypeOK, VariableTypes, BusyTypes, Record,
       Results, Terminal, Status, ResultDropped, Reply, Owned, Orphan, Idle,
       registration
<1>12. ASSUME NEW r \in Requests, FinalizeRaises(r)
      PROVE  VariableTypes'
    BY <1>12, ConstantsAssumption DEF TypeOK, VariableTypes, BusyTypes, Record,
       Results, Terminal, Status, FinalizeRaises, registration, history
<1>13. ASSUME NEW r \in Requests, finalize_claimed_failure(r)
      PROVE  VariableTypes'
  <2>1. FailureWrites(r)
      BY <1>13, FailureEffect
  <2> QED
      BY <2>1, ConstantsAssumption DEF TypeOK, VariableTypes, BusyTypes, Record,
         Results, Terminal, Status, FailureWrites, WritesRecord, Reply, Idle, Owned,
         registration, history
<1>14. ASSUME NEW r \in Requests, FailureDropped(r)
      PROVE  VariableTypes'
  <2>1. orphaned' \subseteq Tasks
      BY <1>14, Shapes DEF FailureDropped, Orphan, TypeOK, VariableTypes
  <2> QED BY <1>14, <2>1, ConstantsAssumption
         DEF FailureDropped, Reply, Idle, registration, ConstantsAssumption, TypeOK,
             VariableTypes
<1>15. CASE Crash
    BY <1>15, ConstantsAssumption DEF TypeOK, VariableTypes, BusyTypes, Record,
       Results, Terminal, Status, Crash, Owned, Orphan, Idle
<1>16. CASE UNCHANGED vars
    BY <1>16, ConstantsAssumption DEF TypeOK, VariableTypes, BusyTypes, Record,
       Results, Terminal, Status, vars, registration, request, history
<1> QED
    BY <1>1, <1>2, <1>3, <1>4, <1>5, <1>6, <1>7, <1>8, <1>9, <1>10, <1>11, <1>12,
       <1>13, <1>14, <1>15, <1>16 DEF Next, approve_task, Claimed

LEMMA BusyTypesStep ==
  ASSUME TypeOK, NEW q \in Requests, [Next]_vars
  PROVE  BusyTypes(q)'
<1>1. ASSUME NEW t \in Tasks, DrawTask(t)
      PROVE  BusyTypes(q)'
    BY <1>1, ConstantsAssumption, Shapes DEF BusyTypes, TypeOK, DrawTask, Stamp,
       request, history
<1>2. ASSUME NEW t \in Tasks, register_waiting_task(t)
      PROVE  BusyTypes(q)'
  <2>1. RegisterWrites(t)
      BY <1>2, RegisterEffect
  <2> QED
      BY <2>1, ConstantsAssumption, Shapes DEF BusyTypes, TypeOK, RegisterWrites,
         request, history
<1>3. ASSUME NEW t \in Tasks, RegisterFails(t)
      PROVE  BusyTypes(q)'
    BY <1>3, ConstantsAssumption, Shapes DEF BusyTypes, TypeOK, RegisterFails,
       request, history
<1>4. ASSUME NEW t \in Tasks, cancel_waiting_task(t)
      PROVE  BusyTypes(q)'
  <2>1. CancelWrites(t)
      BY <1>4, CancelEffect
  <2> QED
      BY <2>1, ConstantsAssumption, Shapes DEF BusyTypes, TypeOK, CancelWrites,
         WritesRecord, registration, request
<1>5. ASSUME NEW r \in Requests, NEW t \in Tasks, ReadRecord(r, t)
      PROVE  BusyTypes(q)'
  <2>1. store[t].turn \in 1..MaxTurns
      BY <1>5, StoredRecord DEF ReadRecord
  <2>2. task'[r] = t /\ seen'[r].turn = store[t].turn
      BY <1>5, Shapes DEF ReadRecord
  <2>3. \A p \in Requests : p # r => pc'[p] = pc[p] /\ task'[p] = task[p] /\ seen'[p] = seen[p]
      BY <1>5, Shapes DEF ReadRecord
  <2>4. pc'[r] = "read" /\ result' = result /\ pc[r] = "idle"
      BY <1>5, Shapes DEF ReadRecord
  <2>5. CASE q = r
      BY <2>1, <2>2, <2>4, <2>5, <1>5 DEF BusyTypes, TypeOK
  <2>6. CASE q # r
      BY <2>3, <2>4, <2>6 DEF BusyTypes, TypeOK
  <2> QED BY <2>5, <2>6
<1>6. ASSUME NEW r \in Requests, Refuse(r)
      PROVE  BusyTypes(q)'
    BY <1>6, ConstantsAssumption, Shapes DEF BusyTypes, TypeOK, Refuse, Reply, Idle,
       registration, history
<1>7. ASSUME NEW r \in Requests, claim_waiting_task(r)
      PROVE  BusyTypes(q)'
  <2>1. ClaimWrites(r)
      BY <1>7, ClaimEffect
  <2> QED
      BY <2>1, ConstantsAssumption, Shapes DEF BusyTypes, TypeOK, ClaimWrites,
         WritesRecord, registration
<1>8. ASSUME NEW r \in Requests, ClaimFails(r)
      PROVE  BusyTypes(q)'
    BY <1>8, ConstantsAssumption, Shapes DEF BusyTypes, TypeOK, ClaimFails, Reply,
       Idle, registration, history
<1>9. ASSUME NEW r \in Requests, NEW x \in Results \cup {"RAISED"}, continue_task_loop(r, x)
      PROVE  BusyTypes(q)'
  <2>1. CASE x = "RAISED"
      BY <2>1, <1>9, ConstantsAssumption, Shapes DEF BusyTypes, TypeOK,
         continue_task_loop, Stamp, registration
  <2>2. CASE x # "RAISED"
      BY <2>2, <1>9, ConstantsAssumption, Shapes DEF BusyTypes, TypeOK,
         continue_task_loop, Stamp, registration
  <2> QED BY <2>1, <2>2
<1>10. ASSUME NEW r \in Requests, finalize_claimed_task(r)
      PROVE  BusyTypes(q)'
  <2>1. ResultWrites(r)
      BY <1>10, ResultEffect
  <2> QED
      BY <2>1, ConstantsAssumption, Shapes DEF BusyTypes, TypeOK, ResultWrites,
         WritesRecord, NextTurn, Reply, Idle, Owned, registration, history
<1>11. ASSUME NEW r \in Requests, ResultDropped(r)
      PROVE  BusyTypes(q)'
    BY <1>11, ConstantsAssumption, Shapes DEF BusyTypes, TypeOK, ResultDropped, Reply,
       Owned, Orphan, Idle, registration
<1>12. ASSUME NEW r \in Requests, FinalizeRaises(r)
      PROVE  BusyTypes(q)'
    BY <1>12, ConstantsAssumption, Shapes DEF BusyTypes, TypeOK, FinalizeRaises,
       registration, history
<1>13. ASSUME NEW r \in Requests, finalize_claimed_failure(r)
      PROVE  BusyTypes(q)'
  <2>1. FailureWrites(r)
      BY <1>13, FailureEffect
  <2> QED
      BY <2>1, ConstantsAssumption, Shapes DEF BusyTypes, TypeOK, FailureWrites,
         WritesRecord, Reply, Idle, Owned, registration, history
<1>14. ASSUME NEW r \in Requests, FailureDropped(r)
      PROVE  BusyTypes(q)'
    BY <1>14, ConstantsAssumption, Shapes DEF BusyTypes, TypeOK, FailureDropped,
       Reply, Owned, Orphan, Idle, registration
<1>15. CASE Crash
    BY <1>15, ConstantsAssumption, Shapes DEF BusyTypes, TypeOK, Crash, Owned, Orphan,
       Idle
<1>16. CASE UNCHANGED vars
    BY <1>16, ConstantsAssumption, Shapes DEF BusyTypes, TypeOK, vars, registration,
       request, history
<1> QED
    BY <1>1, <1>2, <1>3, <1>4, <1>5, <1>6, <1>7, <1>8, <1>9, <1>10, <1>11, <1>12,
       <1>13, <1>14, <1>15, <1>16 DEF Next, approve_task, Claimed

(***************************************************************************)
(* Claims and cancellations.                                               *)
(***************************************************************************)
LEMMA RegisteredInit == Init => OnlyRegistered
  BY DEF Init, OnlyRegistered, Nothing

\* A registration comes before everything else that happens to a task.
LEMMA RegisteredStep ==
  ASSUME TypeOK, OnlyRegistered, [Next]_vars
  PROVE  OnlyRegistered'
<1>1. ASSUME NEW t \in Tasks, DrawTask(t)
      PROVE  OnlyRegistered'
    BY <1>1, Shapes DEF OnlyRegistered, DrawTask, Stamp, request, history
<1>2. ASSUME NEW t \in Tasks, register_waiting_task(t)
      PROVE  OnlyRegistered'
  <2>1. RegisterWrites(t)
      BY <1>2, RegisterEffect
  <2> QED
      BY <2>1, Shapes DEF OnlyRegistered, RegisterWrites, request, history
<1>3. ASSUME NEW t \in Tasks, RegisterFails(t)
      PROVE  OnlyRegistered'
    BY <1>3, Shapes DEF OnlyRegistered, RegisterFails, request, history
<1>4. ASSUME NEW t \in Tasks, cancel_waiting_task(t)
      PROVE  OnlyRegistered'
  <2>1. CancelWrites(t)
      BY <1>4, CancelEffect
  <2> QED
      BY <2>1, Shapes DEF OnlyRegistered, CancelWrites, WritesRecord, registration,
         request
<1>5. ASSUME NEW r \in Requests, NEW t \in Tasks, ReadRecord(r, t)
      PROVE  OnlyRegistered'
    BY <1>5, Shapes DEF OnlyRegistered, ReadRecord, registration, history
<1>6. ASSUME NEW r \in Requests, Refuse(r)
      PROVE  OnlyRegistered'
    BY <1>6, Shapes DEF OnlyRegistered, Refuse, Reply, Idle, registration, history
<1>7. ASSUME NEW r \in Requests, claim_waiting_task(r)
      PROVE  OnlyRegistered'
  <2>1. ClaimWrites(r)
      BY <1>7, ClaimEffect
  <2> QED
      BY <2>1, Shapes DEF OnlyRegistered, ClaimWrites, WritesRecord, registration
<1>8. ASSUME NEW r \in Requests, ClaimFails(r)
      PROVE  OnlyRegistered'
    BY <1>8, Shapes DEF OnlyRegistered, ClaimFails, Reply, Idle, registration, history
<1>9. ASSUME NEW r \in Requests, NEW x \in Results \cup {"RAISED"}, continue_task_loop(r, x)
      PROVE  OnlyRegistered'
  <2>1. CASE x = "RAISED"
      BY <2>1, <1>9, Shapes DEF OnlyRegistered, continue_task_loop, Stamp,
         registration
  <2>2. CASE x # "RAISED"
      BY <2>2, <1>9, Shapes DEF OnlyRegistered, continue_task_loop, Stamp,
         registration
  <2> QED BY <2>1, <2>2
<1>10. ASSUME NEW r \in Requests, finalize_claimed_task(r)
      PROVE  OnlyRegistered'
  <2>1. ResultWrites(r)
      BY <1>10, ResultEffect
  <2> QED
      BY <2>1, Shapes DEF OnlyRegistered, ResultWrites, WritesRecord, NextTurn, Reply,
         Idle, Owned, registration, history
<1>11. ASSUME NEW r \in Requests, ResultDropped(r)
      PROVE  OnlyRegistered'
    BY <1>11, Shapes DEF OnlyRegistered, ResultDropped, Reply, Owned, Orphan, Idle,
       registration
<1>12. ASSUME NEW r \in Requests, FinalizeRaises(r)
      PROVE  OnlyRegistered'
    BY <1>12, Shapes DEF OnlyRegistered, FinalizeRaises, registration, history
<1>13. ASSUME NEW r \in Requests, finalize_claimed_failure(r)
      PROVE  OnlyRegistered'
  <2>1. FailureWrites(r)
      BY <1>13, FailureEffect
  <2> QED
      BY <2>1, Shapes DEF OnlyRegistered, FailureWrites, WritesRecord, Reply, Idle,
         Owned, registration, history
<1>14. ASSUME NEW r \in Requests, FailureDropped(r)
      PROVE  OnlyRegistered'
    BY <1>14, Shapes DEF OnlyRegistered, FailureDropped, Reply, Owned, Orphan, Idle,
       registration
<1>15. CASE Crash
    BY <1>15, Shapes DEF OnlyRegistered, Crash, Owned, Orphan, Idle
<1>16. CASE UNCHANGED vars
    BY <1>16, Shapes DEF OnlyRegistered, vars, registration, request, history
<1> QED
    BY <1>1, <1>2, <1>3, <1>4, <1>5, <1>6, <1>7, <1>8, <1>9, <1>10, <1>11, <1>12,
       <1>13, <1>14, <1>15, <1>16 DEF Next, approve_task, Claimed

LEMMA ExclusiveInit == Init => ClaimIsExclusive
  BY DEF Init, ClaimIsExclusive, HoldsClaim

\* A claim is taken of a waiting record and leaves it EXECUTING.
LEMMA ExclusiveStep ==
  ASSUME TypeOK, OnlyRegistered, ClaimIsExclusive, [Next]_vars
  PROVE  ClaimIsExclusive'
<1>1. ASSUME NEW t \in Tasks, DrawTask(t)
      PROVE  ClaimIsExclusive'
    BY <1>1, Shapes DEF OnlyRegistered, ClaimIsExclusive, HoldsClaim, Owned, DrawTask,
       Stamp, request, history
<1>2. ASSUME NEW t \in Tasks, register_waiting_task(t)
      PROVE  ClaimIsExclusive'
  <2>1. RegisterWrites(t)
      BY <1>2, RegisterEffect
  <2> QED
      BY <2>1, Shapes DEF OnlyRegistered, ClaimIsExclusive, HoldsClaim, Owned,
         RegisterWrites, request, history
<1>3. ASSUME NEW t \in Tasks, RegisterFails(t)
      PROVE  ClaimIsExclusive'
    BY <1>3, Shapes DEF OnlyRegistered, ClaimIsExclusive, HoldsClaim, Owned,
       RegisterFails, request, history
<1>4. ASSUME NEW t \in Tasks, cancel_waiting_task(t)
      PROVE  ClaimIsExclusive'
  <2>1. CancelWrites(t)
      BY <1>4, CancelEffect
  <2> QED
      BY <2>1, Shapes DEF OnlyRegistered, ClaimIsExclusive, HoldsClaim, Owned,
         CancelWrites, WritesRecord, registration, request
<1>5. ASSUME NEW r \in Requests, NEW t \in Tasks, ReadRecord(r, t)
      PROVE  ClaimIsExclusive'
    BY <1>5, Shapes DEF OnlyRegistered, ClaimIsExclusive, HoldsClaim, Owned,
       ReadRecord, registration, history
<1>6. ASSUME NEW r \in Requests, Refuse(r)
      PROVE  ClaimIsExclusive'
    BY <1>6, Shapes DEF OnlyRegistered, ClaimIsExclusive, HoldsClaim, Owned, Refuse,
       Reply, Idle, registration, history
<1>7. ASSUME NEW r \in Requests, claim_waiting_task(r)
      PROVE  ClaimIsExclusive'
  <2>1. ClaimWrites(r)
      BY <1>7, ClaimEffect
  <2> QED
      BY <2>1, Shapes DEF OnlyRegistered, ClaimIsExclusive, HoldsClaim, Owned,
         ClaimWrites, WritesRecord, registration
<1>8. ASSUME NEW r \in Requests, ClaimFails(r)
      PROVE  ClaimIsExclusive'
    BY <1>8, Shapes DEF OnlyRegistered, ClaimIsExclusive, HoldsClaim, Owned,
       ClaimFails, Reply, Idle, registration, history
<1>9. ASSUME NEW r \in Requests, NEW x \in Results \cup {"RAISED"}, continue_task_loop(r, x)
      PROVE  ClaimIsExclusive'
  <2>1. CASE x = "RAISED"
      BY <2>1, <1>9, Shapes DEF OnlyRegistered, ClaimIsExclusive, HoldsClaim, Owned,
         continue_task_loop, Stamp, registration
  <2>2. CASE x # "RAISED"
      BY <2>2, <1>9, Shapes DEF OnlyRegistered, ClaimIsExclusive, HoldsClaim, Owned,
         continue_task_loop, Stamp, registration
  <2> QED BY <2>1, <2>2
<1>10. ASSUME NEW r \in Requests, finalize_claimed_task(r)
      PROVE  ClaimIsExclusive'
  <2>1. ResultWrites(r)
      BY <1>10, ResultEffect
  <2> QED
      BY <2>1, Shapes DEF OnlyRegistered, ClaimIsExclusive, HoldsClaim, Owned,
         ResultWrites, WritesRecord, NextTurn, Reply, Idle, registration, history
<1>11. ASSUME NEW r \in Requests, ResultDropped(r)
      PROVE  ClaimIsExclusive'
    BY <1>11, Shapes DEF OnlyRegistered, ClaimIsExclusive, HoldsClaim, Owned,
       ResultDropped, Reply, Orphan, Idle, registration
<1>12. ASSUME NEW r \in Requests, FinalizeRaises(r)
      PROVE  ClaimIsExclusive'
    BY <1>12, Shapes DEF OnlyRegistered, ClaimIsExclusive, HoldsClaim, Owned,
       FinalizeRaises, registration, history
<1>13. ASSUME NEW r \in Requests, finalize_claimed_failure(r)
      PROVE  ClaimIsExclusive'
  <2>1. FailureWrites(r)
      BY <1>13, FailureEffect
  <2> QED
      BY <2>1, Shapes DEF OnlyRegistered, ClaimIsExclusive, HoldsClaim, Owned,
         FailureWrites, WritesRecord, Reply, Idle, registration, history
<1>14. ASSUME NEW r \in Requests, FailureDropped(r)
      PROVE  ClaimIsExclusive'
    BY <1>14, Shapes DEF OnlyRegistered, ClaimIsExclusive, HoldsClaim, Owned,
       FailureDropped, Reply, Orphan, Idle, registration
<1>15. CASE Crash
    BY <1>15, Shapes DEF OnlyRegistered, ClaimIsExclusive, HoldsClaim, Owned, Crash,
       Orphan, Idle
<1>16. CASE UNCHANGED vars
    BY <1>16, Shapes DEF OnlyRegistered, ClaimIsExclusive, HoldsClaim, Owned, vars,
       registration, request, history
<1> QED
    BY <1>1, <1>2, <1>3, <1>4, <1>5, <1>6, <1>7, <1>8, <1>9, <1>10, <1>11, <1>12,
       <1>13, <1>14, <1>15, <1>16 DEF Next, approve_task, Claimed

LEMMA CancelledInit == Init => CancelledIsOver
  BY DEF Init, CancelledIsOver

\* Only a waiting record is cancelled, and none is in a claim.
LEMMA CancelledStep ==
  ASSUME TypeOK, OnlyRegistered, ClaimIsExclusive, CancelledIsOver, [Next]_vars
  PROVE  CancelledIsOver'
<1>1. ASSUME NEW t \in Tasks, DrawTask(t)
      PROVE  CancelledIsOver'
    BY <1>1, Shapes DEF OnlyRegistered, ClaimIsExclusive, CancelledIsOver, HoldsClaim,
       Owned, DrawTask, Stamp, request, history
<1>2. ASSUME NEW t \in Tasks, register_waiting_task(t)
      PROVE  CancelledIsOver'
  <2>1. RegisterWrites(t)
      BY <1>2, RegisterEffect
  <2> QED
      BY <2>1, Shapes DEF OnlyRegistered, ClaimIsExclusive, CancelledIsOver,
         HoldsClaim, Owned, RegisterWrites, request, history
<1>3. ASSUME NEW t \in Tasks, RegisterFails(t)
      PROVE  CancelledIsOver'
    BY <1>3, Shapes DEF OnlyRegistered, ClaimIsExclusive, CancelledIsOver, HoldsClaim,
       Owned, RegisterFails, request, history
<1>4. ASSUME NEW t \in Tasks, cancel_waiting_task(t)
      PROVE  CancelledIsOver'
  <2>1. CancelWrites(t)
      BY <1>4, CancelEffect
  <2> QED
      BY <2>1, Shapes DEF OnlyRegistered, ClaimIsExclusive, CancelledIsOver,
         HoldsClaim, Owned, CancelWrites, WritesRecord, registration, request
<1>5. ASSUME NEW r \in Requests, NEW t \in Tasks, ReadRecord(r, t)
      PROVE  CancelledIsOver'
    BY <1>5, Shapes DEF OnlyRegistered, ClaimIsExclusive, CancelledIsOver, HoldsClaim,
       Owned, ReadRecord, registration, history
<1>6. ASSUME NEW r \in Requests, Refuse(r)
      PROVE  CancelledIsOver'
    BY <1>6, Shapes DEF OnlyRegistered, ClaimIsExclusive, CancelledIsOver, HoldsClaim,
       Owned, Refuse, Reply, Idle, registration, history
<1>7. ASSUME NEW r \in Requests, claim_waiting_task(r)
      PROVE  CancelledIsOver'
  <2>1. ClaimWrites(r)
      BY <1>7, ClaimEffect
  <2> QED
      BY <2>1, Shapes DEF OnlyRegistered, ClaimIsExclusive, CancelledIsOver,
         HoldsClaim, Owned, ClaimWrites, WritesRecord, registration
<1>8. ASSUME NEW r \in Requests, ClaimFails(r)
      PROVE  CancelledIsOver'
    BY <1>8, Shapes DEF OnlyRegistered, ClaimIsExclusive, CancelledIsOver, HoldsClaim,
       Owned, ClaimFails, Reply, Idle, registration, history
<1>9. ASSUME NEW r \in Requests, NEW x \in Results \cup {"RAISED"}, continue_task_loop(r, x)
      PROVE  CancelledIsOver'
  <2>1. CASE x = "RAISED"
      BY <2>1, <1>9, Shapes DEF OnlyRegistered, ClaimIsExclusive, CancelledIsOver,
         HoldsClaim, Owned, continue_task_loop, Stamp, registration
  <2>2. CASE x # "RAISED"
      BY <2>2, <1>9, Shapes DEF OnlyRegistered, ClaimIsExclusive, CancelledIsOver,
         HoldsClaim, Owned, continue_task_loop, Stamp, registration
  <2> QED BY <2>1, <2>2
<1>10. ASSUME NEW r \in Requests, finalize_claimed_task(r)
      PROVE  CancelledIsOver'
  <2>1. ResultWrites(r)
      BY <1>10, ResultEffect
  <2> QED
      BY <2>1, Shapes DEF OnlyRegistered, ClaimIsExclusive, CancelledIsOver,
         HoldsClaim, Owned, ResultWrites, WritesRecord, NextTurn, Reply, Idle,
         registration, history
<1>11. ASSUME NEW r \in Requests, ResultDropped(r)
      PROVE  CancelledIsOver'
    BY <1>11, Shapes DEF OnlyRegistered, ClaimIsExclusive, CancelledIsOver,
       HoldsClaim, Owned, ResultDropped, Reply, Orphan, Idle, registration
<1>12. ASSUME NEW r \in Requests, FinalizeRaises(r)
      PROVE  CancelledIsOver'
    BY <1>12, Shapes DEF OnlyRegistered, ClaimIsExclusive, CancelledIsOver,
       HoldsClaim, Owned, FinalizeRaises, registration, history
<1>13. ASSUME NEW r \in Requests, finalize_claimed_failure(r)
      PROVE  CancelledIsOver'
  <2>1. FailureWrites(r)
      BY <1>13, FailureEffect
  <2> QED
      BY <2>1, Shapes DEF OnlyRegistered, ClaimIsExclusive, CancelledIsOver,
         HoldsClaim, Owned, FailureWrites, WritesRecord, Reply, Idle, registration,
         history
<1>14. ASSUME NEW r \in Requests, FailureDropped(r)
      PROVE  CancelledIsOver'
    BY <1>14, Shapes DEF OnlyRegistered, ClaimIsExclusive, CancelledIsOver,
       HoldsClaim, Owned, FailureDropped, Reply, Orphan, Idle, registration
<1>15. CASE Crash
    BY <1>15, Shapes DEF OnlyRegistered, ClaimIsExclusive, CancelledIsOver,
       HoldsClaim, Owned, Crash, Orphan, Idle
<1>16. CASE UNCHANGED vars
    BY <1>16, Shapes DEF OnlyRegistered, ClaimIsExclusive, CancelledIsOver,
       HoldsClaim, Owned, vars, registration, request, history
<1> QED
    BY <1>1, <1>2, <1>3, <1>4, <1>5, <1>6, <1>7, <1>8, <1>9, <1>10, <1>11, <1>12,
       <1>13, <1>14, <1>15, <1>16 DEF Next, approve_task, Claimed

(***************************************************************************)
(* Time stamps and turns.                                                  *)
(***************************************************************************)
LEMMA StampedInit == Init => RecordsStamped /\ RequestsStamped
  BY DEF Init, RecordsStamped, RequestsStamped, HoldsClaim, Nothing

\* The clock only goes on.
LEMMA RecordsStampedStep ==
  ASSUME TypeOK, RecordsStamped, RequestsStamped, [Next]_vars
  PROVE  RecordsStamped'
<1>1. ASSUME NEW t \in Tasks, DrawTask(t)
      PROVE  RecordsStamped'
    BY <1>1, Shapes DEF RecordsStamped, RequestsStamped, HoldsClaim, DrawTask, Stamp,
       request, history
<1>2. ASSUME NEW t \in Tasks, register_waiting_task(t)
      PROVE  RecordsStamped'
  <2>1. RegisterWrites(t)
      BY <1>2, RegisterEffect
  <2> QED
      BY <2>1, Shapes DEF RecordsStamped, RequestsStamped, HoldsClaim, RegisterWrites,
         request, history
<1>3. ASSUME NEW t \in Tasks, RegisterFails(t)
      PROVE  RecordsStamped'
    BY <1>3, Shapes DEF RecordsStamped, RequestsStamped, HoldsClaim, RegisterFails,
       request, history
<1>4. ASSUME NEW t \in Tasks, cancel_waiting_task(t)
      PROVE  RecordsStamped'
  <2>1. CancelWrites(t)
      BY <1>4, CancelEffect
  <2> QED
      BY <2>1, Shapes DEF RecordsStamped, RequestsStamped, HoldsClaim, CancelWrites,
         WritesRecord, registration, request
<1>5. ASSUME NEW r \in Requests, NEW t \in Tasks, ReadRecord(r, t)
      PROVE  RecordsStamped'
    BY <1>5, Shapes DEF RecordsStamped, RequestsStamped, HoldsClaim, ReadRecord,
       registration, history
<1>6. ASSUME NEW r \in Requests, Refuse(r)
      PROVE  RecordsStamped'
    BY <1>6, Shapes DEF RecordsStamped, RequestsStamped, HoldsClaim, Refuse, Reply,
       Idle, registration, history
<1>7. ASSUME NEW r \in Requests, claim_waiting_task(r)
      PROVE  RecordsStamped'
  <2>1. ClaimWrites(r)
      BY <1>7, ClaimEffect
  <2> QED
      BY <2>1, Shapes DEF RecordsStamped, RequestsStamped, HoldsClaim, ClaimWrites,
         WritesRecord, registration
<1>8. ASSUME NEW r \in Requests, ClaimFails(r)
      PROVE  RecordsStamped'
    BY <1>8, Shapes DEF RecordsStamped, RequestsStamped, HoldsClaim, ClaimFails,
       Reply, Idle, registration, history
<1>9. ASSUME NEW r \in Requests, NEW x \in Results \cup {"RAISED"}, continue_task_loop(r, x)
      PROVE  RecordsStamped'
  <2>1. CASE x = "RAISED"
      BY <2>1, <1>9, Shapes DEF RecordsStamped, RequestsStamped, HoldsClaim,
         continue_task_loop, Stamp, registration
  <2>2. CASE x # "RAISED"
      BY <2>2, <1>9, Shapes DEF RecordsStamped, RequestsStamped, HoldsClaim,
         continue_task_loop, Stamp, registration
  <2> QED BY <2>1, <2>2
<1>10. ASSUME NEW r \in Requests, finalize_claimed_task(r)
      PROVE  RecordsStamped'
  <2>1. ResultWrites(r)
      BY <1>10, ResultEffect
  <2> QED
      BY <2>1, Shapes DEF RecordsStamped, RequestsStamped, HoldsClaim, ResultWrites,
         WritesRecord, NextTurn, Reply, Idle, Owned, registration, history
<1>11. ASSUME NEW r \in Requests, ResultDropped(r)
      PROVE  RecordsStamped'
    BY <1>11, Shapes DEF RecordsStamped, RequestsStamped, HoldsClaim, ResultDropped,
       Reply, Owned, Orphan, Idle, registration
<1>12. ASSUME NEW r \in Requests, FinalizeRaises(r)
      PROVE  RecordsStamped'
    BY <1>12, Shapes DEF RecordsStamped, RequestsStamped, HoldsClaim, FinalizeRaises,
       registration, history
<1>13. ASSUME NEW r \in Requests, finalize_claimed_failure(r)
      PROVE  RecordsStamped'
  <2>1. FailureWrites(r)
      BY <1>13, FailureEffect
  <2> QED
      BY <2>1, Shapes DEF RecordsStamped, RequestsStamped, HoldsClaim, FailureWrites,
         WritesRecord, Reply, Idle, Owned, registration, history
<1>14. ASSUME NEW r \in Requests, FailureDropped(r)
      PROVE  RecordsStamped'
    BY <1>14, Shapes DEF RecordsStamped, RequestsStamped, HoldsClaim, FailureDropped,
       Reply, Owned, Orphan, Idle, registration
<1>15. CASE Crash
    BY <1>15, Shapes DEF RecordsStamped, RequestsStamped, HoldsClaim, Crash, Owned,
       Orphan, Idle
<1>16. CASE UNCHANGED vars
    BY <1>16, Shapes DEF RecordsStamped, RequestsStamped, HoldsClaim, vars,
       registration, request, history
<1> QED
    BY <1>1, <1>2, <1>3, <1>4, <1>5, <1>6, <1>7, <1>8, <1>9, <1>10, <1>11, <1>12,
       <1>13, <1>14, <1>15, <1>16 DEF Next, approve_task, Claimed

LEMMA RequestsStampedStep ==
  ASSUME TypeOK, RecordsStamped, RequestsStamped, [Next]_vars
  PROVE  RequestsStamped'
<1>1. ASSUME NEW t \in Tasks, DrawTask(t)
      PROVE  RequestsStamped'
    BY <1>1, Shapes DEF RecordsStamped, RequestsStamped, HoldsClaim, DrawTask, Stamp,
       request, history
<1>2. ASSUME NEW t \in Tasks, register_waiting_task(t)
      PROVE  RequestsStamped'
  <2>1. RegisterWrites(t)
      BY <1>2, RegisterEffect
  <2> QED
      BY <2>1, Shapes DEF RecordsStamped, RequestsStamped, HoldsClaim, RegisterWrites,
         request, history
<1>3. ASSUME NEW t \in Tasks, RegisterFails(t)
      PROVE  RequestsStamped'
    BY <1>3, Shapes DEF RecordsStamped, RequestsStamped, HoldsClaim, RegisterFails,
       request, history
<1>4. ASSUME NEW t \in Tasks, cancel_waiting_task(t)
      PROVE  RequestsStamped'
  <2>1. CancelWrites(t)
      BY <1>4, CancelEffect
  <2> QED
      BY <2>1, Shapes DEF RecordsStamped, RequestsStamped, HoldsClaim, CancelWrites,
         WritesRecord, registration, request
<1>5. ASSUME NEW r \in Requests, NEW t \in Tasks, ReadRecord(r, t)
      PROVE  RequestsStamped'
    BY <1>5, Shapes DEF RecordsStamped, RequestsStamped, HoldsClaim, ReadRecord,
       registration, history
<1>6. ASSUME NEW r \in Requests, Refuse(r)
      PROVE  RequestsStamped'
    BY <1>6, Shapes DEF RecordsStamped, RequestsStamped, HoldsClaim, Refuse, Reply,
       Idle, registration, history
<1>7. ASSUME NEW r \in Requests, claim_waiting_task(r)
      PROVE  RequestsStamped'
  <2>1. ClaimWrites(r)
      BY <1>7, ClaimEffect
  <2> QED
      BY <2>1, Shapes DEF RecordsStamped, RequestsStamped, HoldsClaim, ClaimWrites,
         WritesRecord, registration
<1>8. ASSUME NEW r \in Requests, ClaimFails(r)
      PROVE  RequestsStamped'
    BY <1>8, Shapes DEF RecordsStamped, RequestsStamped, HoldsClaim, ClaimFails,
       Reply, Idle, registration, history
<1>9. ASSUME NEW r \in Requests, NEW x \in Results \cup {"RAISED"}, continue_task_loop(r, x)
      PROVE  RequestsStamped'
  <2>1. CASE x = "RAISED"
      BY <2>1, <1>9, Shapes DEF RecordsStamped, RequestsStamped, HoldsClaim,
         continue_task_loop, Stamp, registration
  <2>2. CASE x # "RAISED"
      BY <2>2, <1>9, Shapes DEF RecordsStamped, RequestsStamped, HoldsClaim,
         continue_task_loop, Stamp, registration
  <2> QED BY <2>1, <2>2
<1>10. ASSUME NEW r \in Requests, finalize_claimed_task(r)
      PROVE  RequestsStamped'
  <2>1. ResultWrites(r)
      BY <1>10, ResultEffect
  <2> QED
      BY <2>1, Shapes DEF RecordsStamped, RequestsStamped, HoldsClaim, ResultWrites,
         WritesRecord, NextTurn, Reply, Idle, Owned, registration, history
<1>11. ASSUME NEW r \in Requests, ResultDropped(r)
      PROVE  RequestsStamped'
    BY <1>11, Shapes DEF RecordsStamped, RequestsStamped, HoldsClaim, ResultDropped,
       Reply, Owned, Orphan, Idle, registration
<1>12. ASSUME NEW r \in Requests, FinalizeRaises(r)
      PROVE  RequestsStamped'
    BY <1>12, Shapes DEF RecordsStamped, RequestsStamped, HoldsClaim, FinalizeRaises,
       registration, history
<1>13. ASSUME NEW r \in Requests, finalize_claimed_failure(r)
      PROVE  RequestsStamped'
  <2>1. FailureWrites(r)
      BY <1>13, FailureEffect
  <2> QED
      BY <2>1, Shapes DEF RecordsStamped, RequestsStamped, HoldsClaim, FailureWrites,
         WritesRecord, Reply, Idle, Owned, registration, history
<1>14. ASSUME NEW r \in Requests, FailureDropped(r)
      PROVE  RequestsStamped'
    BY <1>14, Shapes DEF RecordsStamped, RequestsStamped, HoldsClaim, FailureDropped,
       Reply, Owned, Orphan, Idle, registration
<1>15. CASE Crash
    BY <1>15, Shapes DEF RecordsStamped, RequestsStamped, HoldsClaim, Crash, Owned,
       Orphan, Idle
<1>16. CASE UNCHANGED vars
    BY <1>16, Shapes DEF RecordsStamped, RequestsStamped, HoldsClaim, vars,
       registration, request, history
<1> QED
    BY <1>1, <1>2, <1>3, <1>4, <1>5, <1>6, <1>7, <1>8, <1>9, <1>10, <1>11, <1>12,
       <1>13, <1>14, <1>15, <1>16 DEF Next, approve_task, Claimed

LEMMA SeenInit == Init => RecordsAsSeen /\ SeenBeforeClaims
  BY DEF Init, RecordsAsSeen, SeenBeforeClaims

\* Whatever is written after a record was read has another time stamp.
LEMMA RecordsAsSeenStep ==
  ASSUME TypeOK, OnlyRegistered, RecordsStamped, RequestsStamped,
         RecordsAsSeen, SeenBeforeClaims, [Next]_vars
  PROVE  RecordsAsSeen'
<1>1. ASSUME NEW t \in Tasks, DrawTask(t)
      PROVE  RecordsAsSeen'
    BY <1>1, Shapes DEF OnlyRegistered, RecordsStamped, RequestsStamped,
       RecordsAsSeen, SeenBeforeClaims, HoldsClaim, DrawTask, Stamp, request, history
<1>2. ASSUME NEW t \in Tasks, register_waiting_task(t)
      PROVE  RecordsAsSeen'
  <2>1. RegisterWrites(t)
      BY <1>2, RegisterEffect
  <2> QED
      BY <2>1, Shapes DEF OnlyRegistered, RecordsStamped, RequestsStamped,
         RecordsAsSeen, SeenBeforeClaims, HoldsClaim, RegisterWrites, request, history
<1>3. ASSUME NEW t \in Tasks, RegisterFails(t)
      PROVE  RecordsAsSeen'
    BY <1>3, Shapes DEF OnlyRegistered, RecordsStamped, RequestsStamped,
       RecordsAsSeen, SeenBeforeClaims, HoldsClaim, RegisterFails, request, history
<1>4. ASSUME NEW t \in Tasks, cancel_waiting_task(t)
      PROVE  RecordsAsSeen'
  <2>1. CancelWrites(t)
      BY <1>4, CancelEffect
  <2> SUFFICES ASSUME NEW q \in Requests, pc'[q] = "read", store'[task'[q]] # Absent,
                      store'[task'[q]].version = seen'[q].version
               PROVE  store'[task'[q]].turn = seen'[q].turn
      BY DEF RecordsAsSeen
  <2>2. pc[q] = "read" /\ task'[q] = task[q] /\ seen'[q] = seen[q] /\ task[q] \in Tasks
      BY <2>1, Shapes DEF CancelWrites, request
  <2>3. task[q] # t
      BY <2>1, <2>2, Shapes DEF CancelWrites, WritesRecord, RequestsStamped
  <2> QED BY <2>1, <2>2, <2>3 DEF CancelWrites, WritesRecord, RecordsAsSeen
<1>5. ASSUME NEW r \in Requests, NEW t \in Tasks, ReadRecord(r, t)
      PROVE  RecordsAsSeen'
    BY <1>5, Shapes DEF OnlyRegistered, RecordsStamped, RequestsStamped,
       RecordsAsSeen, SeenBeforeClaims, HoldsClaim, ReadRecord, registration, history
<1>6. ASSUME NEW r \in Requests, Refuse(r)
      PROVE  RecordsAsSeen'
    BY <1>6, Shapes DEF OnlyRegistered, RecordsStamped, RequestsStamped,
       RecordsAsSeen, SeenBeforeClaims, HoldsClaim, Refuse, Reply, Idle, registration,
       history
<1>7. ASSUME NEW r \in Requests, claim_waiting_task(r)
      PROVE  RecordsAsSeen'
  <2>1. ClaimWrites(r)
      BY <1>7, ClaimEffect
  <2> SUFFICES ASSUME NEW q \in Requests, pc'[q] = "read", store'[task'[q]] # Absent,
                      store'[task'[q]].version = seen'[q].version
               PROVE  store'[task'[q]].turn = seen'[q].turn
      BY DEF RecordsAsSeen
  <2>2. pc[q] = "read" /\ task'[q] = task[q] /\ seen'[q] = seen[q] /\ task[q] \in Tasks
      BY <2>1, Shapes DEF ClaimWrites, Reply
  <2>3. task[q] # task[r]
      BY <2>1, <2>2, Shapes DEF ClaimWrites, WritesRecord, RequestsStamped
  <2> QED BY <2>1, <2>2, <2>3 DEF ClaimWrites, WritesRecord, RecordsAsSeen
<1>8. ASSUME NEW r \in Requests, ClaimFails(r)
      PROVE  RecordsAsSeen'
    BY <1>8, Shapes DEF OnlyRegistered, RecordsStamped, RequestsStamped,
       RecordsAsSeen, SeenBeforeClaims, HoldsClaim, ClaimFails, Reply, Idle,
       registration, history
<1>9. ASSUME NEW r \in Requests, NEW x \in Results \cup {"RAISED"}, continue_task_loop(r, x)
      PROVE  RecordsAsSeen'
  <2>1. CASE x = "RAISED"
      BY <2>1, <1>9, Shapes DEF OnlyRegistered, RecordsStamped, RequestsStamped,
         RecordsAsSeen, SeenBeforeClaims, HoldsClaim, continue_task_loop, Stamp,
         registration
  <2>2. CASE x # "RAISED"
      BY <2>2, <1>9, Shapes DEF OnlyRegistered, RecordsStamped, RequestsStamped,
         RecordsAsSeen, SeenBeforeClaims, HoldsClaim, continue_task_loop, Stamp,
         registration
  <2> QED BY <2>1, <2>2
<1>10. ASSUME NEW r \in Requests, finalize_claimed_task(r)
      PROVE  RecordsAsSeen'
  <2>1. ResultWrites(r)
      BY <1>10, ResultEffect
  <2> SUFFICES ASSUME NEW q \in Requests, pc'[q] = "read", store'[task'[q]] # Absent,
                      store'[task'[q]].version = seen'[q].version
               PROVE  store'[task'[q]].turn = seen'[q].turn
      BY DEF RecordsAsSeen
  <2>2. pc[q] = "read" /\ task'[q] = task[q] /\ seen'[q] = seen[q] /\ task[q] \in Tasks
      BY <2>1, Shapes DEF ResultWrites, Reply
  <2>3. task[q] # task[r]
      BY <2>1, <2>2, Shapes DEF ResultWrites, WritesRecord, RequestsStamped, SeenBeforeClaims, HoldsClaim
  <2> QED BY <2>1, <2>2, <2>3 DEF ResultWrites, WritesRecord, RecordsAsSeen
<1>11. ASSUME NEW r \in Requests, ResultDropped(r)
      PROVE  RecordsAsSeen'
    BY <1>11, Shapes DEF OnlyRegistered, RecordsStamped, RequestsStamped,
       RecordsAsSeen, SeenBeforeClaims, HoldsClaim, ResultDropped, Reply, Owned,
       Orphan, Idle, registration
<1>12. ASSUME NEW r \in Requests, FinalizeRaises(r)
      PROVE  RecordsAsSeen'
    BY <1>12, Shapes DEF OnlyRegistered, RecordsStamped, RequestsStamped,
       RecordsAsSeen, SeenBeforeClaims, HoldsClaim, FinalizeRaises, registration,
       history
<1>13. ASSUME NEW r \in Requests, finalize_claimed_failure(r)
      PROVE  RecordsAsSeen'
  <2>1. FailureWrites(r)
      BY <1>13, FailureEffect
  <2> SUFFICES ASSUME NEW q \in Requests, pc'[q] = "read", store'[task'[q]] # Absent,
                      store'[task'[q]].version = seen'[q].version
               PROVE  store'[task'[q]].turn = seen'[q].turn
      BY DEF RecordsAsSeen
  <2>2. pc[q] = "read" /\ task'[q] = task[q] /\ seen'[q] = seen[q] /\ task[q] \in Tasks
      BY <2>1, Shapes DEF FailureWrites, Reply
  <2>3. task[q] # task[r]
      BY <2>1, <2>2, Shapes DEF FailureWrites, WritesRecord, RequestsStamped
  <2> QED BY <2>1, <2>2, <2>3 DEF FailureWrites, WritesRecord, RecordsAsSeen
<1>14. ASSUME NEW r \in Requests, FailureDropped(r)
      PROVE  RecordsAsSeen'
    BY <1>14, Shapes DEF OnlyRegistered, RecordsStamped, RequestsStamped,
       RecordsAsSeen, SeenBeforeClaims, HoldsClaim, FailureDropped, Reply, Owned,
       Orphan, Idle, registration
<1>15. CASE Crash
    BY <1>15, Shapes DEF OnlyRegistered, RecordsStamped, RequestsStamped,
       RecordsAsSeen, SeenBeforeClaims, HoldsClaim, Crash, Owned, Orphan, Idle
<1>16. CASE UNCHANGED vars
    BY <1>16, Shapes DEF OnlyRegistered, RecordsStamped, RequestsStamped,
       RecordsAsSeen, SeenBeforeClaims, HoldsClaim, vars, registration, request,
       history
<1> QED
    BY <1>1, <1>2, <1>3, <1>4, <1>5, <1>6, <1>7, <1>8, <1>9, <1>10, <1>11, <1>12,
       <1>13, <1>14, <1>15, <1>16 DEF Next, approve_task, Claimed

LEMMA SeenBeforeClaimsStep ==
  ASSUME TypeOK, ClaimIsExclusive, RequestsStamped, SeenBeforeClaims, [Next]_vars
  PROVE  SeenBeforeClaims'
<1>1. ASSUME NEW t \in Tasks, DrawTask(t)
      PROVE  SeenBeforeClaims'
    BY <1>1, Shapes DEF ClaimIsExclusive, RequestsStamped, SeenBeforeClaims,
       HoldsClaim, Owned, DrawTask, Stamp, request, history
<1>2. ASSUME NEW t \in Tasks, register_waiting_task(t)
      PROVE  SeenBeforeClaims'
  <2>1. RegisterWrites(t)
      BY <1>2, RegisterEffect
  <2> QED
      BY <2>1, Shapes DEF ClaimIsExclusive, RequestsStamped, SeenBeforeClaims,
         HoldsClaim, Owned, RegisterWrites, request, history
<1>3. ASSUME NEW t \in Tasks, RegisterFails(t)
      PROVE  SeenBeforeClaims'
    BY <1>3, Shapes DEF ClaimIsExclusive, RequestsStamped, SeenBeforeClaims,
       HoldsClaim, Owned, RegisterFails, request, history
<1>4. ASSUME NEW t \in Tasks, cancel_waiting_task(t)
      PROVE  SeenBeforeClaims'
  <2>1. CancelWrites(t)
      BY <1>4, CancelEffect
  <2> QED
      BY <2>1, Shapes DEF ClaimIsExclusive, RequestsStamped, SeenBeforeClaims,
         HoldsClaim, Owned, CancelWrites, WritesRecord, registration, request
<1>5. ASSUME NEW r \in Requests, NEW t \in Tasks, ReadRecord(r, t)
      PROVE  SeenBeforeClaims'
    BY <1>5, Shapes DEF ClaimIsExclusive, RequestsStamped, SeenBeforeClaims,
       HoldsClaim, Owned, ReadRecord, registration, history
<1>6. ASSUME NEW r \in Requests, Refuse(r)
      PROVE  SeenBeforeClaims'
    BY <1>6, Shapes DEF ClaimIsExclusive, RequestsStamped, SeenBeforeClaims,
       HoldsClaim, Owned, Refuse, Reply, Idle, registration, history
<1>7. ASSUME NEW r \in Requests, claim_waiting_task(r)
      PROVE  SeenBeforeClaims'
  <2>1. ClaimWrites(r)
      BY <1>7, ClaimEffect
  <2> QED
      BY <2>1, Shapes DEF ClaimIsExclusive, RequestsStamped, SeenBeforeClaims,
         HoldsClaim, Owned, ClaimWrites, WritesRecord, registration
<1>8. ASSUME NEW r \in Requests, ClaimFails(r)
      PROVE  SeenBeforeClaims'
    BY <1>8, Shapes DEF ClaimIsExclusive, RequestsStamped, SeenBeforeClaims,
       HoldsClaim, Owned, ClaimFails, Reply, Idle, registration, history
<1>9. ASSUME NEW r \in Requests, NEW x \in Results \cup {"RAISED"}, continue_task_loop(r, x)
      PROVE  SeenBeforeClaims'
  <2>1. CASE x = "RAISED"
      BY <2>1, <1>9, Shapes DEF ClaimIsExclusive, RequestsStamped, SeenBeforeClaims,
         HoldsClaim, Owned, continue_task_loop, Stamp, registration
  <2>2. CASE x # "RAISED"
      BY <2>2, <1>9, Shapes DEF ClaimIsExclusive, RequestsStamped, SeenBeforeClaims,
         HoldsClaim, Owned, continue_task_loop, Stamp, registration
  <2> QED BY <2>1, <2>2
<1>10. ASSUME NEW r \in Requests, finalize_claimed_task(r)
      PROVE  SeenBeforeClaims'
  <2>1. ResultWrites(r)
      BY <1>10, ResultEffect
  <2> QED
      BY <2>1, Shapes DEF ClaimIsExclusive, RequestsStamped, SeenBeforeClaims,
         HoldsClaim, Owned, ResultWrites, WritesRecord, NextTurn, Reply, Idle,
         registration, history
<1>11. ASSUME NEW r \in Requests, ResultDropped(r)
      PROVE  SeenBeforeClaims'
    BY <1>11, Shapes DEF ClaimIsExclusive, RequestsStamped, SeenBeforeClaims,
       HoldsClaim, Owned, ResultDropped, Reply, Orphan, Idle, registration
<1>12. ASSUME NEW r \in Requests, FinalizeRaises(r)
      PROVE  SeenBeforeClaims'
    BY <1>12, Shapes DEF ClaimIsExclusive, RequestsStamped, SeenBeforeClaims,
       HoldsClaim, Owned, FinalizeRaises, registration, history
<1>13. ASSUME NEW r \in Requests, finalize_claimed_failure(r)
      PROVE  SeenBeforeClaims'
  <2>1. FailureWrites(r)
      BY <1>13, FailureEffect
  <2> QED
      BY <2>1, Shapes DEF ClaimIsExclusive, RequestsStamped, SeenBeforeClaims,
         HoldsClaim, Owned, FailureWrites, WritesRecord, Reply, Idle, registration,
         history
<1>14. ASSUME NEW r \in Requests, FailureDropped(r)
      PROVE  SeenBeforeClaims'
    BY <1>14, Shapes DEF ClaimIsExclusive, RequestsStamped, SeenBeforeClaims,
       HoldsClaim, Owned, FailureDropped, Reply, Orphan, Idle, registration
<1>15. CASE Crash
    BY <1>15, Shapes DEF ClaimIsExclusive, RequestsStamped, SeenBeforeClaims,
       HoldsClaim, Owned, Crash, Orphan, Idle
<1>16. CASE UNCHANGED vars
    BY <1>16, Shapes DEF ClaimIsExclusive, RequestsStamped, SeenBeforeClaims,
       HoldsClaim, Owned, vars, registration, request, history
<1> QED
    BY <1>1, <1>2, <1>3, <1>4, <1>5, <1>6, <1>7, <1>8, <1>9, <1>10, <1>11, <1>12,
       <1>13, <1>14, <1>15, <1>16 DEF Next, approve_task, Claimed

LEMMA TurnsInit == Init => TurnsOfRecords /\ TurnsOfClaims
  BY DEF Init, TurnsOfRecords, TurnsOfClaims, Nothing

\* A claim takes the record it has read, and with it the next turn.
LEMMA TurnsOfRecordsStep ==
  ASSUME TypeOK, OnlyRegistered, ClaimIsExclusive, TurnsOfRecords, TurnsOfClaims, [Next]_vars
  PROVE  TurnsOfRecords'
<1>1. ASSUME NEW t \in Tasks, DrawTask(t)
      PROVE  TurnsOfRecords'
    BY <1>1, Shapes DEF OnlyRegistered, ClaimIsExclusive, TurnsOfRecords,
       TurnsOfClaims, HoldsClaim, Owned, DrawTask, Stamp, request, history
<1>2. ASSUME NEW t \in Tasks, register_waiting_task(t)
      PROVE  TurnsOfRecords'
  <2>1. RegisterWrites(t)
      BY <1>2, RegisterEffect
  <2> QED
      BY <2>1, Shapes DEF OnlyRegistered, ClaimIsExclusive, TurnsOfRecords,
         TurnsOfClaims, HoldsClaim, Owned, RegisterWrites, request, history
<1>3. ASSUME NEW t \in Tasks, RegisterFails(t)
      PROVE  TurnsOfRecords'
    BY <1>3, Shapes DEF OnlyRegistered, ClaimIsExclusive, TurnsOfRecords,
       TurnsOfClaims, HoldsClaim, Owned, RegisterFails, request, history
<1>4. ASSUME NEW t \in Tasks, cancel_waiting_task(t)
      PROVE  TurnsOfRecords'
  <2>1. CancelWrites(t)
      BY <1>4, CancelEffect
  <2> QED
      BY <2>1, Shapes DEF OnlyRegistered, ClaimIsExclusive, TurnsOfRecords,
         TurnsOfClaims, HoldsClaim, Owned, CancelWrites, WritesRecord, registration,
         request
<1>5. ASSUME NEW r \in Requests, NEW t \in Tasks, ReadRecord(r, t)
      PROVE  TurnsOfRecords'
    BY <1>5, Shapes DEF OnlyRegistered, ClaimIsExclusive, TurnsOfRecords,
       TurnsOfClaims, HoldsClaim, Owned, ReadRecord, registration, history
<1>6. ASSUME NEW r \in Requests, Refuse(r)
      PROVE  TurnsOfRecords'
    BY <1>6, Shapes DEF OnlyRegistered, ClaimIsExclusive, TurnsOfRecords,
       TurnsOfClaims, HoldsClaim, Owned, Refuse, Reply, Idle, registration, history
<1>7. ASSUME NEW r \in Requests, claim_waiting_task(r)
      PROVE  TurnsOfRecords'
  <2>1. ClaimWrites(r)
      BY <1>7, ClaimEffect
  <2> QED
      BY <2>1, Shapes DEF OnlyRegistered, ClaimIsExclusive, TurnsOfRecords,
         TurnsOfClaims, HoldsClaim, Owned, ClaimWrites, WritesRecord, registration
<1>8. ASSUME NEW r \in Requests, ClaimFails(r)
      PROVE  TurnsOfRecords'
    BY <1>8, Shapes DEF OnlyRegistered, ClaimIsExclusive, TurnsOfRecords,
       TurnsOfClaims, HoldsClaim, Owned, ClaimFails, Reply, Idle, registration,
       history
<1>9. ASSUME NEW r \in Requests, NEW x \in Results \cup {"RAISED"}, continue_task_loop(r, x)
      PROVE  TurnsOfRecords'
  <2>1. CASE x = "RAISED"
      BY <2>1, <1>9, Shapes DEF OnlyRegistered, ClaimIsExclusive, TurnsOfRecords,
         TurnsOfClaims, HoldsClaim, Owned, continue_task_loop, Stamp, registration
  <2>2. CASE x # "RAISED"
      BY <2>2, <1>9, Shapes DEF OnlyRegistered, ClaimIsExclusive, TurnsOfRecords,
         TurnsOfClaims, HoldsClaim, Owned, continue_task_loop, Stamp, registration
  <2> QED BY <2>1, <2>2
<1>10. ASSUME NEW r \in Requests, finalize_claimed_task(r)
      PROVE  TurnsOfRecords'
  <2>1. ResultWrites(r)
      BY <1>10, ResultEffect
  <2> QED
      BY <2>1, Shapes DEF OnlyRegistered, ClaimIsExclusive, TurnsOfRecords,
         TurnsOfClaims, HoldsClaim, Owned, ResultWrites, WritesRecord, NextTurn,
         Reply, Idle, registration, history
<1>11. ASSUME NEW r \in Requests, ResultDropped(r)
      PROVE  TurnsOfRecords'
    BY <1>11, Shapes DEF OnlyRegistered, ClaimIsExclusive, TurnsOfRecords,
       TurnsOfClaims, HoldsClaim, Owned, ResultDropped, Reply, Orphan, Idle,
       registration
<1>12. ASSUME NEW r \in Requests, FinalizeRaises(r)
      PROVE  TurnsOfRecords'
    BY <1>12, Shapes DEF OnlyRegistered, ClaimIsExclusive, TurnsOfRecords,
       TurnsOfClaims, HoldsClaim, Owned, FinalizeRaises, registration, history
<1>13. ASSUME NEW r \in Requests, finalize_claimed_failure(r)
      PROVE  TurnsOfRecords'
  <2>1. FailureWrites(r)
      BY <1>13, FailureEffect
  <2> QED
      BY <2>1, Shapes DEF OnlyRegistered, ClaimIsExclusive, TurnsOfRecords,
         TurnsOfClaims, HoldsClaim, Owned, FailureWrites, WritesRecord, Reply, Idle,
         registration, history
<1>14. ASSUME NEW r \in Requests, FailureDropped(r)
      PROVE  TurnsOfRecords'
    BY <1>14, Shapes DEF OnlyRegistered, ClaimIsExclusive, TurnsOfRecords,
       TurnsOfClaims, HoldsClaim, Owned, FailureDropped, Reply, Orphan, Idle,
       registration
<1>15. CASE Crash
    BY <1>15, Shapes DEF OnlyRegistered, ClaimIsExclusive, TurnsOfRecords,
       TurnsOfClaims, HoldsClaim, Owned, Crash, Orphan, Idle
<1>16. CASE UNCHANGED vars
    BY <1>16, Shapes DEF OnlyRegistered, ClaimIsExclusive, TurnsOfRecords,
       TurnsOfClaims, HoldsClaim, Owned, vars, registration, request, history
<1> QED
    BY <1>1, <1>2, <1>3, <1>4, <1>5, <1>6, <1>7, <1>8, <1>9, <1>10, <1>11, <1>12,
       <1>13, <1>14, <1>15, <1>16 DEF Next, approve_task, Claimed

LEMMA TurnsOfClaimsStep ==
  ASSUME TypeOK, OnlyRegistered, ClaimIsExclusive, RecordsAsSeen,
         TurnsOfRecords, TurnsOfClaims, [Next]_vars
  PROVE  TurnsOfClaims'
<1>1. ASSUME NEW t \in Tasks, DrawTask(t)
      PROVE  TurnsOfClaims'
    BY <1>1, Shapes DEF OnlyRegistered, ClaimIsExclusive, RecordsAsSeen,
       TurnsOfRecords, TurnsOfClaims, HoldsClaim, DrawTask, Stamp, request, history
<1>2. ASSUME NEW t \in Tasks, register_waiting_task(t)
      PROVE  TurnsOfClaims'
  <2>1. RegisterWrites(t)
      BY <1>2, RegisterEffect
  <2> QED
      BY <2>1, Shapes DEF OnlyRegistered, ClaimIsExclusive, RecordsAsSeen,
         TurnsOfRecords, TurnsOfClaims, HoldsClaim, RegisterWrites, request, history
<1>3. ASSUME NEW t \in Tasks, RegisterFails(t)
      PROVE  TurnsOfClaims'
    BY <1>3, Shapes DEF OnlyRegistered, ClaimIsExclusive, RecordsAsSeen,
       TurnsOfRecords, TurnsOfClaims, HoldsClaim, RegisterFails, request, history
<1>4. ASSUME NEW t \in Tasks, cancel_waiting_task(t)
      PROVE  TurnsOfClaims'
  <2>1. CancelWrites(t)
      BY <1>4, CancelEffect
  <2> QED
      BY <2>1, Shapes DEF OnlyRegistered, ClaimIsExclusive, RecordsAsSeen,
         TurnsOfRecords, TurnsOfClaims, HoldsClaim, CancelWrites, WritesRecord,
         registration, request
<1>5. ASSUME NEW r \in Requests, NEW t \in Tasks, ReadRecord(r, t)
      PROVE  TurnsOfClaims'
    BY <1>5, Shapes DEF OnlyRegistered, ClaimIsExclusive, RecordsAsSeen,
       TurnsOfRecords, TurnsOfClaims, HoldsClaim, ReadRecord, registration, history
<1>6. ASSUME NEW r \in Requests, Refuse(r)
      PROVE  TurnsOfClaims'
    BY <1>6, Shapes DEF OnlyRegistered, ClaimIsExclusive, RecordsAsSeen,
       TurnsOfRecords, TurnsOfClaims, HoldsClaim, Refuse, Reply, Idle, registration,
       history
<1>7. ASSUME NEW r \in Requests, claim_waiting_task(r)
      PROVE  TurnsOfClaims'
  <2>1. ClaimWrites(r)
      BY <1>7, ClaimEffect
  <2> QED
      BY <2>1, Shapes DEF OnlyRegistered, ClaimIsExclusive, RecordsAsSeen,
         TurnsOfRecords, TurnsOfClaims, HoldsClaim, Owned, ClaimWrites, WritesRecord,
         registration
<1>8. ASSUME NEW r \in Requests, ClaimFails(r)
      PROVE  TurnsOfClaims'
    BY <1>8, Shapes DEF OnlyRegistered, ClaimIsExclusive, RecordsAsSeen,
       TurnsOfRecords, TurnsOfClaims, HoldsClaim, ClaimFails, Reply, Idle,
       registration, history
<1>9. ASSUME NEW r \in Requests, NEW x \in Results \cup {"RAISED"}, continue_task_loop(r, x)
      PROVE  TurnsOfClaims'
  <2>1. CASE x = "RAISED"
      BY <2>1, <1>9, Shapes DEF OnlyRegistered, ClaimIsExclusive, RecordsAsSeen,
         TurnsOfRecords, TurnsOfClaims, HoldsClaim, continue_task_loop, Stamp,
         registration
  <2>2. CASE x # "RAISED"
      BY <2>2, <1>9, Shapes DEF OnlyRegistered, ClaimIsExclusive, RecordsAsSeen,
         TurnsOfRecords, TurnsOfClaims, HoldsClaim, continue_task_loop, Stamp,
         registration
  <2> QED BY <2>1, <2>2
<1>10. ASSUME NEW r \in Requests, finalize_claimed_task(r)
      PROVE  TurnsOfClaims'
  <2>1. ResultWrites(r)
      BY <1>10, ResultEffect
  <2> QED
      BY <2>1, Shapes DEF OnlyRegistered, ClaimIsExclusive, RecordsAsSeen,
         TurnsOfRecords, TurnsOfClaims, HoldsClaim, ResultWrites, WritesRecord,
         NextTurn, Reply, Idle, Owned, registration, history
<1>11. ASSUME NEW r \in Requests, ResultDropped(r)
      PROVE  TurnsOfClaims'
    BY <1>11, Shapes DEF OnlyRegistered, ClaimIsExclusive, RecordsAsSeen,
       TurnsOfRecords, TurnsOfClaims, HoldsClaim, ResultDropped, Reply, Owned, Orphan,
       Idle, registration
<1>12. ASSUME NEW r \in Requests, FinalizeRaises(r)
      PROVE  TurnsOfClaims'
    BY <1>12, Shapes DEF OnlyRegistered, ClaimIsExclusive, RecordsAsSeen,
       TurnsOfRecords, TurnsOfClaims, HoldsClaim, FinalizeRaises, registration,
       history
<1>13. ASSUME NEW r \in Requests, finalize_claimed_failure(r)
      PROVE  TurnsOfClaims'
  <2>1. FailureWrites(r)
      BY <1>13, FailureEffect
  <2> QED
      BY <2>1, Shapes DEF OnlyRegistered, ClaimIsExclusive, RecordsAsSeen,
         TurnsOfRecords, TurnsOfClaims, HoldsClaim, FailureWrites, WritesRecord,
         Reply, Idle, Owned, registration, history
<1>14. ASSUME NEW r \in Requests, FailureDropped(r)
      PROVE  TurnsOfClaims'
    BY <1>14, Shapes DEF OnlyRegistered, ClaimIsExclusive, RecordsAsSeen,
       TurnsOfRecords, TurnsOfClaims, HoldsClaim, FailureDropped, Reply, Owned,
       Orphan, Idle, registration
<1>15. CASE Crash
    BY <1>15, Shapes DEF OnlyRegistered, ClaimIsExclusive, RecordsAsSeen,
       TurnsOfRecords, TurnsOfClaims, HoldsClaim, Crash, Owned, Orphan, Idle
<1>16. CASE UNCHANGED vars
    BY <1>16, Shapes DEF OnlyRegistered, ClaimIsExclusive, RecordsAsSeen,
       TurnsOfRecords, TurnsOfClaims, HoldsClaim, vars, registration, request, history
<1> QED
    BY <1>1, <1>2, <1>3, <1>4, <1>5, <1>6, <1>7, <1>8, <1>9, <1>10, <1>11, <1>12,
       <1>13, <1>14, <1>15, <1>16 DEF Next, approve_task, Claimed

LEMMA OnceInit == Init => SnapshotsRunOnce
  BY DEF Init, SnapshotsRunOnce

\* A resume appends the number of its place.
LEMMA OnceStep ==
  ASSUME TypeOK, TurnsOfClaims, SnapshotsRunOnce, [Next]_vars
  PROVE  SnapshotsRunOnce'
<1>1. ASSUME NEW t \in Tasks, DrawTask(t)
      PROVE  SnapshotsRunOnce'
    BY <1>1, Shapes DEF TurnsOfClaims, SnapshotsRunOnce, DrawTask, Stamp, request,
       history
<1>2. ASSUME NEW t \in Tasks, register_waiting_task(t)
      PROVE  SnapshotsRunOnce'
  <2>1. RegisterWrites(t)
      BY <1>2, RegisterEffect
  <2> QED
      BY <2>1, Shapes DEF TurnsOfClaims, SnapshotsRunOnce, RegisterWrites, request,
         history
<1>3. ASSUME NEW t \in Tasks, RegisterFails(t)
      PROVE  SnapshotsRunOnce'
    BY <1>3, Shapes DEF TurnsOfClaims, SnapshotsRunOnce, RegisterFails, request,
       history
<1>4. ASSUME NEW t \in Tasks, cancel_waiting_task(t)
      PROVE  SnapshotsRunOnce'
  <2>1. CancelWrites(t)
      BY <1>4, CancelEffect
  <2> QED
      BY <2>1, Shapes DEF TurnsOfClaims, SnapshotsRunOnce, CancelWrites, WritesRecord,
         registration, request
<1>5. ASSUME NEW r \in Requests, NEW t \in Tasks, ReadRecord(r, t)
      PROVE  SnapshotsRunOnce'
    BY <1>5, Shapes DEF TurnsOfClaims, SnapshotsRunOnce, ReadRecord, registration,
       history
<1>6. ASSUME NEW r \in Requests, Refuse(r)
      PROVE  SnapshotsRunOnce'
    BY <1>6, Shapes DEF TurnsOfClaims, SnapshotsRunOnce, Refuse, Reply, Idle,
       registration, history
<1>7. ASSUME NEW r \in Requests, claim_waiting_task(r)
      PROVE  SnapshotsRunOnce'
  <2>1. ClaimWrites(r)
      BY <1>7, ClaimEffect
  <2> QED
      BY <2>1, Shapes DEF TurnsOfClaims, SnapshotsRunOnce, ClaimWrites, WritesRecord,
         registration
<1>8. ASSUME NEW r \in Requests, ClaimFails(r)
      PROVE  SnapshotsRunOnce'
    BY <1>8, Shapes DEF TurnsOfClaims, SnapshotsRunOnce, ClaimFails, Reply, Idle,
       registration, history
<1>9. ASSUME NEW r \in Requests, NEW x \in Results \cup {"RAISED"}, continue_task_loop(r, x)
      PROVE  SnapshotsRunOnce'
  <2>1. CASE x = "RAISED"
      BY <2>1, <1>9, Shapes DEF TurnsOfClaims, SnapshotsRunOnce, continue_task_loop,
         Stamp, registration
  <2>2. CASE x # "RAISED"
      BY <2>2, <1>9, Shapes DEF TurnsOfClaims, SnapshotsRunOnce, continue_task_loop,
         Stamp, registration
  <2> QED BY <2>1, <2>2
<1>10. ASSUME NEW r \in Requests, finalize_claimed_task(r)
      PROVE  SnapshotsRunOnce'
  <2>1. ResultWrites(r)
      BY <1>10, ResultEffect
  <2> QED
      BY <2>1, Shapes DEF TurnsOfClaims, SnapshotsRunOnce, ResultWrites, WritesRecord,
         NextTurn, Reply, Idle, Owned, registration, history
<1>11. ASSUME NEW r \in Requests, ResultDropped(r)
      PROVE  SnapshotsRunOnce'
    BY <1>11, Shapes DEF TurnsOfClaims, SnapshotsRunOnce, ResultDropped, Reply, Owned,
       Orphan, Idle, registration
<1>12. ASSUME NEW r \in Requests, FinalizeRaises(r)
      PROVE  SnapshotsRunOnce'
    BY <1>12, Shapes DEF TurnsOfClaims, SnapshotsRunOnce, FinalizeRaises,
       registration, history
<1>13. ASSUME NEW r \in Requests, finalize_claimed_failure(r)
      PROVE  SnapshotsRunOnce'
  <2>1. FailureWrites(r)
      BY <1>13, FailureEffect
  <2> QED
      BY <2>1, Shapes DEF TurnsOfClaims, SnapshotsRunOnce, FailureWrites,
         WritesRecord, Reply, Idle, Owned, registration, history
<1>14. ASSUME NEW r \in Requests, FailureDropped(r)
      PROVE  SnapshotsRunOnce'
    BY <1>14, Shapes DEF TurnsOfClaims, SnapshotsRunOnce, FailureDropped, Reply,
       Owned, Orphan, Idle, registration
<1>15. CASE Crash
    BY <1>15, Shapes DEF TurnsOfClaims, SnapshotsRunOnce, Crash, Owned, Orphan, Idle
<1>16. CASE UNCHANGED vars
    BY <1>16, Shapes DEF TurnsOfClaims, SnapshotsRunOnce, vars, registration, request,
       history
<1> QED
    BY <1>1, <1>2, <1>3, <1>4, <1>5, <1>6, <1>7, <1>8, <1>9, <1>10, <1>11, <1>12,
       <1>13, <1>14, <1>15, <1>16 DEF Next, approve_task, Claimed

LEMMA OrphanInit == Init => OrphanNeedsFailure
  BY DEF Init, OrphanNeedsFailure, Nothing

\* A claim ends with its result, or its request is known to have failed.
LEMMA OrphanStep ==
  ASSUME TypeOK, OnlyRegistered, ClaimIsExclusive, OrphanNeedsFailure, [Next]_vars
  PROVE  OrphanNeedsFailure'
<1>1. ASSUME NEW t \in Tasks, DrawTask(t)
      PROVE  OrphanNeedsFailure'
    BY <1>1, Shapes DEF OnlyRegistered, ClaimIsExclusive, OrphanNeedsFailure,
       HoldsClaim, Owned, DrawTask, Stamp, request, history
<1>2. ASSUME NEW t \in Tasks, register_waiting_task(t)
      PROVE  OrphanNeedsFailure'
  <2>1. RegisterWrites(t)
      BY <1>2, RegisterEffect
  <2> QED
      BY <2>1, Shapes DEF OnlyRegistered, ClaimIsExclusive, OrphanNeedsFailure,
         HoldsClaim, Owned, RegisterWrites, request, history
<1>3. ASSUME NEW t \in Tasks, RegisterFails(t)
      PROVE  OrphanNeedsFailure'
    BY <1>3, Shapes DEF OnlyRegistered, ClaimIsExclusive, OrphanNeedsFailure,
       HoldsClaim, Owned, RegisterFails, request, history
<1>4. ASSUME NEW t \in Tasks, cancel_waiting_task(t)
      PROVE  OrphanNeedsFailure'
  <2>1. CancelWrites(t)
      BY <1>4, CancelEffect
  <2> QED
      BY <2>1, Shapes DEF OnlyRegistered, ClaimIsExclusive, OrphanNeedsFailure,
         HoldsClaim, Owned, CancelWrites, WritesRecord, registration, request
<1>5. ASSUME NEW r \in Requests, NEW t \in Tasks, ReadRecord(r, t)
      PROVE  OrphanNeedsFailure'
    BY <1>5, Shapes DEF OnlyRegistered, ClaimIsExclusive, OrphanNeedsFailure,
       HoldsClaim, Owned, ReadRecord, registration, history
<1>6. ASSUME NEW r \in Requests, Refuse(r)
      PROVE  OrphanNeedsFailure'
    BY <1>6, Shapes DEF OnlyRegistered, ClaimIsExclusive, OrphanNeedsFailure,
       HoldsClaim, Owned, Refuse, Reply, Idle, registration, history
<1>7. ASSUME NEW r \in Requests, claim_waiting_task(r)
      PROVE  OrphanNeedsFailure'
  <2>1. ClaimWrites(r)
      BY <1>7, ClaimEffect
  <2> QED
      BY <2>1, Shapes DEF OnlyRegistered, ClaimIsExclusive, OrphanNeedsFailure,
         HoldsClaim, Owned, ClaimWrites, WritesRecord, registration
<1>8. ASSUME NEW r \in Requests, ClaimFails(r)
      PROVE  OrphanNeedsFailure'
    BY <1>8, Shapes DEF OnlyRegistered, ClaimIsExclusive, OrphanNeedsFailure,
       HoldsClaim, Owned, ClaimFails, Reply, Idle, registration, history
<1>9. ASSUME NEW r \in Requests, NEW x \in Results \cup {"RAISED"}, continue_task_loop(r, x)
      PROVE  OrphanNeedsFailure'
  <2>1. store' = store /\ task' = task /\ orphaned' = orphaned
      BY <1>9 DEF continue_task_loop
  <2>2. \A q \in Requests : HoldsClaim(q) => HoldsClaim(q)'
      BY <1>9, Shapes DEF continue_task_loop, HoldsClaim
  <2> QED BY <2>1, <2>2 DEF OrphanNeedsFailure
<1>10. ASSUME NEW r \in Requests, finalize_claimed_task(r)
      PROVE  OrphanNeedsFailure'
  <2>1. ResultWrites(r)
      BY <1>10, ResultEffect
  <2> SUFFICES ASSUME NEW t \in Tasks, store'[t] # Absent, store'[t].status = "EXECUTING"
               PROVE  t \in orphaned' \/ \E q \in Requests : HoldsClaim(q)' /\ task'[q] = t
      BY DEF OrphanNeedsFailure
  <2>2. t # task[r]
      BY <2>1 DEF ResultWrites, WritesRecord, Results, Terminal
  <2>3. orphaned' = orphaned /\ store'[t] = store[t]
      BY <2>1, <2>2 DEF ResultWrites, WritesRecord, history
  <2>4. CASE t \in orphaned
      BY <2>3, <2>4
  <2>5. ASSUME NEW q \in Requests, HoldsClaim(q), task[q] = t
        PROVE  HoldsClaim(q)' /\ task'[q] = t
    <3>1. q # r
        BY <2>2, <2>5
    <3> QED BY <2>1, <2>5, <3>1, Shapes DEF ResultWrites, Reply, HoldsClaim
  <2> QED BY <2>3, <2>4, <2>5 DEF OrphanNeedsFailure
<1>11. ASSUME NEW r \in Requests, ResultDropped(r)
      PROVE  OrphanNeedsFailure'
    BY <1>11, Shapes DEF OnlyRegistered, ClaimIsExclusive, OrphanNeedsFailure,
       HoldsClaim, Owned, ResultDropped, Reply, Orphan, Idle, registration
<1>12. ASSUME NEW r \in Requests, FinalizeRaises(r)
      PROVE  OrphanNeedsFailure'
    BY <1>12, Shapes DEF OnlyRegistered, ClaimIsExclusive, OrphanNeedsFailure,
       HoldsClaim, Owned, FinalizeRaises, registration, history
<1>13. ASSUME NEW r \in Requests, finalize_claimed_failure(r)
      PROVE  OrphanNeedsFailure'
  <2>1. FailureWrites(r)
      BY <1>13, FailureEffect
  <2> SUFFICES ASSUME NEW t \in Tasks, store'[t] # Absent, store'[t].status = "EXECUTING"
               PROVE  t \in orphaned' \/ \E q \in Requests : HoldsClaim(q)' /\ task'[q] = t
      BY DEF OrphanNeedsFailure
  <2>2. t # task[r]
      BY <2>1 DEF FailureWrites, WritesRecord, Results, Terminal
  <2>3. orphaned' = orphaned /\ store'[t] = store[t]
      BY <2>1, <2>2 DEF FailureWrites, WritesRecord, history
  <2>4. CASE t \in orphaned
      BY <2>3, <2>4
  <2>5. ASSUME NEW q \in Requests, HoldsClaim(q), task[q] = t
        PROVE  HoldsClaim(q)' /\ task'[q] = t
    <3>1. q # r
        BY <2>2, <2>5
    <3> QED BY <2>1, <2>5, <3>1, Shapes DEF FailureWrites, Reply, HoldsClaim
  <2> QED BY <2>3, <2>4, <2>5 DEF OrphanNeedsFailure
<1>14. ASSUME NEW r \in Requests, FailureDropped(r)
      PROVE  OrphanNeedsFailure'
    BY <1>14, Shapes DEF OnlyRegistered, ClaimIsExclusive, OrphanNeedsFailure,
       HoldsClaim, Owned, FailureDropped, Reply, Orphan, Idle, registration
<1>15. CASE Crash
  <2> SUFFICES ASSUME NEW t \in Tasks, store[t] # Absent, store[t].status = "EXECUTING"
               PROVE  t \in orphaned'
      BY <1>15 DEF OrphanNeedsFailure, Crash
  <2>1. orphaned' = orphaned \cup
            {task[r] : r \in {q \in Requests : pc[q] # "idle" /\ Owned(store, q)}}
      BY <1>15 DEF Crash, Orphan
  <2>2. ASSUME NEW q \in Requests, HoldsClaim(q), task[q] = t
        PROVE  pc[q] # "idle" /\ Owned(store, q)
      BY <2>2 DEF ClaimIsExclusive, HoldsClaim
  <2> QED BY <2>1, <2>2 DEF OrphanNeedsFailure
<1>16. CASE UNCHANGED vars
    BY <1>16, Shapes DEF OnlyRegistered, ClaimIsExclusive, OrphanNeedsFailure,
       HoldsClaim, Owned, vars, registration, request, history
<1> QED
    BY <1>1, <1>2, <1>3, <1>4, <1>5, <1>6, <1>7, <1>8, <1>9, <1>10, <1>11, <1>12,
       <1>13, <1>14, <1>15, <1>16 DEF Next, approve_task, Claimed

(***************************************************************************)
(* The size of the file.                                                   *)
(***************************************************************************)
\* No two of the time stamps that are, or will be, in the file are the same:
\* those of the records, of drawn registrations and of results not yet written.
StampsDiffer ==
    /\ \A t, u \in Tasks : t # u /\ store[t] # Absent /\ store[u] # Absent =>
          store[t].version # store[u].version
    /\ \A t, u \in Tasks : phase[u] = "drawn" /\ store[t] # Absent =>
          store[t].version # drawn[u]
    /\ \A t, u \in Tasks : t # u /\ phase[t] = "drawn" /\ phase[u] = "drawn" =>
          drawn[t] # drawn[u]
    /\ \A r \in Requests, t \in Tasks : pc[r] = "ran" =>
          /\ store[t] # Absent => stamp[r] # store[t].version
          /\ phase[t] = "drawn" => stamp[r] # drawn[t]
    /\ \A q, r \in Requests : q # r /\ pc[q] = "ran" /\ pc[r] = "ran" =>
          stamp[q] # stamp[r]

\* The file holds finitely many records, and no more than the limit.
Bounded == IsFiniteSet(Stored(store)) /\ StoreBounded

\* A new time stamp is none of those there are.
LEMMA NewStamp ==
  ASSUME TypeOK, RecordsStamped, RequestsStamped
  PROVE  /\ now + 1 # 0
         /\ \A t \in Tasks : /\ drawn[t] # now + 1
                             /\ store[t] # Absent => store[t].version # now + 1
         /\ \A r \in Requests : pc[r] = "ran" => stamp[r] # now + 1
<1>1. ASSUME NEW t \in Tasks
      PROVE  drawn[t] # now + 1 /\ (store[t] # Absent => store[t].version # now + 1)
    BY Shapes DEF RecordsStamped
<1>2. ASSUME NEW r \in Requests, pc[r] = "ran" PROVE stamp[r] # now + 1
    BY <1>2, Shapes DEF RequestsStamped
<1>3. now + 1 # 0
    BY Shapes
<1> QED BY <1>1, <1>2, <1>3

\* A record gets a time stamp nothing else has.
LEMMA Restamped ==
  ASSUME StampsDiffer, NEW t \in Tasks, NEW s, NEW v, NEW k, WritesRecord(t, s, v, k),
         \A u \in Tasks : u # t /\ store[u] # Absent => store[u].version # v,
         \A u \in Tasks : phase[u] = "drawn" => drawn[u] # v,
         UNCHANGED <<phase, drawn>>,
         \A q \in Requests :
            pc'[q] = "ran" => pc[q] = "ran" /\ stamp'[q] = stamp[q] /\ stamp[q] # v
  PROVE  StampsDiffer'
<1>1. /\ store'[t] # Absent /\ store'[t].version = v
      /\ \A u \in Tasks : u # t => store'[u] = store[u]
    BY DEF WritesRecord
<1>2. ASSUME NEW a \in Tasks, NEW b \in Tasks, a # b, store'[a] # Absent, store'[b] # Absent
      PROVE  store'[a].version # store'[b].version
  <2>1. CASE a = t
      BY <1>1, <1>2, <2>1
  <2>2. CASE b = t
      BY <1>1, <1>2, <2>2
  <2>3. CASE a # t /\ b # t
      BY <1>1, <1>2, <2>3 DEF StampsDiffer
  <2> QED BY <2>1, <2>2, <2>3
<1>3. ASSUME NEW a \in Tasks, NEW b \in Tasks, phase'[b] = "drawn", store'[a] # Absent
      PROVE  store'[a].version # drawn'[b]
    BY <1>1, <1>3 DEF StampsDiffer
<1>4. ASSUME NEW a \in Tasks, NEW b \in Tasks, a # b, phase'[a] = "drawn", phase'[b] = "drawn"
      PROVE  drawn'[a] # drawn'[b]
    BY <1>4 DEF StampsDiffer
<1>5. ASSUME NEW q \in Requests, NEW a \in Tasks, pc'[q] = "ran"
      PROVE  /\ store'[a] # Absent => stamp'[q] # store'[a].version
             /\ phase'[a] = "drawn" => stamp'[q] # drawn'[a]
    BY <1>1, <1>5 DEF StampsDiffer
<1>6. ASSUME NEW q \in Requests, NEW r \in Requests, q # r, pc'[q] = "ran", pc'[r] = "ran"
      PROVE  stamp'[q] # stamp'[r]
    BY <1>6 DEF StampsDiffer
<1> QED BY <1>2, <1>3, <1>4, <1>5, <1>6 DEF StampsDiffer


LEMMA StampsInit == Init => StampsDiffer
  BY DEF Init, StampsDiffer, Nothing

\* A new time stamp is later than all there are; the others move, each once.
LEMMA StampsDifferStep ==
  ASSUME TypeOK, RecordsStamped, RequestsStamped, StampsDiffer, [Next]_vars
  PROVE  StampsDiffer'
<1>1. ASSUME NEW t \in Tasks, DrawTask(t)
      PROVE  StampsDiffer'
    BY <1>1, Shapes DEF StampsDiffer, RecordsStamped, RequestsStamped, HoldsClaim,
       DrawTask, Stamp, request, history
<1>2. ASSUME NEW t \in Tasks, register_waiting_task(t)
      PROVE  StampsDiffer'
  <2>1. RegisterWrites(t)
      BY <1>2, RegisterEffect
  <2>2. /\ \A u \in Tasks : u # t => store'[u] \in {store[u], Absent}
        /\ store'[t] # Absent => store'[t].version = drawn[t]
        /\ phase[t] = "drawn" /\ phase'[t] = "registered"
        /\ \A u \in Tasks : u # t => phase'[u] = phase[u] /\ drawn'[u] = drawn[u]
        /\ UNCHANGED <<pc, stamp>>
      BY <2>1, Shapes DEF RegisterWrites, request
  <2>3. ASSUME NEW a \in Tasks, store'[a] # Absent
        PROVE  /\ a # t => store[a] # Absent /\ store'[a] = store[a]
               /\ a = t => store'[a].version = drawn[t]
      BY <2>2, <2>3
  <2>4. ASSUME NEW a \in Tasks, phase'[a] = "drawn"
        PROVE  a # t /\ phase[a] = "drawn" /\ drawn'[a] = drawn[a]
      BY <2>2, <2>4
  <2>5. ASSUME NEW a \in Tasks, NEW b \in Tasks, a # b, store'[a] # Absent, store'[b] # Absent
        PROVE  store'[a].version # store'[b].version
    <3>1. CASE a = t
        BY <2>2, <2>3, <2>5, <3>1 DEF StampsDiffer
    <3>2. CASE b = t
        BY <2>2, <2>3, <2>5, <3>2 DEF StampsDiffer
    <3>3. CASE a # t /\ b # t
        BY <2>3, <2>5, <3>3 DEF StampsDiffer
    <3> QED BY <3>1, <3>2, <3>3
  <2>6. ASSUME NEW a \in Tasks, NEW b \in Tasks, phase'[b] = "drawn", store'[a] # Absent
        PROVE  store'[a].version # drawn'[b]
      BY <2>2, <2>3, <2>4, <2>6 DEF StampsDiffer
  <2>7. ASSUME NEW a \in Tasks, NEW b \in Tasks, a # b, phase'[a] = "drawn", phase'[b] = "drawn"
        PROVE  drawn'[a] # drawn'[b]
      BY <2>4, <2>7 DEF StampsDiffer
  <2>8. ASSUME NEW q \in Requests, NEW a \in Tasks, pc'[q] = "ran"
        PROVE  /\ store'[a] # Absent => stamp'[q] # store'[a].version
               /\ phase'[a] = "drawn" => stamp'[q] # drawn'[a]
    <3>1. pc[q] = "ran" /\ stamp'[q] = stamp[q]
        BY <2>2, <2>8
    <3>2. ASSUME store'[a] # Absent PROVE stamp[q] # store'[a].version
        BY <2>2, <2>3, <3>1, <3>2 DEF StampsDiffer
    <3>3. ASSUME phase'[a] = "drawn" PROVE stamp[q] # drawn'[a]
        BY <2>4, <3>1, <3>3 DEF StampsDiffer
    <3> QED BY <3>1, <3>2, <3>3
  <2>9. ASSUME NEW q \in Requests, NEW r \in Requests, q # r, pc'[q] = "ran", pc'[r] = "ran"
        PROVE  stamp'[q] # stamp'[r]
      BY <2>2, <2>9 DEF StampsDiffer
  <2> QED BY <2>5, <2>6, <2>7, <2>8, <2>9 DEF StampsDiffer
<1>3. ASSUME NEW t \in Tasks, RegisterFails(t)
      PROVE  StampsDiffer'
    BY <1>3, Shapes DEF StampsDiffer, RecordsStamped, RequestsStamped, HoldsClaim,
       RegisterFails, request, history
<1>4. ASSUME NEW t \in Tasks, cancel_waiting_task(t)
      PROVE  StampsDiffer'
  <2>1. CancelWrites(t)
      BY <1>4, CancelEffect
  <2>2. /\ WritesRecord(t, "CANCELLED", now + 1, store[t].turn)
        /\ UNCHANGED <<phase, drawn, pc, stamp>>
      BY <2>1 DEF CancelWrites, registration, request
  <2> QED BY <2>2, NewStamp, Restamped
<1>5. ASSUME NEW r \in Requests, NEW t \in Tasks, ReadRecord(r, t)
      PROVE  StampsDiffer'
    BY <1>5, Shapes DEF StampsDiffer, RecordsStamped, RequestsStamped, HoldsClaim,
       ReadRecord, registration, history
<1>6. ASSUME NEW r \in Requests, Refuse(r)
      PROVE  StampsDiffer'
    BY <1>6, Shapes DEF StampsDiffer, RecordsStamped, RequestsStamped, HoldsClaim,
       Refuse, Reply, registration, history
<1>7. ASSUME NEW r \in Requests, claim_waiting_task(r)
      PROVE  StampsDiffer'
  <2>1. ClaimWrites(r)
      BY <1>7, ClaimEffect
  <2>2. /\ task[r] \in Tasks
        /\ WritesRecord(task[r], "EXECUTING", now + 1, store[task[r]].turn)
        /\ UNCHANGED <<phase, drawn, stamp>>
      BY <2>1 DEF ClaimWrites, registration
  <2>3. \A q \in Requests : pc'[q] = "ran" => pc[q] = "ran"
      BY <2>1, Shapes DEF ClaimWrites
  <2> QED BY <2>2, <2>3, NewStamp, Restamped
<1>8. ASSUME NEW r \in Requests, ClaimFails(r)
      PROVE  StampsDiffer'
    BY <1>8, Shapes DEF StampsDiffer, RecordsStamped, RequestsStamped, HoldsClaim,
       ClaimFails, Reply, registration, history
<1>9. ASSUME NEW r \in Requests, NEW x \in Results \cup {"RAISED"}, continue_task_loop(r, x)
      PROVE  StampsDiffer'
  <2>1. CASE x = "RAISED"
      BY <1>9, <2>1, Shapes DEF StampsDiffer, RecordsStamped, RequestsStamped,
         HoldsClaim, continue_task_loop, registration
  <2>2. CASE x # "RAISED"
    <3>1. /\ UNCHANGED <<store, phase, drawn>>
          /\ pc'[r] = "ran" /\ stamp'[r] = now + 1
          /\ \A q \in Requests : q # r => pc'[q] = pc[q] /\ stamp'[q] = stamp[q]
        BY <1>9, <2>2, Shapes DEF continue_task_loop, Stamp, registration
    <3>2. ASSUME NEW q \in Requests, NEW a \in Tasks, pc'[q] = "ran"
          PROVE  /\ store'[a] # Absent => stamp'[q] # store'[a].version
                 /\ phase'[a] = "drawn" => stamp'[q] # drawn'[a]
      <4>1. CASE q = r
          BY <3>1, <4>1, NewStamp
      <4>2. CASE q # r
          BY <3>1, <3>2, <4>2 DEF StampsDiffer
      <4> QED BY <4>1, <4>2
    <3>3. ASSUME NEW p \in Requests, NEW q \in Requests, p # q, pc'[p] = "ran", pc'[q] = "ran"
          PROVE  stamp'[p] # stamp'[q]
      <4>1. CASE p = r
          BY <3>1, <3>3, <4>1, NewStamp
      <4>2. CASE q = r
          BY <3>1, <3>3, <4>2, NewStamp
      <4>3. CASE p # r /\ q # r
          BY <3>1, <3>3, <4>3 DEF StampsDiffer
      <4> QED BY <4>1, <4>2, <4>3
    <3> QED BY <3>1, <3>2, <3>3 DEF StampsDiffer
  <2> QED BY <2>1, <2>2
<1>10. ASSUME NEW r \in Requests, finalize_claimed_task(r)
      PROVE  StampsDiffer'
  <2>1. ResultWrites(r)
      BY <1>10, ResultEffect
  <2>2. /\ pc[r] = "ran" /\ task[r] \in Tasks
        /\ WritesRecord(task[r], result[r], stamp[r], NextTurn(r))
        /\ UNCHANGED <<phase, drawn>>
      BY <2>1 DEF ResultWrites, registration
  <2>3. \A q \in Requests :
           pc'[q] = "ran" => q # r /\ pc[q] = "ran" /\ stamp'[q] = stamp[q]
      BY <2>1, Shapes DEF ResultWrites, Reply
  <2>4. /\ \A u \in Tasks : store[u] # Absent => store[u].version # stamp[r]
        /\ \A u \in Tasks : phase[u] = "drawn" => drawn[u] # stamp[r]
        /\ \A q \in Requests : q # r /\ pc[q] = "ran" => stamp[q] # stamp[r]
      BY <2>2 DEF StampsDiffer
  <2> QED BY <2>2, <2>3, <2>4, Restamped
<1>11. ASSUME NEW r \in Requests, ResultDropped(r)
      PROVE  StampsDiffer'
    BY <1>11, Shapes DEF StampsDiffer, RecordsStamped, RequestsStamped, HoldsClaim,
       ResultDropped, Reply, registration
<1>12. ASSUME NEW r \in Requests, FinalizeRaises(r)
      PROVE  StampsDiffer'
    BY <1>12, Shapes DEF StampsDiffer, RecordsStamped, RequestsStamped, HoldsClaim,
       FinalizeRaises, registration, history
<1>13. ASSUME NEW r \in Requests, finalize_claimed_failure(r)
      PROVE  StampsDiffer'
  <2>1. FailureWrites(r)
      BY <1>13, FailureEffect
  <2>2. /\ task[r] \in Tasks
        /\ WritesRecord(task[r], "BLOCKED", now + 1, store[task[r]].turn)
        /\ UNCHANGED <<phase, drawn>>
      BY <2>1 DEF FailureWrites, registration
  <2>3. \A q \in Requests : pc'[q] = "ran" => pc[q] = "ran" /\ stamp'[q] = stamp[q]
      BY <2>1, Shapes DEF FailureWrites, Reply
  <2> QED BY <2>2, <2>3, NewStamp, Restamped
<1>14. ASSUME NEW r \in Requests, FailureDropped(r)
      PROVE  StampsDiffer'
    BY <1>14, Shapes DEF StampsDiffer, RecordsStamped, RequestsStamped, HoldsClaim,
       FailureDropped, Reply, registration
<1>15. CASE Crash
    BY <1>15, Shapes DEF StampsDiffer, RecordsStamped, RequestsStamped, HoldsClaim,
       Crash
<1>16. CASE UNCHANGED vars
    BY <1>16, Shapes DEF StampsDiffer, RecordsStamped, RequestsStamped, HoldsClaim,
       vars, registration, request, history
<1> QED
    BY <1>1, <1>2, <1>3, <1>4, <1>5, <1>6, <1>7, <1>8, <1>9, <1>10, <1>11, <1>12,
       <1>13, <1>14, <1>15, <1>16 DEF Next, approve_task, Claimed

\* _trim_tasks() keeps at most Limit records when no two have the same time
\* stamp: each record kept has a number of newer ones of its own below Limit.
LEMMA TrimBounds ==
  ASSUME NEW s \in [Tasks -> Record \cup {Absent}], IsFiniteSet(Stored(s)),
         \A t, u \in Stored(s) : t # u => s[t].version # s[u].version
  PROVE  /\ IsFiniteSet(Stored(trim_tasks(s)))
         /\ Cardinality(Stored(trim_tasks(s))) <= Limit
<1> DEFINE kept == Stored(trim_tasks(s))
           rank == [t \in kept |-> Cardinality(Newer(s, t))]
<1>1. \A t \in kept : t \in Stored(s) /\ Cardinality(Newer(s, t)) < Limit
    BY DEF Stored, trim_tasks
<1>2. \A t \in Stored(s) : s[t].version \in Nat
    BY DEF Stored, Record
<1>3. \A t \in Stored(s) : IsFiniteSet(Newer(s, t)) /\ Cardinality(Newer(s, t)) \in Nat
  <2> TAKE t \in Stored(s)
  <2>1. Newer(s, t) \in SUBSET Stored(s)
      BY DEF Newer
  <2> QED BY <2>1, FS_Subset, FS_CardinalityType
<1>4. ASSUME NEW t \in Stored(s), NEW u \in Stored(s), s[t].version < s[u].version
      PROVE  Cardinality(Newer(s, u)) < Cardinality(Newer(s, t))
  <2>1. Newer(s, u) \in SUBSET Newer(s, t)
      BY <1>2, <1>4 DEF Newer
  <2>2. u \in Newer(s, t) /\ u \notin Newer(s, u)
      BY <1>2, <1>4 DEF Newer
  <2>3. Cardinality(Newer(s, u)) <= Cardinality(Newer(s, t))
        /\ Cardinality(Newer(s, u)) # Cardinality(Newer(s, t))
      BY <1>3, <2>1, <2>2, FS_Subset
  <2> QED BY <1>3, <2>3
<1>5. rank \in Injection(kept, 0 .. Limit - 1)
  <2>1. rank \in [kept -> 0 .. Limit - 1]
      BY <1>1, <1>3, ConstantsAssumption DEF ConstantsAssumption
  <2>2. ASSUME NEW t \in kept, NEW u \in kept, rank[t] = rank[u] PROVE t = u
    <3>1. t \in Stored(s) /\ u \in Stored(s)
        BY <1>1
    <3>2. Cardinality(Newer(s, t)) = Cardinality(Newer(s, u))
        BY <2>2
    <3> HIDE DEF kept, rank
    <3>3. ~(s[t].version < s[u].version) /\ ~(s[u].version < s[t].version)
        BY <1>3, <1>4, <3>1, <3>2
    <3> QED BY <1>2, <3>1, <3>3
  <2>3. DOMAIN rank = kept
      OBVIOUS
  <2> HIDE DEF kept, rank
  <2> QED BY <2>1, <2>2, <2>3 DEF Injection, IsInjective
<1>6. IsFiniteSet(0 .. Limit - 1) /\ Cardinality(0 .. Limit - 1) = Limit
    BY FS_Interval, ConstantsAssumption DEF ConstantsAssumption
<1> HIDE DEF kept, rank
<1>7. IsFiniteSet(kept) /\ Cardinality(kept) <= Limit
    BY <1>5, <1>6, FS_Injection
<1> QED BY <1>7 DEF kept

LEMMA BoundedInit == Init => Bounded
<1> SUFFICES ASSUME Init PROVE Bounded
    OBVIOUS
<1>1. Stored(store) = {}
    BY DEF Init, Stored, Nothing
<1> QED BY <1>1, FS_EmptySet, ConstantsAssumption
        DEF Bounded, StoreBounded, ConstantsAssumption

\* Only a registration adds a record, and it trims the file.
LEMMA BoundedStep ==
  ASSUME TypeOK, StampsDiffer, Bounded, [Next]_vars
  PROVE  Bounded'
<1>1. ASSUME Stored(store') = Stored(store) PROVE Bounded'
    BY <1>1 DEF Bounded, StoreBounded
<1>2. ASSUME NEW t, NEW s, NEW v, NEW k, WritesRecord(t, s, v, k), store[t] # Absent
      PROVE  Stored(store') = Stored(store)
    BY <1>2 DEF WritesRecord, Stored
<1>3. ASSUME NEW t \in Tasks, register_waiting_task(t) PROVE Bounded'
  <2> DEFINE rec == [status |-> "WAITING", version |-> drawn[t], snap |-> "WAITING",
                     turn |-> 1]
  <2>1. PICK s \in {store, Nothing} : store' = trim_tasks([s EXCEPT ![t] = rec])
      BY <1>3 DEF register_waiting_task, load_store
  <2>2. rec \in Record /\ rec # Absent /\ rec.version = drawn[t]
      BY ConstantsAssumption
         DEF ConstantsAssumption, TypeOK, VariableTypes, Record, Status, Results
  <2> DEFINE full == [s EXCEPT ![t] = rec]
  <2>3. s \in [Tasks -> Record \cup {Absent}] /\ Stored(s) \in SUBSET Stored(store)
      BY DEF Nothing, TypeOK, VariableTypes, Stored
  <2>4. /\ full \in [Tasks -> Record \cup {Absent}]
        /\ full[t] = rec /\ \A u \in Tasks : u # t => full[u] = s[u]
      BY <2>2, <2>3
  <2> HIDE DEF full, rec
  <2>5. IsFiniteSet(Stored(full))
    <3>1. IsFiniteSet(Stored(store) \cup {t})
        BY FS_AddElement DEF Bounded
    <3>2. Stored(full) \in SUBSET (Stored(store) \cup {t})
        BY <2>3, <2>4 DEF Stored
    <3> QED BY <3>1, <3>2, FS_Subset
  <2>6. ASSUME NEW a \in Stored(full), NEW b \in Stored(full), a # b
        PROVE  full[a].version # full[b].version
    <3>1. phase[t] = "drawn"
        BY <1>3 DEF register_waiting_task
    <3>2. \A u \in Tasks : s[u] = store[u] \/ s[u] = Absent
        BY DEF Nothing
    <3>3. a \in Tasks /\ b \in Tasks /\ full[a] # Absent /\ full[b] # Absent
        BY DEF Stored
    <3>4. CASE a # t /\ b # t
        BY <2>4, <2>6, <3>2, <3>3, <3>4 DEF StampsDiffer
    <3>5. CASE a = t
        BY <2>2, <2>4, <2>6, <3>1, <3>2, <3>3, <3>5 DEF StampsDiffer
    <3>6. CASE b = t
        BY <2>2, <2>4, <2>6, <3>1, <3>2, <3>3, <3>6 DEF StampsDiffer
    <3> QED BY <3>4, <3>5, <3>6
  <2>7. IsFiniteSet(Stored(trim_tasks(full))) /\ Cardinality(Stored(trim_tasks(full))) <= Limit
      BY <2>4, <2>5, <2>6, TrimBounds
  <2>8. store' = trim_tasks(full)
      BY <2>1 DEF full
  <2> QED BY <2>7, <2>8 DEF Bounded, StoreBounded
<1>4. ASSUME NEW t \in Tasks, cancel_waiting_task(t) PROVE Bounded'
    BY <1>1, <1>2, <1>4, CancelEffect DEF CancelWrites
<1>5. ASSUME NEW r \in Requests, claim_waiting_task(r) PROVE Bounded'
    BY <1>1, <1>2, <1>5, ClaimEffect DEF ClaimWrites
<1>6. ASSUME NEW r \in Requests, finalize_claimed_task(r) PROVE Bounded'
    BY <1>1, <1>2, <1>6, ResultEffect DEF ResultWrites, Owned
<1>7. ASSUME NEW r \in Requests, finalize_claimed_failure(r) PROVE Bounded'
    BY <1>1, <1>2, <1>7, FailureEffect DEF FailureWrites, Owned
<1>8. CASE UNCHANGED store
    BY <1>1, <1>8
<1>9. ASSUME NEW t \in Tasks, DrawTask(t) \/ RegisterFails(t) PROVE UNCHANGED store
    BY <1>9 DEF DrawTask, RegisterFails
<1>10. ASSUME NEW r \in Requests, NEW t \in Tasks, ReadRecord(r, t) PROVE UNCHANGED store
    BY <1>10 DEF ReadRecord
<1>11. ASSUME NEW r \in Requests, Refuse(r) \/ ClaimFails(r) \/ ResultDropped(r)
              \/ FinalizeRaises(r) \/ FailureDropped(r)
       PROVE  UNCHANGED store
    BY <1>11 DEF Refuse, ClaimFails, ResultDropped, FinalizeRaises, FailureDropped
<1>12. ASSUME NEW r \in Requests, NEW x \in Results \cup {"RAISED"}, continue_task_loop(r, x)
       PROVE  UNCHANGED store
    BY <1>12 DEF continue_task_loop
<1>13. CASE Crash \/ UNCHANGED vars
    BY <1>8, <1>13 DEF Crash, vars
<1> QED
    BY <1>3, <1>4, <1>5, <1>6, <1>7, <1>8, <1>9, <1>10, <1>11, <1>12, <1>13
       DEF Next, approve_task, Claimed

(***************************************************************************)
(* The theorems.                                                           *)
(***************************************************************************)
\* Every behaviour of the specification satisfies the invariant.
THEOREM ResumeInvariant == Spec => []IInv
<1>1. Init => IInv
    BY TypeInit, RegisteredInit, ExclusiveInit, CancelledInit, StampedInit, SeenInit,
       TurnsInit, OnceInit, OrphanInit DEF IInv
<1>2. IInv /\ [Next]_vars => IInv'
  <2> SUFFICES ASSUME IInv, [Next]_vars
               PROVE  IInv'
      OBVIOUS
  <2>1. TypeOK'
      BY VariableTypesStep, BusyTypesStep DEF IInv, TypeOK
  <2>2. OnlyRegistered' /\ ClaimIsExclusive' /\ CancelledIsOver'
      BY RegisteredStep, ExclusiveStep, CancelledStep DEF IInv
  <2>3. RecordsStamped' /\ RequestsStamped'
      BY RecordsStampedStep, RequestsStampedStep DEF IInv
  <2>4. RecordsAsSeen' /\ SeenBeforeClaims'
      BY RecordsAsSeenStep, SeenBeforeClaimsStep DEF IInv
  <2>5. TurnsOfRecords' /\ TurnsOfClaims' /\ SnapshotsRunOnce'
      BY TurnsOfRecordsStep, TurnsOfClaimsStep, OnceStep DEF IInv
  <2>6. OrphanNeedsFailure'
      BY OrphanStep DEF IInv
  <2> QED BY <2>1, <2>2, <2>3, <2>4, <2>5, <2>6 DEF IInv
<1> QED BY <1>1, <1>2, PTL DEF Spec

\* While a request holds a claim, its record is dropped or as the claim left
\* it, and no other request holds a claim of the same task: two overlapping
\* approve requests never both run the task loop on one record.
THEOREM ClaimIsExclusiveHolds == Spec => []ClaimIsExclusive
<1>1. IInv => ClaimIsExclusive
    BY DEF IInv
<1> QED BY <1>1, ResumeInvariant, PTL

\* continue_task_loop is entered with each snapshot at most once, and with the
\* snapshots of a task in the order they were written.
THEOREM SnapshotsRunOnceHolds == Spec => []SnapshotsRunOnce
<1>1. IInv => SnapshotsRunOnce
    BY DEF IInv
<1> QED BY <1>1, ResumeInvariant, PTL

\* A record is left EXECUTING without a request only by one that died or could
\* not reach the file when it settled its claim.
THEOREM OrphanNeedsFailureHolds == Spec => []OrphanNeedsFailure
<1>1. IInv => OrphanNeedsFailure
    BY DEF IInv
<1> QED BY <1>1, ResumeInvariant, PTL

\* The store never holds more than the configured number of tasks: _trim_tasks()
\* sorts by time stamps, and no two are equal although they are drawn outside
\* the lock.
THEOREM StoreBoundedHolds == Spec => []StoreBounded
<1>1. Init => StampsDiffer /\ Bounded
    BY StampsInit, BoundedInit
<1>2. IInv /\ StampsDiffer /\ Bounded /\ [Next]_vars => (StampsDiffer /\ Bounded)'
    BY StampsDifferStep, BoundedStep DEF IInv
<1>3. Bounded => StoreBounded
    BY DEF Bounded
<1> QED BY <1>1, <1>2, <1>3, ResumeInvariant, PTL DEF Spec

\* Only continue_task_loop adds to runs, for a task in a claim.
LEMMA CancelledTasksRest ==
  ASSUME IInv, [Next]_vars, NEW t \in cancelled
  PROVE  runs'[t] = runs[t]
<1>1. ASSUME NEW r \in Requests, NEW x \in Results \cup {"RAISED"}, continue_task_loop(r, x)
      PROVE  runs'[t] = runs[t]
  <2>1. task[r] # t
      BY <1>1 DEF continue_task_loop, IInv, CancelledIsOver, HoldsClaim
  <2> QED BY <1>1, <2>1, Shapes DEF continue_task_loop, IInv
<1>2. CASE \A r \in Requests, x \in Results \cup {"RAISED"} : ~continue_task_loop(r, x)
    BY <1>2 DEF Next, approve_task, Claimed, vars, history, DrawTask, register_waiting_task,
       RegisterFails, cancel_waiting_task, ReadRecord, Refuse, claim_waiting_task,
       ClaimFails, finalize_claimed_task, ResultDropped, FinalizeRaises,
       finalize_claimed_failure, FailureDropped, Crash
<1> QED BY <1>1, <1>2

\* Once cancel_waiting_task has confirmed a cancellation, no step of the task
\* is run any more, whatever an approve request had read before.
THEOREM NoRunAfterCancelHolds == Spec => NoRunAfterCancel
<1>1. IInv /\ [Next]_vars => [\A t \in cancelled : runs'[t] = runs[t]]_vars
    BY CancelledTasksRest
<1> QED BY <1>1, ResumeInvariant, PTL DEF Spec, NoRunAfterCancel

\* Only a registration may drop a terminal record; nothing changes one.
LEMMA TerminalRecordsRest ==
  ASSUME IInv, [Next]_vars, NEW t \in Tasks, store[t] # Absent, store[t].status \in Terminal
  PROVE  store'[t] \in {store[t], Absent}
<1> USE DEF IInv
<1>1. ASSUME NEW u \in Tasks, register_waiting_task(u)
      PROVE  store'[t] \in {store[t], Absent}
  <2>1. RegisterWrites(u)
      BY <1>1, RegisterEffect
  <2>2. t # u
      BY <2>1 DEF RegisterWrites, OnlyRegistered
  <2> QED BY <2>1, <2>2 DEF RegisterWrites
<1>2. ASSUME NEW u \in Tasks, cancel_waiting_task(u)
      PROVE  store'[t] = store[t]
  <2>1. CancelWrites(u)
      BY <1>2, CancelEffect
  <2> QED BY <2>1 DEF CancelWrites, WritesRecord, Terminal
<1>3. ASSUME NEW r \in Requests, claim_waiting_task(r)
      PROVE  store'[t] = store[t]
  <2>1. ClaimWrites(r)
      BY <1>3, ClaimEffect
  <2> QED BY <2>1 DEF ClaimWrites, WritesRecord, Terminal
<1>4. ASSUME NEW r \in Requests, finalize_claimed_task(r)
      PROVE  store'[t] = store[t]
  <2>1. ResultWrites(r)
      BY <1>4, ResultEffect
  <2> QED BY <2>1 DEF ResultWrites, WritesRecord, Owned, Terminal
<1>5. ASSUME NEW r \in Requests, finalize_claimed_failure(r)
      PROVE  store'[t] = store[t]
  <2>1. FailureWrites(r)
      BY <1>5, FailureEffect
  <2> QED BY <2>1 DEF FailureWrites, WritesRecord, Owned, Terminal
<1>6. CASE UNCHANGED store
    BY <1>6
<1> QED
    BY <1>1, <1>2, <1>3, <1>4, <1>5, <1>6
       DEF Next, approve_task, Claimed, vars, DrawTask, RegisterFails, ReadRecord, Refuse,
           ClaimFails, continue_task_loop, ResultDropped, FinalizeRaises, FailureDropped,
           Crash

\* A completed, blocked or cancelled record is never changed again, only
\* dropped by _trim_tasks or with an unreadable file.
THEOREM TerminalIsFinalHolds == Spec => TerminalIsFinal
<1>1. IInv /\ [Next]_vars =>
          [\A t \in Tasks : store[t] # Absent /\ store[t].status \in Terminal =>
               store'[t] \in {store[t], Absent}]_vars
    BY TerminalRecordsRest
<1> QED BY <1>1, ResumeInvariant, PTL DEF Spec, TerminalIsFinal

(***************************************************************************)
(* The refinement: each operation that settles something is one step of    *)
(* TaskLifecycle, every other one a stutter.                               *)
(***************************************************************************)
\* A record of a registered task has the status of the record.
LEMMA StatusOfRecord ==
  ASSUME IInv, NEW t \in Tasks
  PROVE  /\ store[t] # Absent => LifecycleStatus[t] = store[t].status
         /\ phase[t] = "registered" /\ store[t] = Absent => LifecycleStatus[t] = "GONE"
         /\ phase[t] # "registered" => LifecycleStatus[t] = "NONE"
  BY DEF IInv, OnlyRegistered, LifecycleStatus

\* A step that writes one record of a registered task changes its status only.
LEMMA StatusWritten ==
  ASSUME IInv, NEW t \in Tasks, phase[t] = "registered", phase' = phase,
         NEW s, NEW v, NEW k, WritesRecord(t, s, v, k)
  PROVE  LifecycleStatus' = [LifecycleStatus EXCEPT ![t] = s]
  BY DEF WritesRecord, LifecycleStatus

LEMMA RegisterRefines ==
  ASSUME IInv, NEW t \in Tasks, register_waiting_task(t)
  PROVE  \E lost \in SUBSET Tasks : Lifecycle!Register(t, lost)
<1> DEFINE lost == {u \in Tasks : LifecycleStatus'[u] = "GONE"}
<1>1. RegisterWrites(t)
    BY RegisterEffect DEF IInv
<1>2. /\ phase'[t] = "registered" /\ phase[t] = "drawn"
      /\ \A u \in Tasks : u # t => phase'[u] = phase[u]
    BY <1>1, Shapes DEF RegisterWrites, IInv
<1>3. LifecycleStatus[t] = "NONE"
    BY <1>2 DEF LifecycleStatus
<1>4. LifecycleStatus'[t] \in {"GONE", "WAITING"}
    BY <1>1, <1>2 DEF LifecycleStatus, RegisterWrites
<1>5. ASSUME NEW u \in Tasks, u # t
      PROVE  \/ LifecycleStatus'[u] = LifecycleStatus[u]
             \/ LifecycleStatus'[u] = "GONE" /\ LifecycleStatus[u] # "NONE"
  <2>1. CASE phase[u] # "registered"
      BY <1>2, <1>5, <2>1 DEF LifecycleStatus
  <2>2. CASE phase[u] = "registered" /\ store[u] = Absent
      BY <1>1, <1>2, <1>5, <2>2 DEF LifecycleStatus, RegisterWrites
  <2>3. CASE phase[u] = "registered" /\ store[u] # Absent
    <3>1. store[u].status # "NONE"
        BY <2>3, StoredRecord DEF IInv, Status, Results, Terminal
    <3>2. LifecycleStatus[u] = store[u].status
        BY <2>3 DEF LifecycleStatus
    <3>3. CASE store'[u] = Absent
        BY <1>2, <1>5, <2>3, <3>1, <3>2, <3>3 DEF LifecycleStatus
    <3>4. CASE store'[u] = store[u]
        BY <1>2, <1>5, <2>3, <3>2, <3>4 DEF LifecycleStatus
    <3> QED BY <1>1, <1>5, <3>3, <3>4 DEF RegisterWrites
  <2> QED BY <2>1, <2>2, <2>3
<1>6. \A u \in lost : u = t \/ LifecycleStatus[u] # "NONE"
    BY <1>5
<1>7. LifecycleStatus' = [u \in Tasks |-> IF u \in lost THEN "GONE"
                                         ELSE IF u = t THEN "WAITING"
                                         ELSE LifecycleStatus[u]]
  <2>1. LifecycleStatus' = [u \in Tasks |-> LifecycleStatus'[u]]
      BY DEF LifecycleStatus
  <2>2. ASSUME NEW u \in Tasks
        PROVE  LifecycleStatus'[u] = IF u \in lost THEN "GONE"
                                     ELSE IF u = t THEN "WAITING"
                                     ELSE LifecycleStatus[u]
      BY <1>4, <1>5
  <2> HIDE DEF lost
  <2> QED BY <2>1, <2>2
<1>8. UNCHANGED <<claims, Resumes>>
    BY <1>1 DEF RegisterWrites, history, Resumes
<1> HIDE DEF lost
<1>9. Lifecycle!Register(t, lost)
    BY <1>3, <1>6, <1>7, <1>8 DEF Lifecycle!Register
<1> QED BY <1>9 DEF lost

LEMMA CancelRefines ==
  ASSUME IInv, NEW t \in Tasks, cancel_waiting_task(t)
  PROVE  Lifecycle!Cancel(t)
<1>1. CancelWrites(t)
    BY CancelEffect DEF IInv
<1>2. phase[t] = "registered" /\ phase' = phase
    BY <1>1 DEF CancelWrites, registration, IInv, OnlyRegistered
<1>3. LifecycleStatus[t] = "WAITING"
    BY <1>1, StatusOfRecord DEF CancelWrites
<1>4. LifecycleStatus' = [LifecycleStatus EXCEPT ![t] = "CANCELLED"]
    BY <1>1, <1>2, StatusWritten DEF CancelWrites
<1>5. UNCHANGED <<claims, Resumes>>
    BY <1>1 DEF CancelWrites, Resumes
<1> QED BY <1>3, <1>4, <1>5 DEF Lifecycle!Cancel

LEMMA ClaimRefines ==
  ASSUME IInv, NEW r \in Requests, claim_waiting_task(r)
  PROVE  Lifecycle!Claim(task[r])
<1>1. ClaimWrites(r)
    BY ClaimEffect DEF IInv
<1>2. task[r] \in Tasks /\ phase[task[r]] = "registered" /\ phase' = phase
    BY <1>1 DEF ClaimWrites, registration, IInv, OnlyRegistered
<1>3. LifecycleStatus[task[r]] = "WAITING"
    BY <1>1, <1>2, StatusOfRecord DEF ClaimWrites
<1>4. LifecycleStatus' = [LifecycleStatus EXCEPT ![task[r]] = "EXECUTING"]
    BY <1>1, <1>2, StatusWritten DEF ClaimWrites
<1>5. claims' = [claims EXCEPT ![task[r]] = @ + 1] /\ UNCHANGED Resumes
    BY <1>1 DEF ClaimWrites, Resumes
<1> QED BY <1>3, <1>4, <1>5 DEF Lifecycle!Claim

LEMMA ResumeRefines ==
  ASSUME IInv, NEW r \in Requests, NEW x \in Results \cup {"RAISED"}, continue_task_loop(r, x)
  PROVE  Lifecycle!Resume(task[r])
<1> DEFINE t == task[r]
<1>1. pc[r] = "claimed" /\ t \in Tasks /\ phase[t] = "registered" /\ HoldsClaim(r)
    BY Shapes DEF continue_task_loop, IInv, OnlyRegistered, HoldsClaim
<1>2. LifecycleStatus[t] \in {"EXECUTING", "GONE"}
    BY <1>1, StatusOfRecord DEF IInv, ClaimIsExclusive, Owned
<1>3. Len(runs[t]) < claims[t]
  <2>1. claims[t] = Len(runs[t]) + 1 /\ Len(runs[t]) \in Nat
      BY <1>1, Shapes DEF IInv, TurnsOfClaims
  <2> QED BY <2>1
<1>4. Resumes' = [Resumes EXCEPT ![t] = @ + 1]
  <2>1. runs[t] \in Seq(1..MaxTurns) /\ DOMAIN runs = Tasks
      BY <1>1 DEF IInv, TypeOK, VariableTypes
  <2>2. runs' = [runs EXCEPT ![t] = Append(runs[t], seen[r].turn)]
      BY DEF continue_task_loop
  <2>3. seen[r].turn \in 1..MaxTurns
      BY <1>1, BusyRequest DEF IInv
  <2> DEFINE s == Append(runs[t], seen[r].turn)
  <2>4. Len(s) = Len(runs[t]) + 1
      BY <2>1, <2>3
  <2> HIDE DEF s
  <2>5. runs' = [runs EXCEPT ![t] = s]
      BY <2>2 DEF s
  <2>6. Resumes'[t] = Resumes[t] + 1 /\ \A u \in Tasks : u # t => Resumes'[u] = Resumes[u]
      BY <1>1, <2>1, <2>4, <2>5 DEF Resumes
  <2> QED BY <2>6, <1>1 DEF Resumes
<1>5. UNCHANGED <<LifecycleStatus, claims>>
    BY DEF continue_task_loop, registration, LifecycleStatus
<1>6. t \in Tasks /\ Resumes[t] < claims[t]
    BY <1>1, <1>3 DEF Resumes
<1> QED BY <1>2, <1>4, <1>5, <1>6 DEF Lifecycle!Resume

LEMMA ResultRefines ==
  ASSUME IInv, NEW r \in Requests, finalize_claimed_task(r)
  PROVE  \E s \in Results : Lifecycle!Settle(task[r], s)
<1>1. ResultWrites(r)
    BY ResultEffect DEF IInv
<1>2. task[r] \in Tasks /\ phase[task[r]] = "registered" /\ phase' = phase
    BY <1>1 DEF ResultWrites, registration, IInv, OnlyRegistered
<1>3. LifecycleStatus[task[r]] = "EXECUTING"
    BY <1>1, <1>2, StatusOfRecord DEF ResultWrites, Owned
<1>4. LifecycleStatus' = [LifecycleStatus EXCEPT ![task[r]] = result[r]]
    BY <1>1, <1>2, StatusWritten DEF ResultWrites
<1>5. UNCHANGED <<claims, Resumes>>
    BY <1>1 DEF ResultWrites, history, Resumes
<1>6. Resumes[task[r]] = claims[task[r]]
    BY <1>1, <1>2 DEF ResultWrites, IInv, TurnsOfClaims, Resumes
<1>7. Lifecycle!Settle(task[r], result[r])
    BY <1>3, <1>4, <1>5, <1>6 DEF Lifecycle!Settle
<1> QED BY <1>1, <1>7 DEF ResultWrites

LEMMA FailureRefines ==
  ASSUME IInv, NEW r \in Requests, finalize_claimed_failure(r)
  PROVE  \E s \in Results : Lifecycle!Settle(task[r], s)
<1>1. FailureWrites(r)
    BY FailureEffect DEF IInv
<1>2. task[r] \in Tasks /\ phase[task[r]] = "registered" /\ phase' = phase
    BY <1>1 DEF FailureWrites, registration, IInv, OnlyRegistered
<1>3. LifecycleStatus[task[r]] = "EXECUTING"
    BY <1>1, <1>2, StatusOfRecord DEF FailureWrites, Owned
<1>4. LifecycleStatus' = [LifecycleStatus EXCEPT ![task[r]] = "BLOCKED"]
    BY <1>1, <1>2, StatusWritten DEF FailureWrites
<1>5. UNCHANGED <<claims, Resumes>>
    BY <1>1 DEF FailureWrites, history, Resumes
<1>6. Resumes[task[r]] = claims[task[r]]
    BY <1>1, <1>2 DEF FailureWrites, IInv, TurnsOfClaims, Resumes
<1>7. Lifecycle!Settle(task[r], "BLOCKED")
    BY <1>3, <1>4, <1>5, <1>6 DEF Lifecycle!Settle
<1> QED BY <1>7 DEF Results, Terminal

LEMMA LifecycleInit == Init => Lifecycle!Init
<1> SUFFICES ASSUME Init
             PROVE  Lifecycle!Init
    OBVIOUS
<1>1. LifecycleStatus = [t \in Tasks |-> "NONE"]
    BY DEF Init, LifecycleStatus
<1>2. Resumes = [t \in Tasks |-> 0]
    BY DEF Init, Resumes
<1>3. claims = [t \in Tasks |-> 0]
    BY DEF Init
<1> QED BY <1>1, <1>2, <1>3 DEF Lifecycle!Init

LEMMA LifecycleStep == IInv /\ [Next]_vars => [Lifecycle!Next]_(Lifecycle!vars)
<1> SUFFICES ASSUME IInv, [Next]_vars
             PROVE  Lifecycle!Next \/ UNCHANGED Lifecycle!vars
    OBVIOUS
<1>1. ASSUME NEW t \in Tasks, register_waiting_task(t) \/ cancel_waiting_task(t)
      PROVE  Lifecycle!Next
    BY <1>1, RegisterRefines, CancelRefines DEF Lifecycle!Next
<1>2. ASSUME NEW r \in Requests,
             claim_waiting_task(r) \/ finalize_claimed_task(r) \/ finalize_claimed_failure(r)
      PROVE  Lifecycle!Next
  <2>1. task[r] \in Tasks
      BY <1>2, Shapes DEF IInv, claim_waiting_task, finalize_claimed_task,
         finalize_claimed_failure
  <2> QED BY <1>2, <2>1, ClaimRefines, ResultRefines, FailureRefines DEF Lifecycle!Next
<1>3. ASSUME NEW r \in Requests, NEW x \in Results \cup {"RAISED"}, continue_task_loop(r, x)
      PROVE  Lifecycle!Next
  <2>1. task[r] \in Tasks
      BY <1>3, Shapes DEF IInv, continue_task_loop
  <2> QED BY <1>3, <2>1, ResumeRefines DEF Lifecycle!Next
<1>4. ASSUME NEW t \in Tasks, DrawTask(t) \/ RegisterFails(t)
      PROVE  UNCHANGED Lifecycle!vars
  <2>1. /\ store' = store /\ runs' = runs /\ claims' = claims
        /\ \A u \in Tasks : phase'[u] = "registered" <=> phase[u] = "registered"
      BY <1>4, Shapes DEF IInv, DrawTask, RegisterFails, history
  <2>2. LifecycleStatus' = LifecycleStatus
      BY <2>1 DEF LifecycleStatus
  <2> QED BY <2>1, <2>2 DEF Lifecycle!vars, Resumes
<1>5. CASE Crash
  <2>1. /\ store' = store /\ runs' = runs /\ claims' = claims
        /\ \A u \in Tasks : phase'[u] = "registered" <=> phase[u] = "registered"
      BY <1>5 DEF Crash
  <2>2. LifecycleStatus' = LifecycleStatus
      BY <2>1 DEF LifecycleStatus
  <2> QED BY <2>1, <2>2 DEF Lifecycle!vars, Resumes
<1>6. CASE UNCHANGED <<store, phase, runs, claims>>
    BY <1>6 DEF Lifecycle!vars, LifecycleStatus, Resumes
<1> QED
    BY <1>1, <1>2, <1>3, <1>4, <1>5, <1>6
       DEF Next, approve_task, Claimed, vars, registration, history, ReadRecord, Refuse,
           ClaimFails, ResultDropped, FinalizeRaises, FailureDropped

\* The store and the routes, with every failure and crash, implement the life
\* cycle: a task is claimed only while it waits, each claim resumes the loop at
\* most once, and a lost task never comes back.
THEOREM ImplementsLifecycleHolds == Spec => ImplementsLifecycle
<1> QED BY LifecycleInit, LifecycleStep, ResumeInvariant, PTL
        DEF Spec, ImplementsLifecycle, Lifecycle!Spec

=============================================================================
