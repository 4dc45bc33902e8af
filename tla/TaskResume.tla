----------------------------- MODULE TaskResume -----------------------------
(***************************************************************************)
(* Resuming a waiting task: the store of adapters/task_resume_store.py and *)
(* the approve and cancel routes of adapters/admin-api/tasks_routes.py.    *)
(*                                                                         *)
(* The store is one JSON file.  Each of its operations loads the file,     *)
(* changes it and replaces it, under a lock, so it is one action here; a   *)
(* request is several of them with the lock released in between.  Chat     *)
(* threads register tasks meanwhile, a write or a read of the file may     *)
(* fail, and the process may crash between any two actions.                *)
(*                                                                         *)
(* Approve requests may overlap in the model.  The route is a coroutine    *)
(* without an await, so in one server process they do not; nothing below   *)
(* depends on that.                                                        *)
(***************************************************************************)
EXTENDS Integers, FiniteSets, Sequences

CONSTANTS
    Tasks,     \* task ids; a registration draws a fresh one
    Requests,  \* approve requests in flight
    Limit,     \* the effective AUTONOMY_TASK_RESUME_MAX_TASKS
    MaxTurns,  \* bound: how often one task may come to wait
    NoTask, Absent

Terminal == {"COMPLETED", "BLOCKED", "CANCELLED"}
Results == Terminal \cup {"WAITING"}
Status == Results \cup {"EXECUTING"}

\* A record: its status, its updated_at, the state of the snapshot it holds
\* and, as history, the number of that snapshot.
Record == [status: Status, version: Nat, snap: Results, turn: 1..MaxTurns]

ASSUME ConstantsAssumption ==
    /\ Limit \in Nat \ {0}
    /\ MaxTurns \in Nat \ {0}
    /\ NoTask \notin Tasks
    /\ Absent \notin Record

VARIABLES
    store,       \* the file: a record per task id
    now,         \* the clock behind _utc_now
    phase, drawn,\* per task: how far its registration is, and its updated_at
    pc, task,    \* per request: where approve_task is, and for which task
    seen,        \* per request: updated_at and snapshot of the record read
    claim,       \* per request: updated_at written by the claim
    result,      \* per request: how continue_task_loop ended
    stamp,       \* per request: updated_at of the result to be written
    runs,        \* history: per task, the snapshots the loop resumed from
    cancelled,   \* history: tasks whose cancellation was confirmed
    claims,      \* history: per task, the claims made
    orphaned     \* history: tasks whose claim ended without being settled

registration == <<phase, drawn>>
request == <<pc, task, seen, claim, result, stamp>>
history == <<runs, cancelled, claims, orphaned>>
vars == <<store, now, registration, request, history>>

Stored(s) == {t \in Tasks : s[t] # Absent}
Nothing == [t \in Tasks |-> Absent]
Idle == [version |-> 0, turn |-> 0]

Init ==
    /\ store = Nothing /\ now = 0
    /\ phase = [t \in Tasks |-> "fresh"]
    /\ drawn = [t \in Tasks |-> 0]
    /\ pc = [r \in Requests |-> "idle"]
    /\ task = [r \in Requests |-> NoTask]
    /\ seen = [r \in Requests |-> Idle]
    /\ claim = [r \in Requests |-> 0]
    /\ result = [r \in Requests |-> "NONE"]
    /\ stamp = [r \in Requests |-> 0]
    /\ runs = [t \in Tasks |-> << >>] /\ cancelled = {}
    /\ claims = [t \in Tasks |-> 0] /\ orphaned = {}

\* _utc_now: no two calls return the same time, and a later call a later one.
Stamp == now + 1

\* _load_store: a file that cannot be read counts as an empty store.
load_store == {store, Nothing}

Save(s) == store' = s /\ now' = Stamp

-----------------------------------------------------------------------------
(***************************************************************************)
(* register_waiting_task, called by the chat worker when a task waits.     *)
(***************************************************************************)
Newer(s, t) == {u \in Stored(s) : s[u].version > s[t].version}

trim_one_too_late(s) ==
    [t \in Tasks |-> IF t \in Stored(s) /\ Cardinality(Newer(s, t)) <= Limit
                     THEN s[t] ELSE Absent]
\* _trim_tasks: the records updated longest ago are dropped, whatever their
\* status.
trim_tasks(s) ==
    [t \in Tasks |-> IF t \in Stored(s) /\ Cardinality(Newer(s, t)) < Limit
                     THEN s[t] ELSE Absent]

\* The id and the time stamp are drawn before the lock is taken ...
DrawTask(t) ==
    /\ phase[t] = "fresh"
    /\ phase' = [phase EXCEPT ![t] = "drawn"]
    /\ drawn' = [drawn EXCEPT ![t] = Stamp]
    /\ now' = Stamp
    /\ UNCHANGED <<store, request, history>>

\* ... so the task may be the oldest of all, and drop itself.
register_waiting_task(t) ==
    /\ phase[t] = "drawn"
    /\ \E s \in load_store :
           store' = trim_tasks([s EXCEPT ![t] =
               [status |-> "WAITING", version |-> drawn[t], snap |-> "WAITING",
                turn |-> 1]])
    /\ phase' = [phase EXCEPT ![t] = "registered"]
    /\ drawn' = [drawn EXCEPT ![t] = 0]
    /\ UNCHANGED <<now, request, history>>

\* The write fails: it is logged, and the user gets no task id.
RegisterFails(t) ==
    /\ phase[t] = "drawn"
    /\ phase' = [phase EXCEPT ![t] = "lost"]
    /\ drawn' = [drawn EXCEPT ![t] = 0]
    /\ UNCHANGED <<store, now, request, history>>

(***************************************************************************)
(* approve_task                                                            *)
(***************************************************************************)
\* The request is answered and forgotten.
Reply(r) ==
    /\ pc' = [pc EXCEPT ![r] = "idle"]
    /\ task' = [task EXCEPT ![r] = NoTask]
    /\ seen' = [seen EXCEPT ![r] = Idle]
    /\ claim' = [claim EXCEPT ![r] = 0]
    /\ result' = [result EXCEPT ![r] = "NONE"]
    /\ stamp' = [stamp EXCEPT ![r] = 0]

\* get_task_record; a record that does not wait is answered at once.
ReadRecord(r, t) ==
    /\ pc[r] = "idle"
    /\ store[t] # Absent
    /\ store[t].status = "WAITING" /\ store[t].snap = "WAITING"
    /\ pc' = [pc EXCEPT ![r] = "read"]
    /\ task' = [task EXCEPT ![r] = t]
    /\ seen' = [seen EXCEPT ![r] = [version |-> store[t].version,
                                    turn |-> store[t].turn]]
    /\ UNCHANGED <<store, now, registration, claim, result, stamp, history>>

\* A corrupt record, an inconsistent receipt configuration, a failed tool
\* discovery, a plan outside its contract or a missing receipt: 409.
Refuse(r) ==
    /\ pc[r] = "read"
    /\ Reply(r)
    /\ UNCHANGED <<store, now, registration, history>>

ClaimableAnyVersion(s, r) ==
    /\ s[task[r]] # Absent
    /\ s[task[r]].status = "WAITING"
    /\ s[task[r]].snap = "WAITING"
Claimable(s, r) ==
    /\ s[task[r]] # Absent
    /\ s[task[r]].status = "WAITING"
    /\ s[task[r]].version = seen[r].version
    /\ s[task[r]].snap = "WAITING"

claim_any_status(r) ==
    /\ pc[r] = "read" /\ store[task[r]] # Absent
    /\ Save([store EXCEPT ![task[r]].status = "EXECUTING",
                          ![task[r]].version = Stamp])
    /\ pc' = [pc EXCEPT ![r] = "claimed"]
    /\ claim' = [claim EXCEPT ![r] = Stamp]
    /\ claims' = [claims EXCEPT ![task[r]] = @ + 1]
    /\ UNCHANGED <<registration, task, seen, result, stamp, runs, cancelled,
                   orphaned>>
claim_waiting_task(r) ==
    /\ pc[r] = "read" /\ Claimable(store, r)
    /\ Save([store EXCEPT ![task[r]].status = "EXECUTING",
                          ![task[r]].version = Stamp])
    /\ pc' = [pc EXCEPT ![r] = "claimed"]
    /\ claim' = [claim EXCEPT ![r] = Stamp]
    /\ claims' = [claims EXCEPT ![task[r]] = @ + 1]
    /\ UNCHANGED <<registration, task, seen, result, stamp, runs, cancelled,
                   orphaned>>

\* The record is gone or changed, or the file cannot be read or written.
ClaimFails(r) ==
    /\ pc[r] = "read"
    /\ Reply(r)
    /\ UNCHANGED <<store, now, registration, history>>

\* continue_task_loop with the snapshot read before the claim.  It raises, or
\* returns in one of the states below; finalize_claimed_task then prepares the
\* update, its time stamp included, before it takes the lock.
continue_task_loop(r, x) ==
    /\ pc[r] = "claimed"
    /\ x = "WAITING" => seen[r].turn < MaxTurns
    /\ runs' = [runs EXCEPT ![task[r]] = Append(@, seen[r].turn)]
    /\ result' = [result EXCEPT ![r] = x]
    /\ IF x = "RAISED"
       THEN /\ pc' = [pc EXCEPT ![r] = "failing"]
            /\ UNCHANGED <<stamp, now>>
       ELSE /\ pc' = [pc EXCEPT ![r] = "ran"]
            /\ stamp' = [stamp EXCEPT ![r] = Stamp] /\ now' = Stamp
    /\ UNCHANGED <<store, registration, task, seen, claim, cancelled, claims,
                   orphaned>>

Owned(s, r) ==
    /\ s[task[r]] # Absent
    /\ s[task[r]].status = "EXECUTING"
    /\ s[task[r]].version = claim[r]

\* The requests rs end and the records they own stay EXECUTING.
Orphan(rs) ==
    orphaned' = orphaned \cup {task[r] : r \in {q \in rs : pc[q] # "idle" /\ Owned(store, q)}}

ResultRecord(r) ==
    [status |-> result[r], version |-> stamp[r], snap |-> result[r],
     turn |-> seen[r].turn + (IF result[r] = "WAITING" THEN 1 ELSE 0)]

finalize_unconditionally(r) ==
    /\ pc[r] = "ran"
    /\ store' = [store EXCEPT ![task[r]] = ResultRecord(r)]
    /\ Reply(r)
    /\ UNCHANGED <<now, registration, history>>
finalize_claimed_task(r) ==
    /\ pc[r] = "ran" /\ Owned(store, r)
    /\ store' = [store EXCEPT ![task[r]] = ResultRecord(r)]
    /\ Reply(r)
    /\ UNCHANGED <<now, registration, history>>

\* The record was dropped meanwhile, or the file cannot be read: 409.
ResultDropped(r) ==
    /\ pc[r] = "ran"
    /\ \E s \in load_store : ~Owned(s, r)
    /\ Reply(r)
    /\ Orphan({r})
    /\ UNCHANGED <<store, now, registration, runs, cancelled, claims>>

\* The result cannot be serialised or written: finalize_claimed_task raises.
FinalizeRaises(r) ==
    /\ pc[r] = "ran"
    /\ pc' = [pc EXCEPT ![r] = "failing"]
    /\ UNCHANGED <<store, now, registration, task, seen, claim, result, stamp,
                   history>>

forget_failure(r) ==
    /\ pc[r] = "failing"
    /\ Reply(r)
    /\ UNCHANGED <<store, now, registration, history>>
finalize_claimed_failure(r) ==
    /\ pc[r] = "failing" /\ Owned(store, r)
    /\ Save([store EXCEPT ![task[r]] = [@ EXCEPT !.status = "BLOCKED",
                                                 !.version = Stamp,
                                                 !.snap = "BLOCKED"]])
    /\ Reply(r)
    /\ UNCHANGED <<registration, history>>

\* Nothing to finalize, or the file cannot be read or written; only logged.
FailureDropped(r) ==
    /\ pc[r] = "failing"
    /\ Reply(r)
    /\ Orphan({r})
    /\ UNCHANGED <<store, now, registration, runs, cancelled, claims>>

(***************************************************************************)
(* cancel_task: one store operation.  A task that does not wait, or is     *)
(* not there, is answered with 409 or 404 and nothing happens.             *)
(***************************************************************************)
cancel_any_status(t) ==
    /\ store[t] # Absent
    /\ Save([store EXCEPT ![t] = [@ EXCEPT !.status = "CANCELLED",
                                           !.version = Stamp,
                                           !.snap = "CANCELLED"]])
    /\ cancelled' = cancelled \cup {t}
    /\ UNCHANGED <<registration, request, runs, claims, orphaned>>
cancel_waiting_task(t) ==
    /\ store[t] # Absent
    /\ store[t].status = "WAITING" /\ store[t].snap = "WAITING"
    /\ Save([store EXCEPT ![t] = [@ EXCEPT !.status = "CANCELLED",
                                           !.version = Stamp,
                                           !.snap = "CANCELLED"]])
    /\ cancelled' = cancelled \cup {t}
    /\ UNCHANGED <<registration, request, runs, claims, orphaned>>

\* The process dies: the file is whole, requests and registrations are gone.
Crash ==
    /\ \/ \E r \in Requests : pc[r] # "idle"
       \/ \E t \in Tasks : phase[t] = "drawn"
    /\ phase' = [t \in Tasks |-> IF phase[t] = "drawn" THEN "lost" ELSE phase[t]]
    /\ drawn' = [t \in Tasks |-> 0]
    /\ pc' = [r \in Requests |-> "idle"]
    /\ task' = [r \in Requests |-> NoTask]
    /\ seen' = [r \in Requests |-> Idle]
    /\ claim' = [r \in Requests |-> 0]
    /\ result' = [r \in Requests |-> "NONE"]
    /\ stamp' = [r \in Requests |-> 0]
    /\ Orphan(Requests)
    /\ UNCHANGED <<store, now, runs, cancelled, claims>>

-----------------------------------------------------------------------------
\* What a request does once it holds a claim.
Claimed(r) ==
    \/ \E x \in Results \cup {"RAISED"} : continue_task_loop(r, x)
    \/ finalize_claimed_task(r) \/ ResultDropped(r) \/ FinalizeRaises(r)
    \/ finalize_claimed_failure(r) \/ FailureDropped(r)

approve_task(r) ==
    \/ \E t \in Tasks : ReadRecord(r, t)
    \/ Refuse(r) \/ claim_waiting_task(r) \/ ClaimFails(r)
    \/ Claimed(r)

Next ==
    \/ \E t \in Tasks : \/ DrawTask(t) \/ register_waiting_task(t)
                       \/ RegisterFails(t) \/ cancel_waiting_task(t)
    \/ \E r \in Requests : approve_task(r)
    \/ Crash

\* After the claim a request is straight-line code around a loop that returns.
Spec == Init /\ [][Next]_vars
FairSpec == Spec /\ \A r \in Requests : WF_vars(Claimed(r))

-----------------------------------------------------------------------------
(***************************************************************************)
(* Properties                                                              *)
(***************************************************************************)
HoldsClaim(r) == pc[r] \in {"claimed", "ran", "failing"}

\* A request knows its task once it has read one, and its result once the loop
\* returned.
BusyTypes(r) ==
    /\ pc[r] # "idle" => task[r] \in Tasks /\ seen[r].turn \in 1..MaxTurns
    /\ pc[r] = "ran" => /\ result[r] \in Results
                        /\ result[r] = "WAITING" => seen[r].turn < MaxTurns

VariableTypes ==
    /\ store \in [Tasks -> Record \cup {Absent}]
    /\ now \in Nat
    /\ phase \in [Tasks -> {"fresh", "drawn", "registered", "lost"}]
    /\ drawn \in [Tasks -> Nat]
    /\ pc \in [Requests -> {"idle", "read", "claimed", "ran", "failing"}]
    /\ task \in [Requests -> Tasks \cup {NoTask}]
    /\ seen \in [Requests -> [version: Nat, turn: 0..MaxTurns]]
    /\ claim \in [Requests -> Nat]
    /\ result \in [Requests -> Results \cup {"NONE", "RAISED"}]
    /\ stamp \in [Requests -> Nat]
    /\ runs \in [Tasks -> Seq(1..MaxTurns)]
    /\ cancelled \subseteq Tasks
    /\ claims \in [Tasks -> Nat]
    /\ orphaned \subseteq Tasks

\* The file holds well-formed records, and the requests well-formed variables.
TypeOK == VariableTypes /\ \A r \in Requests : BusyTypes(r)

\* A claim is exclusive: as long as a request holds one, the record is either
\* dropped or exactly as the claim left it, and no other request holds one.
ClaimIsExclusive ==
    \A r \in Requests : HoldsClaim(r) =>
        /\ store[task[r]] = Absent \/ Owned(store, r)
        /\ \A q \in Requests : HoldsClaim(q) /\ task[q] = task[r] => q = r

\* The task loop is resumed from each waiting snapshot at most once, and from
\* the snapshots in the order they were written: no approval runs a step on
\* the state before an earlier approval.
SnapshotsRunOnce ==
    \A t \in Tasks : \A i \in DOMAIN runs[t] : runs[t][i] = i

\* Once a cancellation is confirmed the task's steps are not run any more,
\* although an approval may have read the record before.
NoRunAfterCancel == [][\A t \in cancelled : runs'[t] = runs[t]]_vars

\* A completed, blocked or cancelled record is never changed again; it can
\* only be dropped.
TerminalIsFinal ==
    [][\A t \in Tasks :
           store[t] # Absent /\ store[t].status \in Terminal =>
               store'[t] \in {store[t], Absent}]_vars

\* A record is EXECUTING with no request behind it only if the request died
\* or could not reach the file when it settled its claim.
OrphanNeedsFailure ==
    \A t \in Tasks :
        store[t] # Absent /\ store[t].status = "EXECUTING" =>
            t \in orphaned \/ \E r \in Requests : HoldsClaim(r) /\ task[r] = t

\* The store never holds more than the configured number of tasks.
StoreBounded == Cardinality(Stored(store)) <= Limit

\* A claimed task is settled, unless its request dies or loses the file.
ClaimIsSettled ==
    \A t \in Tasks :
        store[t] # Absent /\ store[t].status = "EXECUTING"
            ~> store[t] = Absent \/ store[t].status # "EXECUTING" \/ t \in orphaned

(***************************************************************************)
(* The store implements the task's life cycle.                             *)
(***************************************************************************)
LifecycleStatus ==
    [t \in Tasks |-> IF phase[t] # "registered" THEN "NONE"
                     ELSE IF store[t] = Absent THEN "GONE"
                     ELSE store[t].status]
Resumes == [t \in Tasks |-> Len(runs[t])]

Lifecycle == INSTANCE TaskLifecycle
    WITH status <- LifecycleStatus, claims <- claims, resumes <- Resumes

\* Store and routes, with their failures, implement TaskLifecycle.
ImplementsLifecycle == Lifecycle!Spec
=============================================================================
