# TRION: TLA+ models, checks and proofs

TRION is a local assistant platform: a chat request is classified, planned,
verified, executed step by step with MCP tools, and answered. This directory
models the parts of it that keep state over several steps or several actors,
model-checks them with TLC and proves the most important facts with TLAPS.

    cd tla
    tlc -workers 2 -config TaskLoop.cfg MCTaskLoop
    tlapm TaskLoopSafetyProofs.tla

`PROJECT.json` lists components, runs, mutants, the map from definitions to
source lines, findings, hazards and theorems.

## 1. Inventory

| Component | State | Operations | Interacts with | Hard part |
|---|---|---|---|---|
| Task loop (`core/task_loop`) | `TaskLoopSnapshot`: state, step index, pending step, completed steps, artifacts, executions, retry counts, progress signature, budgets; the active plan | `start_task_loop`, `continue_task_loop`, execute, reflect, replan, finalize | tool runner, replanner, approve route, clock | budgets and approvals that must survive retries, replans that reuse step ids, and resumes |
| Plan contract and receipts (`core/pipeline`) | operation contract and its fingerprint | validate a plan, issue and validate step receipts, attest an execution | called at the head of the loop, by the replanner, by approve | a receipt exists only for an unbroken successful prefix |
| Task resume store (`adapters/task_resume_store.py`) | one JSON file of records: status, `updated_at`, plan, snapshot | register, read, claim, finalize, fail, cancel, trim | chat worker threads, task routes | several operations per request, file failures, crashes |
| Task routes (`adapters/admin-api/tasks_routes.py`) | one request | approve, cancel | store, loop, plan contract | the record is read long before it is claimed |
| MCP catalog and hub (`mcp/hub.py`, `mcp/catalog_*.py`) | hub lock and flag, published snapshot, active tokens, stopped flag | `call_tool`, `initialize`, `reload_registry`, `shutdown`; publish, acquire, release, revoke | loop's tool calls, installer, application shutdown | draining leases while others acquire, build and publish |
| MCP stdio transport (`mcp/transports/stdio.py`) | process, response queue | start and handshake, request, timeout, close | hub | one queue for all callers, late and foreign messages |
| MCP installer and registry (`mcp/installer_*.py`, `mcp/registry*`) | bundle directory, receipt, manifest, tool intents, registry document | install, delete, toggle, update, refresh, reconcile | hub, a worker thread that initializes it | one operation is several files, each write may fail or be the last |
| Cron scheduler (`mcp-servers/cron`) | jobs, pending, running, asyncio queue, state file | tick, dispatch, create, update, delete, run now, start, stop, load, save | chat pipeline (`submit_cb`) | two ledgers of the same runs (store and queue), restarts, a disk that fails |
| Container approvals (`adapters/admin-api/commander_approval_*`) | entries in memory, the store's file | request, list, approve, reject, expire, synchronise | deploy | an approval is decided in memory long before it is saved |
| Container deploy and quota (`adapters/admin-api/commander_deploy_*`) | active table, reservations, TTL timers | `start_container`, sync, reserve, commit, release, `recover` | Docker, approvals | a recovery thread and timers beside the request, containers that outlive the process |
| Planner, routing frame, classifier, verifier, output, LLM clients, settings, web UI | none, or caches | pure functions and calls to services | pipeline | wording, not state |

What makes each of them correct:

* **Task loop**: a gated tool runs only with an approval for that step of that
  plan; budgets are never exceeded and never given back; in receipt mode no tool
  is called twice; COMPLETE means executed; evidence is handed on as validated
  only if earned; every call returns.
* **Receipts**: exactly one successful execution per finished step, in order.
* **Store and routes**: a claim is exclusive; a snapshot is resumed once; nothing
  runs after a confirmed cancellation; an ended task stays as it ended; a claim is
  settled unless its request dies or loses the file.
* **Hub**: no call runs on a transport that is being retired; no transport is
  forgotten; a reload and a shutdown come to their end, and a shutdown leaves at most
  one transport running.
* **Stdio transport**: only a negotiated process is called; a caller gets the
  answer to its own request unless the transport was disturbed.
* **Installer**: nothing points to a bundle that is gone; a success that is
  reported holds in files, registry and hub; a start repairs what a crash left.
* **Cron**: a slot of a schedule queues one run, in whatever zone; the backlog is bounded by the
  policy; what is queued is dispatched or recorded; a due one-shot job fires.
* **Approvals**: one approval starts at most one container, and none once it was
  rejected or has expired.
* **Deploys**: the quota holds and every reservation is returned; a container past
  its TTL is stopped; a deploy request takes effect (which the code fails, section 3).

## 2. Modules

| Module | What it is |
|---|---|
| `TaskLoop` | one task, from `start_task_loop` to its end, with its properties |
| `MCTaskLoop` | plans, replans, follow-ups and settings for TLC |
| `TaskLoopProofs` | type correctness of `TaskLoop`, proved |
| `TaskLoopSafetyProofs` | seven safety theorems about `TaskLoop` |
| `TaskLoopEvidenceProofs` | two theorems about what a completed task has done |
| `TaskResume` | the store and the approve and cancel routes, with crashes |
| `MCTaskResume` | a small instance of `TaskResume` |
| `TaskLifecycle` | what the store promises of a task; `TaskResume` implements it |
| `TaskResumeProofs` | six safety theorems about `TaskResume` and the refinement, proved |
| `McpHub` | hub, catalog lifecycle and stdio transport |
| `McpHubProofs` | type correctness of `McpHub` and five safety theorems |
| `McpInstaller` | installer routes, registry file, reconciliation, hub view |
| `McpInstallerProofs` | six safety theorems about `McpInstaller` |
| `CronScheduler` | the scheduler's store, tick, queue, workers and file |
| `CronSchedulerProofs` | two safety theorems about `CronScheduler` |
| `ContainerDeploy` | approvals, deploys, quota, recovery and TTL timers |
| `ContainerDeployProofs` | two safety theorems about `ContainerDeploy` |
| `MCMcpHub`, `MCMcpInstaller`, `MCCronScheduler`, `MCContainerDeploy` | the modules TLC is run on |

### TaskLoop

The loop is sequential code, so `pc` says where it is: `loop` (head of
`_execute_with_reflection`), `execute`, `reflect`, `finalize`
(`finalize_completion`), `replan` (`run_with_replanning`), `returned`, `raised`
(an illegal `transition_to`) and `planner_error`. Between `returned` with state
WAITING and the next `loop` lies the user: `continue_task_loop` with the guards of
the approve route, or `CancelTask`.

Each early return and each branch of the code is an action: `receipt_blocked`,
`WaitForApproval`, `StepGovernorBlocks`, `start_governed_step`; then `MissingTool`,
`NotExecutableNow`, `ToolCallGovernorBlocks`, `ToolFails`, `ToolSucceeds`; then
`ExpandPlan`, `AdvanceStep`, `RetryStep`, `WaitForUser`, `BlockAfterStep`,
`ReplanAfterFailure`, `AllStepsDone`; then the three outcomes of the completion
gate and the four of the replanner. `evaluate`, `evaluate_step` and
`completion_decision` are the decision functions of the code.

Data is abstracted to what the properties tell apart. A tool is a name, an error
one of a few texts (the progress signature compares them), an artifact its step,
tool, type and whether it is validated evidence. `auth` says whether the receipt
validator accepts a step's operation. Which arguments are bound is left open
(`NotExecutableNow` may always happen). `done_when` criteria other than artifact
types, `error_count`, `plan_id`, titles, events and waiting reasons are left out.
The registry (`KnownTools`) is assumed not to change during the life of a task;
the approve route asks the live one.

Receipt modes: `RECEIPT_MODE_ACTIVE` is the normal case for a plan with tools;
`LEGACY_VALID` is what the stage sees when the orchestrator context was dropped
(document tools) and for stored records without a contract;
`INCONSISTENT_FAIL_CLOSED` blocks. The step and call limits and the deadline are
fields of the snapshot that no setting fills yet; a stored snapshot may carry them.
The counters of steps and calls are exact up to `MaxCount`, which lies above every
limit, and stay there: a loop that fails to end is then a cycle TLC can find.

The variables `granted`, `passed` and `calls`, and the field `run` of an artifact,
are history: they record per plan what the user approved, what the user went past
and which tools were called, and no guard reads them.

### TaskResume and TaskLifecycle

Each store operation holds the lock from load to save and is one action. A request
is several: `ReadRecord`, `claim_waiting_task`, `continue_task_loop`,
`finalize_claimed_task`, with a failing branch for each. Time stamps that the code
draws before it takes the lock (registration, result) are drawn in an action of
their own or with the action before. A file that cannot be read is an empty store
(`load_store`); a failing write leaves it. `Crash` ends all requests and
registrations and keeps the file. `_utc_now` is taken to be strictly increasing.
Approve requests may overlap in the model; the route is a coroutine without an
`await`, so in one server process they do not. This only adds behaviours.

`TaskLifecycle` keeps a status, a number of claims and of resumes per task. The
refinement mapping reads the status off the record (NONE before the registration,
GONE when the record is missing) and the resumes off the history `runs`.

### McpHub

A thread is a worker that calls tools (`Callers`), the event loop, which runs the
synchronous `reload_registry` inside an async route (`Loop`), or the thread of the
application's shutdown event (`Shut`). `pc` follows each through `call_tool`:
`enter` and `build`, `publish` (`initialize`, under the re-entrant hub lock),
`acquire`, `send`, `wait`, `release`; and through `revoke_catalog_routes`: `revoke`,
`drain`, `retire`. Each section under the catalog's condition variable is one
action. The registry sync that follows a publication calls a tool itself, twice at
most (`sync`), while `initialize` still holds the hub lock.

A build creates a fresh transport, so catalog snapshot and transport share a
number, the generation. A generation has one server with one tool: routes of
different servers do not interact, except that a drain waits for all of them, which
two callers show. `wire` is the stdio transport of a generation: its process,
whether its handshake succeeded, the requests the server still owes, and the
response queue. As in the code no request id is compared: `Receive` takes the head
of the queue. Once a request was given up, its answer is the anonymous `Late`, and
so is an answer that no longer has a reader. The server is external: it answers in
any order, late or never, sends notifications, dies.

### McpInstaller

The routes run on the event loop, so one handler is in progress at a time; it is
the record `loop`: operation, stage, name, the entry it wants published and the
manifest value to restore. Each durable change is one stage and each may fail, which
leads to the stage the code's `except` leads to (`clean_registry`, `reload` and
`remove` of the rollback, `failed`). An update writes the manifest, then the registry,
and writes the manifest back when the registry fails; that third write may fail too
(`UpdateUpserts`, fault `restore`). The worker thread that initializes the hub
reconciles first: it reads the registry once (`snap`), examines one entry at a time
and writes back what it decided on the snapshot, whatever the registry says by then.
`Crash` keeps the files and the registry and drops everything else. Files may be
edited or a bundle removed by hand.

A bundle is a directory with a receipt, a manifest reduced to its enabled flag and
a tool-intents file that is absent, one of two contents, or invalid. A registry
entry is the flag, the mirror of the intents and whether it carries the installer's
marker; entries of an older installer do not. `faults` is history and says which
excuses a property may use.

### CronScheduler

Everything runs on one event loop and no coroutine is suspended while it holds the
store's lock, so a locked section is one action; a worker is suspended in
`queue.get()` and in `submit_cb()` only (`held`). A run is a number in the order of
its enqueueing, `run` the job of each. Cron expressions are two
classes, those which keep the minimum interval and those which do not.

Time counts instants. `Minute` gives the minute of each, `Local` the minute that each
time zone shows; both are constants. A recurring job is matched with, and keyed by,
the minute of its own zone (`MinuteKey`), so the model has what the code has: an edit
may move a job to another zone while its key stays, and a zone shows minutes twice
when its summer time ends. `touched` is history: the jobs and minutes for which the
key was cleared by `run_now`, consumed by a one-shot firing, or re-read in another
zone. Local minutes are numbers; the date in the key is not modelled apart.

A save that fails in a worker's first section ends the worker with the run counted as
running (`TakeSaveFails`); in an operation it is an error of the request, the change in
memory stays. `start` loads the file before it looks whether the scheduler already
runs. The hardware guard and a missing job have the same effect (`TakeAndRecord`).

The scheduler is modelled as the library it is. `mcp-servers/cron/server.py`, the MCP
server around it, is left out: it imports `scheduler` as a top-level module although
that file uses relative imports, calls `create_job` with keywords although it takes a
payload, and awaits none of these coroutines, so it does not itself start a scheduler.

### ContainerDeploy

`pc` follows `start_container`, which the routes call on the event loop, so one
request is in progress at a time: `begin` (resolution, approval gate, trust gates),
`sync` and `apply` (`sync_from_docker`: the listing is taken before the lock),
`reserve`, `run`, `check`, `tail`. `approve` sets APPROVED in memory, runs the start
and drops and saves the entry at its end. The store keeps the pending set of its
file and whether the file looks newer than what was loaded: the process's own writes
do. `recover` lists, then registers container by container, in its own thread; each
TTL timer fires once. Docker is external: containers exit, are restarted past the
process, and grow overdue; a listing or a stop may fail.

`ViewsImported` says whether the name that `start_container` calls at
`commander_deploy_orchestrator.py:106` is bound. In the code it is not, which the
violation run shows; the passing run sets it to TRUE to check approvals, quota and
timers on the path as it is meant to run, and claims nothing about deploys taking
effect.

`TypeOK` of these four modules is proved (section 4); the runs spend their properties
on the others.

## 3. Runs

| Run | Instance | States | Result |
|---|---|---|---|
| `task_loop` | 11 plans x 27 settings, 6 replans, 1 follow-up, 2 errors, counts to 4 | 236,975 | 9 invariants, 1 action property, 1 liveness property hold |
| `resume_raises` | legacy plans and settings | | `ResumeNeverRaises` is violated |
| `retry_blocked` | receipt-mode plans and settings | | `RetriedStepRunsAgain` is violated |
| `capability_gap` | a gated step asking for evidence no tool declares | | `CapabilityGapIsNotReplanned` is violated |
| `zero_replans` | receipt-mode plans and settings | | `ZeroReplansIsNoLimit` is violated |
| `task_resume` | 2 tasks, 2 requests, store of 1, 2 turns | 57,448 | 4 invariants, 2 action properties, the refinement and `ClaimIsSettled` hold |
| `mcp_hub` | 2 callers, a reload and a shutdown, 2 catalogs | 323,676 | 5 invariants, 2 liveness properties hold |
| `mcp_installer` | 1 bundle, every stage failing, crashes and edits at any time | 4.9 million | 4 invariants, 2 action properties hold |
| `cron_scheduler` | 1 job, 1 worker, 3 operations, 3 starts, stops, crashes or disk failures, 3 runs, 1 zone, 3 instants | 305,366 | 1 invariant, 2 liveness properties hold |
| `cron_slots` | the same with 2 zones | 1,179,742 | `OncePerSlot` holds |
| `container_deploy` | 1 approval, 2 containers, quota of 1, 1 fault | 340,490 | 1 invariant, 1 action property, 1 liveness property hold |
| `deploy_unbound_name` | the same, with the name unbound and no fault | | `DeployTakesEffect` is violated |

**Bounds of the task loop.** Plans have one or two steps, three with a follow-up:
enough for a first, a middle and a last step, a gate before each, and replans that
reuse the ids s1 and s2 for other tools. `max_replans` is 0, 1 or 2, `max_retries`
0, 1 or 3 with detection thresholds 2 and 3, so that budgets run out before, at and
after loop detection. Limits of 1 and 2 make the governor stop a run before and
after a replan. `MaxCount = 4` is above every limit; nothing else bounds the state
space.

**Bounds of the store.** Two requests race for one record; two tasks in a store of
one make every registration drop the older record, which a time stamp drawn early can
make the claimed or the new one; that the limit holds for larger stores is proved.
`MaxTurns` bounds how often a task waits, which makes versions finite. The code's
limit is at least ten; only its comparison with the number of records matters. No
symmetry is used.

**Bounds of the hub.** Two callers race for one queue and one lease count; two
catalogs (`MaxGen`) give an old one to retire and a new one to publish, and a
catalog from `initialize` beside one from a reload. `MaxLate` and `MaxQueue` bound
what a server may still send: one stray message is enough to shift every answer.

**Bounds of the installer.** None: files and memory are finite. One bundle, because
handlers and reconciliation treat names independently.

**Bounds of the scheduler.** The literals 2 and 2 that `tick_once` passes differ
from the policy's 1 for a job, so that both limits are reached; three runs overrun
each of them. Two instants share a minute and the third lies an hour later: a minute
has an earlier and a later tick, and there is a time that can be missed. In
`cron_slots` the second zone shows the same minute at all three, as at the end of
summer time, and jobs move between the zones. A `fast`
expression is refused for a new job and is not in the instance.

**Bounds of the deploy.** A quota of one and two containers make the second start
meet the quota, a restart or a left-over. One fault of the environment at a time; the
safety properties were also checked with two (1.7 million states).

**Fairness.** `WF_vars(Code)` for the loop: it is straight-line code around calls
that end (each tool call carries a timeout, the replanner answers or raises).
Nothing is assumed of the user or the clock. `WF_vars(Claimed(r))` for a request
that holds a claim: the rest of the route is straight-line code. Reading a record
and claiming it need no fairness. `WF_vars(ThreadStep(a))` for every thread of the
hub: a wait for an answer ends with the transport's timeout, a wait for a lock or a
drain is a wait for a thread that goes on; nothing is assumed of the server, and
nobody has to call, reload or shut down. Weak fairness is enough for the drain
because `_acquires_stopped` keeps new leases away. `WF_vars(tick_once)` and
`WF_vars(WorkerStep(w))` for the scheduler: both are tasks of a running event loop
and `submit_cb` returns or raises. `WF_vars(RequestStep)`, `WF_vars(RecoverStep)` and
`WF_vars(TimerFires(c))` for deploys: a request in progress, a thread that was started
and a timer that is due. Crashes, faults, users and Docker have none.

**Deadlock** is not checked where the system really may stop: a task ends, a store
whose ids are used up stops, and the bounds on runs, operations and faults of the
scheduler and the deploy run out. The hub and the installer are checked for it.

Where the code has no repair for a failure, a property excuses that failure through a
history variable (`faults`, `undone`, `skipped`, `touched`); it then shows that nothing
else leads to the bad state, and the notes of the hazards in `PROJECT.json` say which
case is excused.

Each property of a passing run has a mutant in `PROJECT.json`: a plausible slip in
the code (a guard dropped, `<` for `<=`, a reset forgotten) that makes it fail.

### What the violations show

1. `resume_raises`: the last step stops for a user decision, the user goes on,
   `_resume_index` is past the end, and completing from EXECUTING is not an allowed
   transition: ValueError, answered with 500, the task ends BLOCKED.
   `RaisesOnlyPastLastStep` shows that this is the only illegal transition.
2. `retry_blocked`: in receipt mode the failed attempt is recorded and breaks the
   receipt chain, so the granted retry is blocked. The other side of the coin is
   `AtMostOncePerReceipt`: nothing is called twice.
3. `capability_gap`: a resumed task has no `available_evidence_types`, so missing
   evidence is always replanned for.
4. `zero_replans`: the default `TASK_LOOP_MAX_REPLANS = 0` forbids replans; the
   setting's description calls it no hard limit.

5. `deploy_unbound_name`: `start_container` calls `apply_package_runtime_views`, which
   its module neither defines nor imports. Every deploy that reaches the line ends in
   a NameError before a container or an approval exists.

### Remarks met while modelling

* A plan replanned to a direct answer is completed without the completion gate,
  with completion status INCOMPLETE; the stage treats it as complete without
  validated evidence.
* Artifacts survive a replan and are found by step id, so an unmet `done_when` may
  be satisfied by an artifact of the plan before. `CompleteMeansExecuted` holds
  because each step must also have run; `ValidatedHandoffIsEarned` because the
  handoff attests this plan's executions.
* The follow-up planner extends a plan also when reflection would have stopped with
  MAX_STEPS_REACHED.
* In receipt mode with escalation "ask", a failed step leaves a WAITING task whose
  approval is always refused; it can be cancelled.
* A registration in a full store may drop its own task when its time stamp is older
  than all others: the user then holds an id that is not there. `TaskLifecycle`
  says so.
* A record left EXECUTING by a crash can be neither approved nor cancelled.
* A store file that cannot be read once is overwritten by the next registration.
* An `initialize` that `shutdown` overtakes publishes a catalog nothing retires
  (`ShutdownLeavesOne`: it is one at most).
* `save_config_and_upsert_atomic` restores the manifest with a write that may fail as
  the first one did: manifest and registry then disagree (`restore`).
* A recurring job that is moved to another time zone within the minute that fired may
  fire again in it: its key is a minute of the old zone.
* Where summer time ends, the repeated local minute has the key of the first: a job
  whose last firing was that minute is passed over the second time.
* `DueOneShotFires` ends at the bound on the runs ever queued (its last disjunct): it
  shows that a one-shot job outlasts a full queue, not that it does so without bound.
* The reconciliation writes back an entry it read before a request toggled it: the
  toggle is lost (`ConfigMatchesRegistry` excuses it as `race`).
* A crash between an install's move and its upsert leaves a bundle that can be
  neither installed again nor deleted through the API.
* `tick_once` passes the literals 500 and 2 where the other callers pass the policy.
* The minimum interval is checked for a recurring job that is new or whose
  expression changes, so a one-shot job turned recurring keeps any expression.
* A consumed one-shot job that gets a new time does not fire: its trigger key stays.
* A one-shot run that the hardware guard defers is recorded and never tried again.
* A save that fails when a worker has taken a run ends that worker for good.
* `recover` leaves alone what a deploy's sync has put in the table already: such a
  container has no TTL timer (`skipped`).
* The approval store takes its own writes for those of another process, so an entry
  whose removal was not saved becomes pending again (`undone`).

## 4. Proofs

All theorems are about `Spec` of their module, for every value of its constants. Those
about the task loop hold for arbitrary plans, tools, settings and numbers, from
`ConstantsAssumption` alone: types, that `MaxCount` is above the limits, that plans
which reach the loop have steps with distinct ids, and that error texts are none of the four built-in outcomes.

`TaskLoopProofs` proves `TypeCorrect`. Type correctness is not inductive alone:
`PlanType` needs that the step index stays within the plan, which depends on where
the loop is. `ControlOK` adds that (what `pc`, `state`, `stop` and `pending` say of
each other).

`TaskLoopSafetyProofs` rests on it:

| Theorem | Strengthening and why it is needed |
|---|---|
| `ReplanBudgetHolds` | none: each increment is guarded by `can_replan` |
| `CountersOnlyGrow` | none: an action property over one step |
| `RunGovernorLimitsHold` | `CallWithinLimit`: between the governor's check and the count the call is still under the limit |
| `ApprovalGateHolds` | `ApprovalIsGranted`: the approval carried by the loop is one given under this plan |
| `RaisesOnlyPastLastStepHolds` | `PastEndIsResumed`: at the end of the plan only after the user went past the last step |
| `AtMostOncePerReceiptHolds` | `ReceiptChain`: a step with a receipt has not been called; `CallsBelongToPlan` |
| `RetryBudgetHolds` | `AttemptsCounted`: calls of the current step are counted by its retries; a step ahead has none; `CallsBelongToPlan` |

`TaskLoopEvidenceProofs` rests on both. Its invariant speaks of the steps before the
index while the plan in force is being worked on, and its proof first reduces the
actions of the loop to seven kinds of steps (`StepKinds`): what each does to index,
artifacts and calls is all the invariant can see.

| Theorem | Strengthening and why it is needed |
|---|---|
| `CompleteMeansExecutedHolds` | `StepsDone`: each step behind the index left a result of this plan or was passed by the user; `ResultKept`: the result being reflected on is that of the current step; `EndReached`: a task completes at the end of its plan |
| `ValidatedHandoffIsEarnedHolds` | `StepsEarned`: one structural verdict and a call for each step so far, and a positive verdict stands for the evidence its tool declares; together with `AtMostOncePerReceipt` each was called exactly once |

`TaskResumeProofs`, for any tasks, any number of overlapping requests, any limit and
any number of turns, from its `ConstantsAssumption`: limit and turns are positive, and
the two markers `NoTask` and `Absent` are no task and no record. Each operation that
writes the file first gets a lemma that says what it does to each record
(`RegisterWrites`, `CancelWrites`, `ClaimWrites`, `ResultWrites`, `FailureWrites`); the
invariant is then proved conjunct by conjunct, action by action.

| Theorem | Strengthening and why it is needed |
|---|---|
| `ClaimIsExclusiveHolds` | `OnlyRegistered`: a registration comes before every record, so it cannot put a second record under a claim |
| `NoRunAfterCancelHolds` | `CancelledIsOver`: a cancelled task is in nobody's claim and stays CANCELLED, so nobody claims it again |
| `SnapshotsRunOnceHolds` | `TurnsOfRecords`, `TurnsOfClaims`: a waiting record holds the turn after the last one resumed; they need `RecordsAsSeen` and `SeenBeforeClaims` (the record a request claims is the one it has read), and those `RecordsStamped` and `RequestsStamped` (time stamps only grow, and a claim is older than its result) |
| `OrphanNeedsFailureHolds` | `ClaimIsExclusive`: a request that dies owns the record it has claimed |
| `StoreBoundedHolds` | `StampsDiffer`: no two time stamps in the file, or drawn and still to be written, are equal; then each record that `_trim_tasks` keeps has a number of newer ones of its own below the limit (`TrimBounds`, an injection into `0..Limit-1`). It holds because `_utc_now` is taken to be strictly increasing |
| `TerminalIsFinalHolds` | `OnlyRegistered`, and that only an owner finalizes |
| `ImplementsLifecycleHolds` | all of it: registration, cancellation, claim, resume and settlement are one step of `TaskLifecycle` each, everything else a stutter |

`McpHubProofs`, for any callers and any number of catalogs, from `HubAssumption`
(finitely many callers, the event loop, the shutdown thread and nobody are distinct):

| Theorem | Strengthening and why it is needed |
|---|---|
| `NoCallOnRetiredHolds` | `LeasesCounted`: the counter is the number of leases, so the drain ends only without them; `LeaseIsPublished`: a lease is on the published catalog; `InitializeComesFirst`: `initialize` replaces no catalog that has leases |
| `NoForgottenTransportHolds` | `OnePlace`: a generation is a candidate, published or on its way out, never two; `ThreadsInPlace`: one thread builds at a time |
| `ShutdownLeavesOneHolds` | `NoForgottenTransport`: what still runs is in the published catalog or somebody's hand; `ThreadsInPlace`, `InitializeComesFirst`: after the shutdown that is one `initialize`'s, before or after its publication |
| `TypeCorrect` | `WireTyped` and the invariant above: the lease counter is never below zero because it counts leases |
| `CallsOnlyNegotiatedHolds` | `RoutesNegotiated`: a lease is on a route, and a routed transport that still has a process has negotiated it |
| `MixedOnlyIfDisturbedHolds` | `OwnAnswers`: on an undisturbed transport one caller at most waits, nothing late is owed, and its answer is owed by the server or in the queue, never both |

`McpInstallerProofs`, for any bundles, from `InstallerAssumption` (`Nil` is no name and
no entry). The invariant says where each route stands (`HandlerInPlace`), that it keeps
its bundle until it is done (`HandlerKeepsBundle`), and that a worker reconciles only
while the hub is not initialized (`WorkerAlone`); types are part of it:

| Theorem | Strengthening and why it is needed |
|---|---|
| `NothingPointsToMissingBundleHolds` | `ResultIsPublished`: a bundle is removed after the hub published that its entry is gone; `WriteFits`: what the worker writes back is for a bundle that is there |
| `SuccessIsConfirmedHolds` | `ResultIsPublished`: after the comparison with the published view nobody changes registry or hub before the answer |
| `ConfigMatchesRegistryHolds` | `ConfigAgrees`: an update in progress knows the flag to restore, and a restore that failed is remembered; `WriteFits`: the worker writes the flag it has read |
| `StrandedNeedsFaultHolds` | `OnlyInstallStrands`: a bundle with neither entry nor receipt is the one of the install in progress |
| `ReconcileKeepsBundlesHolds` | `WriteFits`, from `EntriesAhead`: an entry the worker has still to look at is removed only by a route whose reload waits for the worker, so no install can follow |
| `StartRepairsHolds` | `RepairsAhead`: what the worker has settled, or is about to write, fits the bundles; what it has still to look at is in its snapshot; `InstallIsNew`: an install lists what its bundle says, and nobody else lists that bundle before it |

`CronSchedulerProofs`, for any jobs, any workers, limits and bounds, from
`CronAssumption`: finitely many jobs, positive limits, the markers `Never` and
`Consumed` are no times, minutes do not run backwards, and a zone shows one minute
throughout a minute (offsets are whole minutes). Types are part of the invariant:

| Theorem | Strengthening and why it is needed |
|---|---|
| `OncePerSlotHolds` | `SlotsKept`: the trigger key of a job, in memory and in the file, tells which slot was served, so a reload or a restart does not forget it, and reads as the job's zone does unless the minute was `touched`; `FiredPast`: served slots lie in the past, so a new time or minute is a new slot |
| `BacklogStaysBounded` | `RunsApart`: a run is in the queue or with one worker, and once; `WaitingCounted`: each run that waits for an existing job is counted by the policy, so what it admits is within the limits |

`ContainerDeployProofs`, for any approvals and containers, any quota and any number of
faults, from `DeployAssumption`: finitely many containers, and the markers for nobody, a
direct deploy and an unused container are no approvals. Types are part of the invariant:

| Theorem | Strengthening and why it is needed |
|---|---|
| `QuotaHoldsAlways` | `RunningKnown`: after the first sync each running container is in the table, but the one being checked; `RoomForOne`: the room found by `reserve_quota` is kept as a bound on the containers, since recovery may fill the table meanwhile; `RequestInPlace`: who holds the reservation |
| `ApprovalUsedOnceHolds` | `PendingIsFresh`: what can still start a container was neither used nor refused, or its decision was not saved; `FileFits`: what the file says beyond memory is such a decision, so reading it back revives nothing else |

Each strengthening was model-checked before it was proved.

With these every invariant and every action property of a passing run, and the
refinement, is a theorem. Only model-checked are the liveness properties
(`LoopReturns`, `ClaimIsSettled`, `ReloadEnds`, `ShutdownEnds`, `QueuedRunsEnd`,
`DueOneShotFires`, `TTLEnforced`): liveness under fairness needs
ENABLED, which is out of the prover's reach.

## 5. Not modelled

The planner, routing frame, classifier and verifier are functions from text to
labels; their state-free rules are better tested than model-checked. LLM and HTTP
clients are calls to services. Settings getters clamp a number; the runs use the
clamped ranges. The web UI, personas, documents and plugins present or store without
a protocol. Serialization of task snapshots is modelled only by the limits it refuses.

Left out of the modelled components: the HTTP and SSE transports (one call per
request, no queue between calls); manifest validation, registry migration and the
health check of the installer, which change nothing that lasts; the approval of code
and hardware cron jobs and the memory and CPU quotas of deploys (the same test on
other sums); containers without a TTL; volumes and networks, so also the workspace
volume that a failing port check leaves behind
(`commander_deploy_container_run.py:120`).

## 6. Plan

Done: `TaskLoop`, `TaskResume`, `TaskLifecycle`, `McpHub`, `McpInstaller`,
`CronScheduler` and `ContainerDeploy`, each model-checked and with its safety proved.

Next, in this order:

1. An abstract specification of a cron job's triggers and runs that `CronScheduler`
   implements between restarts, and the same for an approval (asked, decided, used);
   their refinements can be proved from the invariants above.
2. Memory and CPU quotas, if their sums turn out to behave differently from the
   count.
3. The skill server's manager and the package store of the admin API, if their
   state proves worth a module.
