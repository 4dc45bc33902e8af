---------------------------- MODULE CronScheduler ----------------------------
(***************************************************************************)
(* The autonomy scheduler of mcp-servers/cron: job store, tick, queue,     *)
(* dispatch workers, job operations, start and stop, and the state file.   *)
(*                                                                         *)
(* Everything runs on one event loop.  No coroutine suspends while it      *)
(* holds the store's lock (the queue is unbounded), so a section under the *)
(* lock is one step; the only suspensions of a worker are queue.get() and  *)
(* submit_cb().                                                            *)
(*                                                                         *)
(* Time counts instants, several to a minute, and an instant has any       *)
(* number of ticks.  A recurring job is matched and keyed by the minute    *)
(* its own time zone shows at the instant: zones disagree, and a zone      *)
(* shows the minutes of an hour again when its summer time ends.           *)
(***************************************************************************)
EXTENDS Naturals, Sequences, FiniteSets, SequencesExt

CONSTANTS
    Jobs,        \* identifiers; each is drawn once (uuid)
    Workers,     \* dispatch workers
    Crons,       \* expressions: slow ones keep min_interval_s, fast ones do not
    Zones,       \* time zones of jobs
    Minute,      \* the minute of each instant (UTC)
    Local,       \* the minute each zone shows at each instant
    Nil,         \* no job, no item
    Never,       \* an empty last_trigger_key
    Consumed,    \* a last_trigger_key that starts with one_shot:
    MaxPerJob,   \* max_pending_runs_per_job of the policy
    MaxPending,  \* max_pending_runs of the policy
    TickPerJob,  \* the literals tick_once() passes in their place
    TickPending,
    MaxNow,      \* bound: instants
    MaxRuns,     \* bound: runs ever queued
    MaxEdits,    \* bound: job operations
    MaxEvents    \* bound: starts, stops, crashes and disk failures

Instants == 0 .. MaxNow

ASSUME CronAssumption ==
    /\ IsFiniteSet(Jobs)
    /\ Nil \notin Jobs
    /\ Crons \subseteq {"slow", "fast"}
    /\ Never # Consumed /\ {Never, Consumed} \cap Nat = {}
    /\ {MaxPerJob, MaxPending, TickPerJob, TickPending} \subseteq Nat \ {0}
    /\ {MaxNow, MaxRuns, MaxEdits, MaxEvents} \subseteq Nat
    /\ Minute \in [Instants -> Nat]
    /\ Local \in [Zones -> [Instants -> Nat]]
    /\ \A s, t \in Instants : s <= t => Minute[s] <= Minute[t]
    /\ \A z \in Zones : \A s, t \in Instants :
           Minute[s] = Minute[t] => Local[z][s] = Local[z][t]

VARIABLES
    jobs,      \* CronJobStore.jobs
    pending,   \* CronJobStore.pending, by run number
    running,   \* CronJobStore.running, by run number
    queue,     \* the asyncio queue of run numbers
    run,       \* the runs queued so far: the job of each
    held,      \* the run each worker dispatches, 0 for none
    disk,      \* jobs in the state file
    diskOk,    \* the state file can be written
    tick,      \* the tick task is alive
    alive,     \* workers whose task is alive
    now,       \* the instant
    ended,     \* history: runs with an entry in the run history
    fired,     \* history: schedule slots that queued a run
    twice,     \* history: slots that queued a second run
    touched,   \* history: jobs whose key was set by something else than the
               \* minute's trigger, or reads otherwise since, with the minute
    faults,    \* history: crash, reload, stop, disk
    edits,     \* job operations so far
    events     \* starts, stops, crashes and disk failures so far

storeVars == <<jobs, pending, running, disk>>
flowVars == <<queue, run, held>>
taskVars == <<tick, alive>>
slotVars == <<fired, twice, touched>>
vars == <<jobs, pending, running, queue, run, held, disk, diskOk, tick, alive, now,
          ended, fired, twice, touched, faults,
          edits, events>>

UtcMinutes == {Minute[t] : t \in Instants}
LocalMinutes == UNION {{Local[z][t] : t \in Instants} : z \in Zones}
\* last_trigger_key is empty, a local minute, or one_shot:...
Job == [mode : {"recurring", "one_shot"}, cron : Crons, zone : Zones, run_at : Instants,
        enabled : BOOLEAN, key : LocalMinutes \cup {Consumed, Never}, cool : BOOLEAN]

\* cron_matches(), on a local minute.
CronMatches(cron, m) == cron = "fast" \/ m % 2 = 0

\* minute_key: the local minute, without zone or fold.
MinuteKey(job) == Local[job.zone][now]

Existing == {j \in Jobs : jobs[j] # Nil}

\* The runs in the queue or in dispatch.
Waiting == ToSet(queue) \cup ({held[w] : w \in Workers} \ {0})

\* Bounds.
Edit == edits < MaxEdits /\ edits' = edits + 1 /\ events' = events
Event == events < MaxEvents /\ events' = events + 1 /\ edits' = edits
bounds == <<edits, events>>

\* store.save(): the whole store, replaced atomically, or an exception.
Save(after) == disk' = IF diskOk THEN after ELSE disk
SaveFaults == IF diskOk THEN faults ELSE faults \cup {"disk"}

Init ==
    /\ jobs = [j \in Jobs |-> Nil]
    /\ pending = {}
    /\ running = {}
    /\ queue = <<>>
    /\ run = <<>>
    /\ held = [w \in Workers |-> 0]
    /\ disk = jobs
    /\ diskOk = TRUE
    /\ tick = FALSE
    /\ alive = {}
    /\ now = 0
    /\ ended = {}
    /\ fired = {}
    /\ twice = {}
    /\ touched = {}
    /\ faults = {}
    /\ edits = 0
    /\ events = 0

(***************************************************************************)
(* check_enqueue_policy()                                                  *)
(***************************************************************************)
\* Mutant: a dispatched run no longer counts.
OutstandingPending == pending

Outstanding == pending \cup running
Backlog(j) == Cardinality({r \in Outstanding : run[r] = j})

Enqueue(js) ==
    LET new == {Len(run) + i : i \in DOMAIN js}
    IN /\ Len(run) + Len(js) <= MaxRuns
       /\ run' = run \o js
       /\ queue' = queue \o [i \in DOMAIN js |-> Len(run) + i]
       /\ pending' = pending \cup new

(***************************************************************************)
(* tick_once(): all enabled jobs that are due, in one section.  A job that *)
(* the policy refuses is looked at again by the next tick; its "throttled" *)
(* status makes the tick save all the same.                                *)
(***************************************************************************)
\* Mutant: a one-shot job is due at its instant only.
DueExactly(j) ==
    LET job == jobs[j]
    IN /\ job # Nil
       /\ job.enabled
       /\ IF job.mode = "one_shot"
          THEN job.key # Consumed /\ job.run_at = now
          ELSE CronMatches(job.cron, MinuteKey(job)) /\ job.key # MinuteKey(job)

Due(j) ==
    LET job == jobs[j]
    IN /\ job # Nil
       /\ job.enabled
       /\ IF job.mode = "one_shot"
          THEN job.key # Consumed /\ job.run_at <= now
          ELSE CronMatches(job.cron, MinuteKey(job)) /\ job.key # MinuteKey(job)

\* What a job is due for: its own time, or the minute of the clock.
Slot(j) ==
    IF jobs[j].mode = "one_shot" THEN <<j, "at", jobs[j].run_at>>
                                 ELSE <<j, "minute", Minute[now]>>

\* Mutant: a recurring trigger leaves the key alone.
TriggeredUnkeyed(job) ==
    IF job.mode = "one_shot" THEN [job EXCEPT !.key = Consumed, !.enabled = FALSE] ELSE job

Triggered(job) ==
    IF job.mode = "one_shot" THEN [job EXCEPT !.key = Consumed, !.enabled = FALSE]
                             ELSE [job EXCEPT !.key = MinuteKey(job)]

\* The jobs queued, in the order of the store: any order.
Admitted(ready) ==
    {js \in SetToAllKPermutations(ready) :
        Len(js) = Min({Cardinality(ready), Max({0, TickPending - Cardinality(Outstanding)})})}

tick_once ==
    LET due == {j \in Jobs : Due(j)}
    IN /\ tick
       /\ due # {}
       /\ \E js \in Admitted({j \in due : Backlog(j) < TickPerJob}) :
             LET slots == {Slot(j) : j \in ToSet(js)}
             IN /\ Enqueue(js)
                /\ jobs' = [j \in Jobs |-> IF j \in ToSet(js) THEN Triggered(jobs[j])
                                                             ELSE jobs[j]]
                /\ fired' = fired \cup slots
                /\ twice' = twice \cup (slots \cap fired)
                /\ touched' = touched \cup {<<j, Minute[now]>> :
                                    j \in {k \in ToSet(js) : jobs[k].mode = "one_shot"}}
       /\ Save(jobs')
       /\ faults' = SaveFaults
       /\ UNCHANGED <<bounds, running, held, diskOk, taskVars, now, ended>>

(***************************************************************************)
(* dispatch_worker()                                                       *)
(***************************************************************************)
\* The run leaves the pending list and is registered as running; the save
\* that follows is outside the try: when it raises, the task ends and the
\* running entry stays.
TakeSaveFails(w) ==
    /\ w \in alive
    /\ held[w] = 0
    /\ queue # <<>>
    /\ ~diskOk
    /\ queue' = Tail(queue)
    /\ pending' = pending \ {Head(queue)}
    /\ running' = running \cup {Head(queue)}
    /\ alive' = alive \ {w}
    /\ faults' = SaveFaults
    /\ UNCHANGED <<bounds, jobs, run, held, disk, diskOk, tick, now, ended, slotVars>>

\* Mutant: the run of a deleted job is left out of the history.
TakeUnrecorded(w) ==
    /\ w \in alive
    /\ held[w] = 0
    /\ queue # <<>>
    /\ diskOk
    /\ queue' = Tail(queue)
    /\ pending' = pending \ {Head(queue)}
    /\ ended' = IF jobs[run[Head(queue)]] = Nil THEN ended ELSE ended \cup {Head(queue)}
    /\ Save(jobs)
    /\ UNCHANGED <<bounds, jobs, running, run, held, diskOk, taskVars, now, slotVars, faults>>

\* The job is gone, or the hardware guard defers the run: it is recorded at
\* once and never dispatched again.
TakeAndRecord(w) ==
    /\ w \in alive
    /\ held[w] = 0
    /\ queue # <<>>
    /\ diskOk
    /\ queue' = Tail(queue)
    /\ pending' = pending \ {Head(queue)}
    /\ ended' = ended \cup {Head(queue)}
    /\ Save(jobs)
    /\ UNCHANGED <<bounds, jobs, running, run, held, diskOk, taskVars, now, slotVars, faults>>

\* The job is there and the guard allows it: submit_cb() is awaited.
TakeAndSubmit(w) ==
    /\ w \in alive
    /\ held[w] = 0
    /\ queue # <<>>
    /\ diskOk
    /\ jobs[run[Head(queue)]] # Nil
    /\ queue' = Tail(queue)
    /\ pending' = pending \ {Head(queue)}
    /\ running' = running \cup {Head(queue)}
    /\ held' = [held EXCEPT ![w] = Head(queue)]
    /\ Save(jobs)
    /\ UNCHANGED <<bounds, jobs, run, diskOk, taskVars, now, ended, slotVars, faults>>

\* submit_cb() returned or raised: submitted or failed.  The save after it
\* ends the task when it raises, once more from the handler.
Finish(w) ==
    LET r == held[w]
        j == run[r]
    IN /\ r # 0
       /\ running' = running \ {r}
       /\ held' = [held EXCEPT ![w] = 0]
       /\ ended' = ended \cup {r}
       /\ jobs' = IF jobs[j] # Nil /\ jobs[j].mode = "one_shot"
                  THEN [jobs EXCEPT ![j].enabled = FALSE] ELSE jobs
       /\ Save(jobs')
       /\ alive' = IF diskOk THEN alive ELSE alive \ {w}
       /\ faults' = SaveFaults
       /\ UNCHANGED <<bounds, pending, queue, run, diskOk, tick, now, slotVars>>

(***************************************************************************)
(* Job operations.                                                         *)
(***************************************************************************)
\* enforce_job_policy(): the minimum interval is looked at only for a
\* recurring job that is new or whose expression changes.
PolicyAllows(old, new) ==
    new.mode = "recurring" /\ (old = Nil \/ old.cron # new.cron) => new.cron = "slow"

Fresh(mode, cron, zone, at) ==
    [mode |-> mode, cron |-> cron, zone |-> zone, run_at |-> at, enabled |-> TRUE,
     key |-> Never, cool |-> FALSE]

\* A job created disabled is a paused one.
create_job(j) ==
    /\ Edit
    /\ j \notin ToSet(run) \cup Existing \cup {k \in Jobs : disk[k] # Nil}
    /\ \E mode \in {"recurring", "one_shot"}, cron \in Crons, zone \in Zones, at \in Instants :
          /\ IF mode = "one_shot" THEN at > now ELSE at = 0
          /\ PolicyAllows(Nil, Fresh(mode, cron, zone, at))
          /\ jobs' = [jobs EXCEPT ![j] = Fresh(mode, cron, zone, at)]
    /\ Save(jobs')
    /\ faults' = SaveFaults
    /\ UNCHANGED <<pending, running, flowVars, diskOk, taskVars, now, ended, slotVars>>

\* update_job(), pause_job() and resume_job(): the trigger key stays, also
\* when the zone it was written in does not.
update_job(j) ==
    /\ Edit
    /\ jobs[j] # Nil
    /\ \E new \in Job :
          /\ new.key = jobs[j].key /\ new.cool = jobs[j].cool
          /\ IF new.mode = "one_shot"
             THEN new.run_at \in {jobs[j].run_at} \cup (now + 1) .. MaxNow
             ELSE new.run_at = 0
          /\ new.mode # jobs[j].mode /\ new.mode = "one_shot" => new.run_at > now
          /\ PolicyAllows(jobs[j], new)
          /\ jobs' = [jobs EXCEPT ![j] = new]
          /\ touched' = IF new.zone = jobs[j].zone THEN touched
                        ELSE touched \cup {<<j, Minute[now]>>}
    /\ Save(jobs')
    /\ faults' = SaveFaults
    /\ UNCHANGED <<pending, running, flowVars, diskOk, taskVars, now, ended, fired, twice>>

\* The runs leave the pending list; the asyncio queue keeps them.
delete_job(j) ==
    /\ Edit
    /\ jobs[j] # Nil
    /\ jobs' = [jobs EXCEPT ![j] = Nil]
    /\ pending' = {r \in pending : run[r] # j}
    /\ Save(jobs')
    /\ faults' = SaveFaults
    /\ UNCHANGED <<running, flowVars, diskOk, taskVars, now, ended, slotVars>>

\* Also on a disabled or consumed job.  The minute's key is cleared.  The
\* reason is the default, "manual", which has a cooldown.
run_now(j) ==
    /\ Edit
    /\ jobs[j] # Nil
    /\ Cardinality(Outstanding) < MaxPending
    /\ Backlog(j) < MaxPerJob
    /\ ~jobs[j].cool
    /\ jobs' = [jobs EXCEPT ![j] =
          IF @.mode = "one_shot"
          THEN [@ EXCEPT !.key = Consumed, !.enabled = FALSE, !.cool = TRUE]
          ELSE [@ EXCEPT !.key = Never, !.cool = TRUE]]
    /\ Enqueue(<<j>>)
    /\ touched' = touched \cup {<<j, Minute[now]>>}
    /\ Save(jobs')
    /\ faults' = SaveFaults
    /\ UNCHANGED <<running, held, diskOk, taskVars, now, ended, fired, twice>>

(***************************************************************************)
(* start(), stop() and the world around the scheduler.                     *)
(***************************************************************************)
\* store.load() comes first, also when the scheduler already runs: what is
\* pending and running is forgotten, the queue and the workers are not.
start ==
    /\ Event
    /\ jobs' = disk
    /\ pending' = {}
    /\ running' = {}
    /\ IF tick
       THEN UNCHANGED taskVars
       ELSE tick' = TRUE /\ alive' = Workers
    /\ faults' = IF Waiting = {} THEN faults ELSE faults \cup {"reload"}
    /\ UNCHANGED <<flowVars, disk, diskOk, now, ended, slotVars>>

\* The tasks are cancelled where they are suspended; a dispatch in progress
\* is dropped and its running entry stays.
stop ==
    /\ Event
    /\ tick
    /\ tick' = FALSE
    /\ alive' = {}
    /\ held' = [w \in Workers |-> 0]
    /\ faults' = IF \E w \in Workers : held[w] # 0 THEN faults \cup {"stop"} ELSE faults
    /\ UNCHANGED <<storeVars, queue, run, diskOk, now, ended, slotVars>>

\* The process dies; the next one loads the file in start().
Crash ==
    /\ Event
    /\ jobs' = [j \in Jobs |-> Nil]
    /\ pending' = {}
    /\ running' = {}
    /\ queue' = <<>>
    /\ held' = [w \in Workers |-> 0]
    /\ tick' = FALSE
    /\ alive' = {}
    /\ faults' = faults \cup {"crash"}
    /\ UNCHANGED <<run, disk, diskOk, now, ended, slotVars>>

Pass ==
    /\ now < MaxNow
    /\ now' = now + 1
    /\ UNCHANGED <<bounds, storeVars, flowVars, diskOk, taskVars, ended, slotVars, faults>>

\* The stamp of the last manual run is older than the cooldown.
CooledDown(j) ==
    LET cooled(job) == IF job = Nil THEN Nil ELSE [job EXCEPT !.cool = FALSE]
    IN /\ Nil # jobs[j] /\ jobs[j].cool
       /\ jobs' = [jobs EXCEPT ![j] = cooled(@)]
       /\ disk' = [disk EXCEPT ![j] = cooled(@)]
       /\ UNCHANGED <<bounds, pending, running, flowVars, diskOk, taskVars, now, ended, slotVars,
                      faults>>

DiskFails ==
    /\ Event
    /\ diskOk
    /\ diskOk' = FALSE
    /\ UNCHANGED <<storeVars, flowVars, taskVars, now, ended, slotVars, faults>>

DiskRecovers ==
    /\ ~diskOk
    /\ diskOk' = TRUE
    /\ UNCHANGED <<bounds, storeVars, flowVars, taskVars, now, ended, slotVars, faults>>

WorkerStep(w) == TakeSaveFails(w) \/ TakeAndRecord(w) \/ TakeAndSubmit(w) \/ Finish(w)

Next ==
    \/ \E j \in Jobs : create_job(j) \/ update_job(j) \/ delete_job(j)
                       \/ run_now(j) \/ CooledDown(j)
    \/ \E w \in Workers : WorkerStep(w)
    \/ tick_once \/ start \/ stop \/ Crash \/ Pass \/ DiskFails \/ DiskRecovers

Spec ==
    /\ Init
    /\ [][Next]_vars
    /\ WF_vars(tick_once)
    /\ \A w \in Workers : WF_vars(WorkerStep(w))

(***************************************************************************)
(* Properties.                                                             *)
(***************************************************************************)
TypeOK ==
    /\ jobs \in [Jobs -> Job \cup {Nil}]
    /\ disk \in [Jobs -> Job \cup {Nil}]
    /\ run \in Seq(Jobs)
    /\ queue \in Seq(DOMAIN run)
    /\ pending \cup running \cup ended \subseteq DOMAIN run
    /\ held \in [Workers -> {0} \cup DOMAIN run]
    /\ alive \subseteq Workers
    /\ diskOk \in BOOLEAN
    /\ tick \in BOOLEAN
    /\ now \in Instants
    /\ fired \cup twice \subseteq Jobs \X {"minute", "at"} \X (Instants \cup UtcMinutes)
    /\ touched \subseteq Jobs \X UtcMinutes
    /\ faults \subseteq {"crash", "reload", "stop", "disk"}
    /\ edits \in 0 .. MaxEdits
    /\ events \in 0 .. MaxEvents

\* A slot of a schedule (the minute of a recurring job, the time of a
\* one-shot job) queues one run, over ticks, restarts and edits of anything but
\* the zone.  last_trigger_key holds the job's local minute and nothing else,
\* so within one minute the tick queues the job again only when the key was
\* cleared (run_now), replaced (the job was a one-shot meanwhile), read in
\* another zone (an update moved the job), or lost with a save that failed.
OncePerSlot ==
    \A s \in twice : (s[2] = "minute" /\ <<s[1], s[3]>> \in touched) \/ "disk" \in faults

\* The policy's counts are taken over the pending list and the running table,
\* yet they bound what the workers will really submit: what a job still has
\* in the queue or in dispatch is within the limits, and everything queued
\* for existing jobs too, unless start() was called with runs outstanding.
BacklogBounded ==
    LET of(js) == {r \in Waiting : run[r] \in js}
    IN "reload" \notin faults =>
          /\ \A j \in Jobs : Cardinality(of({j})) <= Max({MaxPerJob, TickPerJob})
          /\ Cardinality(of(Existing)) <= Max({MaxPending, TickPending})

\* What is queued is dispatched or recorded, also when its job was deleted,
\* paused or run twice, while the scheduler runs and the file is writable.
QueuedRunsEnd ==
    \A r \in 1 .. MaxRuns :
        r \in ToSet(queue) ~> \/ r \in ended
                              \/ ~tick
                              \/ faults \cap {"crash", "stop", "disk"} # {}
                              \/ ~diskOk

\* A one-shot job whose time has come or was missed fires or is changed: a
\* queue at its limit drains, and the next tick looks at the job again.  (The
\* last disjunct is the bound on the runs ever queued, where the model stops.)
DueOneShotFires ==
    \A j \in Jobs :
        (tick /\ jobs[j] # Nil /\ jobs[j].enabled /\ jobs[j].mode = "one_shot"
         /\ jobs[j].key # Consumed /\ jobs[j].run_at <= now)
        ~> \/ jobs[j] = Nil
           \/ jobs[j].mode = "recurring"
           \/ jobs[j].key = Consumed
           \/ ~jobs[j].enabled
           \/ jobs[j].run_at > now
           \/ ~tick
           \/ faults \cap {"crash", "stop", "disk"} # {}
           \/ Len(run) = MaxRuns

=============================================================================
